---------------------------- MODULE RegionProofs ----------------------------
(***************************************************************************)
(* Proofs about Region and its two users, RegionFile and RegionList, for   *)
(* every region size, set of payloads and sizes, set of opened files and   *)
(* set of writes, and wherever a save to the file is cut off.              *)
(*                                                                         *)
(* Why it implements RegionSpec: under cache coherence a slot's answer is  *)
(* what its source decompresses to (SlotChunk), so reads leave the         *)
(* abstract map alone and writes change one slot; and the loop invariant   *)
(* PackInv says that the file a save ends with carries every populated     *)
(* slot's block to a place where chunk_raw of a Region opened on it finds  *)
(* it again.                                                               *)
(*                                                                         *)
(* In RegionFile the invariants of Region hold on, since every step is one *)
(* of Region's or starts from an image; what is new is what the file at    *)
(* the path has to do with them.  In RegionList nothing is pending in a    *)
(* Region just opened, so a coherent cache answers what the file alone     *)
(* would.                                                                  *)
(***************************************************************************)
EXTENDS RegionFile, RegionList, TLAPS

-----------------------------------------------------------------------------
(* Types of the operators.                                                 *)

\* Whatever coordinates a caller passes, the index is a slot.
LEMMA SlotIndex ==
  ASSUME NEW c \in Int \X Int
  PROVE  chunk_index(c) \in Slots
<1> DEFINE a == c[1] % kSize
           b == c[2] % kSize
<1>1. kSize \in Nat \ {0}
  BY SizeAssumption
<1>2. a \in 0 .. (kSize - 1) /\ b \in 0 .. (kSize - 1)
  BY <1>1
<1>3. b * kSize \in Nat /\ b * kSize <= (kSize - 1) * kSize
  <2> HIDE DEF b
  <2>1. \E d \in Nat : b + d = kSize - 1
    BY <1>1, <1>2
  <2>2. PICK d \in Nat : b + d = kSize - 1
    BY <2>1
  <2>3. b * kSize \in Nat /\ d * kSize \in Nat
    BY <1>1, <1>2, <2>2
  <2>4. (kSize - 1) * kSize = b * kSize + d * kSize
    BY <1>1, <1>2, <2>2
  <2> QED
    BY <1>1, <2>3, <2>4
<1>4. (kSize - 1) * kSize = kSize * kSize - kSize /\ kSize * kSize \in Nat
  BY <1>1
<1>5. a + b * kSize \in 0 .. (kSize * kSize - 1)
  <2> HIDE DEF a, b
  <2> QED BY <1>1, <1>2, <1>3, <1>4
<1> QED
  BY <1>5 DEF chunk_index, Slots

\* Decompression yields a payload or an error.
LEMMA InflateType ==
  ASSUME NEW codec, NEW d \in Data
  PROVE  inflate(codec, d) \in Payloads \cup Errors
BY DEF inflate, Data, Errors

\* Blocks built for a write are blocks.
LEMMA BlockType ==
  ASSUME NEW p \in Payloads, NEW codec \in Codecs
  PROVE  make_chunk_block(p, codec) \in Block
BY PayloadAssumption DEF make_chunk_block, Block, Data, Codecs, codec_to_byte

\* The empty region is an image, and its layout is trivially right.
LEMMA EmptyFileImage == IsImage(EmptyFile) /\ Layout(EmptyFile)
BY PayloadAssumption
   DEF IsImage, EmptyFile, kHeaderBytes, Populated, Locations, NoLocation,
       Layout

-----------------------------------------------------------------------------
(* The save loop.                                                          *)

\* With no slot done the empty file is packed.
LEMMA EmptyFilePacked == PackedUpTo(EmptyFile, 0)
<1>1. sector_offset(EmptyFile) = 2
  BY DEF sector_offset, EmptyFile, kHeaderBytes, kSector
<1> QED
  BY <1>1 DEF PackedUpTo, EmptyFile, kHeaderBytes, kSector, kMaxCount, Slots

\* What a save copies for a populated slot it does not refuse is a block.
LEMMA SourceBlockType ==
  ASSUME TypeOK, NEW s \in Slots, has_chunk(s), Copyable(s)
  PROVE  source_block(s) \in Block /\ chunk_timestamp(s) \in Timestamps
<1>1. CASE overrides[s].present
  BY <1>1 DEF TypeOK, has_chunk, removed, source_block, chunk_timestamp,
              ChunkEntry
<1>2. CASE ~ overrides[s].present
  BY <1>2 DEF TypeOK, has_chunk, source_block, chunk_timestamp, Copyable,
              IsImage, BlockAt, HeaderInside
<1> QED
  BY <1>1, <1>2

\* The casts of a location entry change nothing that TableHolds lets through.
LEMMA CastsExact ==
  ASSUME NEW m \in Nat, NEW n \in 0 .. m
  PROVE  n % (m + 1) = n
OBVIOUS

\* Appending a block leaves an image, packed one slot further.
LEMMA AppendPacks ==
  ASSUME TypeOK, PackInv, NEW s \in Slots, s = packing.k,
         has_chunk(s), Copyable(s), TableHolds(packing.file, source_block(s)),
         NEW f, f = append_block(packing.file, s, source_block(s),
                                 chunk_timestamp(s))
  PROVE  IsImage(f) /\ PackedUpTo(f, s + 1)
<1> DEFINE g == packing.file
           b == source_block(s)
           off == sector_offset(g)
           cnt == sectors_needed(b)
<1>1. b \in Block /\ chunk_timestamp(s) \in Timestamps
  BY SourceBlockType
<1>2. /\ IsImage(g) /\ PackedUpTo(g, s)
      /\ off \in Nat /\ off \in 2 .. kMaxOffset
  BY DEF TypeOK, PackInv, TableHolds, PackedUpTo
<1>3. /\ cnt \in 1 .. kMaxCount
      /\ BlockBytes(b) <= cnt * kSector
  BY <1>1 DEF TableHolds, sectors_needed, Block, BlockBytes, kSector, kMaxCount
<1> HIDE DEF g, b, off, cnt
<1>4. /\ f.size = g.size + cnt * kSector
      /\ f.loc = [g.loc EXCEPT ![s] = [off |-> off, cnt |-> cnt]]
      /\ f.ts = [g.ts EXCEPT ![s] = chunk_timestamp(s)]
      /\ f.at = [o \in DOMAIN g.at \cup {off} |-> IF o = off THEN b ELSE g.at[o]]
  <2>1. off % (kMaxOffset + 1) = off /\ cnt % (kMaxCount + 1) = cnt
    <3>1. kMaxOffset \in Nat /\ kMaxCount \in Nat
      BY SMT DEF kMaxOffset, kMaxCount
    <3> QED
      BY <1>2, <1>3, <3>1, CastsExact
  <2> QED
    BY <2>1 DEF append_block, g, b, off, cnt
<1>5. sector_offset(f) = off + cnt /\ f.size = kSector * sector_offset(f)
  <2>1. cnt \in Nat /\ off \in Nat /\ f.size = kSector * off + cnt * kSector
    BY <1>2, <1>3, <1>4 DEF PackedUpTo, off, kMaxCount
  <2> QED
    BY <2>1, SMT DEF sector_offset, kSector
<1>6. IsImage(f)
  <2>1. /\ f.size \in Nat /\ f.size >= kHeaderBytes
        /\ f.loc \in [Slots -> Locations]
        /\ f.ts \in [Slots -> Timestamps]
    BY <1>1, <1>2, <1>3, <1>4 DEF IsImage, Locations, kMaxCount, kHeaderBytes,
                                  kSector
  <2>2. DOMAIN f.at \subseteq Nat /\ \A o \in DOMAIN f.at : f.at[o] \in Block
    BY <1>1, <1>2, <1>4 DEF IsImage
  <2>3. \A t \in Slots : Populated(f, t) => f.loc[t].off \in DOMAIN f.at
    BY <1>2, <1>4 DEF Populated, IsImage, PackedUpTo, Carried, NoLocation
  <2> QED
    BY <2>1, <2>2, <2>3 DEF IsImage
<1>7. PackedUpTo(f, s + 1)
  <2>0. off \in 2 .. (2 + kMaxCount * s) /\ \A o \in DOMAIN g.at : o < off
    BY <1>2 DEF PackedUpTo, off
  <2>1. /\ sector_offset(f) \in 2 .. (2 + kMaxCount * (s + 1))
        /\ \A o \in DOMAIN f.at : o < sector_offset(f)
    <3>1. sector_offset(f) \in 2 .. (2 + kMaxCount * (s + 1))
      BY <1>3, <1>5, <2>0 DEF kMaxCount, Slots
    <3>2. DOMAIN f.at = DOMAIN g.at \cup {off} /\ DOMAIN g.at \subseteq Nat
      BY <1>2, <1>4 DEF IsImage
    <3> QED
      BY <1>3, <1>5, <2>0, <3>1, <3>2 DEF kMaxCount
  <2>2. ASSUME NEW t \in Slots
        PROVE  IF t < s + 1 /\ has_chunk(t) THEN Carried(f, t)
               ELSE f.loc[t] = NoLocation
    <3>1. CASE t = s
      <4>1. f.loc[s] = [off |-> off, cnt |-> cnt] /\ f.ts[s] = chunk_timestamp(s)
        BY <1>2, <1>4 DEF IsImage
      <4>2. off \in DOMAIN f.at /\ f.at[off] = b
        BY <1>4
      <4>3. Carried(f, s)
        BY <4>1, <4>2, <1>2, <1>3, <1>5 DEF Carried, BlockAt, b, kMaxCount
      <4> QED
        BY <3>1, <4>3 DEF Slots
    <3>2. CASE t # s
      <4>1. f.loc[t] = g.loc[t] /\ f.ts[t] = g.ts[t]
        BY <3>2, <1>2, <1>4 DEF IsImage
      <4>2. CASE t < s /\ has_chunk(t)
        <5>1. Carried(g, t)
          BY <4>2, <1>2 DEF PackedUpTo
        <5>2. f.loc[t].off # off /\ BlockAt(f, t) = BlockAt(g, t)
          BY <4>1, <5>1, <1>2, <1>4 DEF Carried, PackedUpTo, off, BlockAt
        <5>3. f.loc[t].off \in DOMAIN f.at
          BY <4>1, <5>1, <1>4 DEF Carried
        <5>4. f.loc[t].off + f.loc[t].cnt <= sector_offset(f)
          <6>0. g.loc[t] \in Locations
            BY <1>2 DEF IsImage
          <6>1. f.loc[t].off \in Nat /\ f.loc[t].cnt \in Nat
            BY <4>1, <6>0 DEF Locations
          <6>2. f.loc[t].off + f.loc[t].cnt <= off
            BY <4>1, <5>1 DEF Carried, off
          <6>3. off \in Nat /\ cnt \in Nat
            BY <1>2, <1>3 DEF kMaxCount
          <6> QED
            BY <6>1, <6>2, <6>3, <1>5
        <5>5. Carried(f, t)
          BY <4>1, <5>1, <5>2, <5>3, <5>4 DEF Carried
        <5> QED
          BY <4>2, <5>5 DEF Slots
      <4>3. CASE ~ (t < s /\ has_chunk(t))
        BY <3>2, <4>1, <4>3, <1>2 DEF PackedUpTo, Slots
      <4> QED
        BY <4>2, <4>3
    <3> QED
      BY <3>1, <3>2
  <2>3. ASSUME NEW t \in Slots, NEW u \in Slots,
               t < u, u < s + 1, has_chunk(t), has_chunk(u)
        PROVE  f.loc[t].off + f.loc[t].cnt <= f.loc[u].off
    <3>1. f.loc[t] = g.loc[t] /\ Carried(g, t)
      BY <2>3, <1>2, <1>4 DEF PackedUpTo, IsImage, Slots
    <3>2. CASE u = s
      BY <3>1, <3>2, <1>2, <1>4 DEF Carried, off, IsImage
    <3>3. CASE u # s
      BY <2>3, <3>1, <3>3, <1>2, <1>4 DEF PackedUpTo, IsImage, Slots
    <3> QED
      BY <3>2, <3>3
  <2> QED
    BY <1>5, <2>1, <2>2, <2>3 DEF PackedUpTo
<1> QED
  BY <1>6, <1>7

\* Skipping an unpopulated slot leaves the file packed one slot further.
LEMMA SkipPacks ==
  ASSUME TypeOK, PackInv, NEW s \in Slots, s = packing.k, ~ has_chunk(s)
  PROVE  PackedUpTo(packing.file, s + 1)
<1>1. PackedUpTo(packing.file, s) /\ s \in Nat
  BY DEF PackInv, Slots
<1>2. sector_offset(packing.file) \in 2 .. (2 + kMaxCount * (s + 1))
  BY <1>1 DEF PackedUpTo, kMaxCount
<1>3. \A t \in Slots : t < s + 1 /\ has_chunk(t) <=> t < s /\ has_chunk(t)
  BY <1>1 DEF Slots
<1> QED
  BY <1>1, <1>2, <1>3 DEF PackedUpTo

\* A packed file has the layout a reader relies on.
LEMMA PackedLayout ==
  ASSUME NEW f, NEW k \in 0 .. (kSize * kSize), IsImage(f), PackedUpTo(f, k)
  PROVE  Layout(f)
<1>1. \A s \in Slots : Populated(f, s) => s < k /\ has_chunk(s) /\ Carried(f, s)
  BY DEF PackedUpTo, Populated, NoLocation
<1>2. ASSUME NEW s \in Slots, Populated(f, s)
      PROVE  /\ f.loc[s].off + f.loc[s].cnt <= sector_offset(f)
             /\ BlockBytes(BlockAt(f, s)) <= f.loc[s].cnt * kSector
  BY <1>1, <1>2 DEF Carried
<1>3. ASSUME NEW s \in Slots, NEW t \in Slots, Populated(f, s),
             Populated(f, t), s < t
      PROVE  f.loc[s].off + f.loc[s].cnt <= f.loc[t].off
  BY <1>1, <1>3 DEF PackedUpTo
<1> QED
  BY <1>2, <1>3 DEF Layout

-----------------------------------------------------------------------------
(* The inductive invariant.  TypeOK alone is not inductive: that the block *)
(* table of the file under construction stays defined where the location   *)
(* table points needs the layout, PackInv.                                 *)

Inv == TypeOK /\ PackInv /\ Layout(saved.file)

LEMMA InitInv == Init => Inv
<1> SUFFICES ASSUME Init PROVE Inv
  OBVIOUS
<1>1. IsImage(EmptyFile) /\ Layout(EmptyFile)
  BY EmptyFileImage
<1>2. IsImage(bytes)
  BY <1>1, InputAssumption DEF Init, Loaded
<1>3. TypeOK
  <2>1. cache \in [Slots -> Payloads]
    BY PayloadAssumption DEF Init, Loaded
  <2>2. overrides \in [Slots -> ChunkEntry]
    BY PayloadAssumption DEF Init, Loaded, NoOverride, ChunkEntry, Codecs
  <2>3. 0 \in 0 .. (kSize * kSize)
    BY SizeAssumption
  <2> QED
    BY <1>1, <1>2, <2>1, <2>2, <2>3
       DEF TypeOK, Init, Loaded, NotSaving, NotSaved
<1> QED
  BY <1>1, <1>3, EmptyFilePacked DEF Inv, PackInv, Init, NotSaving, NotSaved

LEMMA NextInv == Inv /\ [Next]_vars => Inv'
<1> SUFFICES ASSUME Inv, [Next]_vars PROVE Inv'
  OBVIOUS
<1> USE DEF Inv
<1>0. PackedUpTo(EmptyFile, 0)'
  BY EmptyFilePacked, PTL
<1>1. ASSUME NEW s \in Slots, cache' = CacheAfterRead(s), UNCHANGED <<bytes, overrides, packing, saved>>,
             views' \subseteq Slots, ~ packing.active
      PROVE  Inv'
  <2>1. cache' \in [Slots -> Payloads]
    BY <1>1 DEF TypeOK, CacheAfterRead, Fills
  <2>2. packing = NotSaving
    BY <1>1 DEF PackInv
  <2>3. PackInv'
    BY <1>0, <1>1, <2>2 DEF PackInv, NotSaving
  <2> QED
    BY <1>1, <2>1, <2>3 DEF TypeOK, Layout
<1>2. ASSUME NEW c \in Coords, ChunkRaw(c)
      PROVE  Inv'
  <2>1. chunk_index(c) \in Slots
    BY SlotIndex, InputAssumption
  <2> QED
    BY <1>1, <1>2, <2>1 DEF ChunkRaw, ViewsAfterRead, TypeOK
<1>3. ASSUME NEW c \in Coords, ChunkView(c)
      PROVE  Inv'
  <2>1. chunk_index(c) \in Slots
    BY SlotIndex, InputAssumption
  <2> QED
    BY <1>1, <1>3, <2>1 DEF ChunkView, ViewsAfterRead, TypeOK
<1>4. ASSUME NEW s \in Slots, NEW e \in ChunkEntry,
             overrides' = [overrides EXCEPT ![s] = e], ClearCache(s),
             UNCHANGED <<bytes, packing, saved>>, ~ packing.active
      PROVE  Inv'
  <2>1. overrides' \in [Slots -> ChunkEntry]
    BY <1>4 DEF TypeOK
  <2>2. cache' \in [Slots -> Payloads] /\ views' \subseteq Slots
    BY <1>4, PayloadAssumption DEF TypeOK, ClearCache
  <2>3. packing = NotSaving
    BY <1>4 DEF PackInv
  <2>4. PackInv'
    BY <1>0, <1>4, <2>3 DEF PackInv, NotSaving
  <2> QED
    BY <1>4, <2>1, <2>2, <2>4 DEF TypeOK, Layout
<1>5. ASSUME NEW c \in Coords, NEW w \in Writes,
             WriteChunkBytes(c, w[1], w[2], w[3])
      PROVE  Inv'
  <2> DEFINE e == [present |-> TRUE, compressed |-> make_chunk_block(w[1], w[2]),
                   timestamp |-> w[3], codec |-> w[2]]
  <2>1. chunk_index(c) \in Slots
    BY SlotIndex, InputAssumption
  <2>2. w[1] \in Payloads /\ w[2] \in Codecs /\ w[3] \in Timestamps
    BY InputAssumption
  <2>3. e \in ChunkEntry
    BY <2>2, BlockType DEF ChunkEntry
  <2> QED
    BY <1>4, <1>5, <2>1, <2>3 DEF WriteChunkBytes
<1>6. ASSUME NEW c \in Coords, RemoveChunk(c)
      PROVE  Inv'
  <2>1. chunk_index(c) \in Slots
    BY SlotIndex, InputAssumption
  <2>2. Removed \in ChunkEntry
    BY PayloadAssumption DEF Removed, NoOverride, ChunkEntry, Codecs
  <2> QED
    BY <1>4, <1>6, <2>1, <2>2 DEF RemoveChunk
<1>7. CASE SaveBegin
  BY <1>0, <1>7, EmptyFileImage, SizeAssumption
     DEF SaveBegin, TypeOK, PackInv, Layout
<1>8. CASE SaveSkip
  <2>1. PackedUpTo(packing.file, packing.k + 1)
    BY <1>8, SkipPacks DEF SaveSkip
  <2>2. PackInv'
    BY <1>8, <2>1 DEF SaveSkip, PackInv, PackedUpTo, Carried, has_chunk,
                      removed, Copyable, source_block, chunk_timestamp
  <2>3. packing'.k \in 0 .. (kSize * kSize)
    BY <1>8, SizeAssumption DEF SaveSkip, Slots
  <2> QED
    BY <1>8, <2>2, <2>3 DEF SaveSkip, TypeOK, Layout
<1>9. CASE SaveAppend
  <2>1. /\ IsImage(packing'.file)
        /\ PackedUpTo(packing'.file, packing'.k)
    BY <1>9, AppendPacks DEF SaveAppend
  <2>2. PackInv'
    BY <1>9, <2>1 DEF SaveAppend, PackInv, PackedUpTo, Carried, has_chunk,
                      removed, Copyable, source_block, chunk_timestamp
  <2>3. packing'.k \in 0 .. (kSize * kSize)
    BY <1>9, SizeAssumption DEF SaveAppend, Slots
  <2> QED
    BY <1>9, <2>1, <2>2, <2>3 DEF SaveAppend, TypeOK, Layout
<1>10. CASE SaveFail
  BY <1>0, <1>10, EmptyFileImage, SizeAssumption
     DEF SaveFail, TypeOK, PackInv, Layout, NotSaving
<1>11. CASE SaveDone
  <2>1. Layout(packing.file)
    BY PackedLayout DEF TypeOK, PackInv
  <2> QED
    BY <1>0, <1>11, <2>1, EmptyFileImage, SizeAssumption
       DEF SaveDone, TypeOK, PackInv, Layout, NotSaving
<1>12. CASE Reopen
  <2>1. /\ cache' \in [Slots -> Payloads]
        /\ overrides' \in [Slots -> ChunkEntry]
    BY <1>12, PayloadAssumption DEF Reopen, NoOverride, ChunkEntry, Codecs
  <2>2. packing = NotSaving
    BY <1>12 DEF PackInv, Reopen
  <2>3. PackInv'
    BY <1>0, <1>12, <2>2 DEF PackInv, NotSaving, Reopen
  <2> QED
    BY <1>12, <2>1, <2>3 DEF Reopen, TypeOK, Layout
<1>13. CASE UNCHANGED vars
  BY <1>13 DEF vars, TypeOK, PackInv, PackedUpTo, Carried, has_chunk, removed,
               Copyable, source_block, chunk_timestamp, Layout
<1> QED
  BY <1>2, <1>3, <1>5, <1>6, <1>7, <1>8, <1>9, <1>10, <1>11, <1>12, <1>13
     DEF Next

\* Type correctness of every reachable state of a Region.
THEOREM TypeCorrect == Spec => []TypeOK
<1>1. Inv => TypeOK
  BY DEF Inv
<1> QED
  BY <1>1, InitInv, NextInv, PTL DEF Spec

\* At every turn of save_to_bytes's loop the file built so far carries just
\* the populated slots below the loop's index, one after the other.
THEOREM PackingIsSound == Spec => []PackInv
<1>1. Inv => PackInv
  BY DEF Inv
<1> QED
  BY <1>1, InitInv, NextInv, PTL DEF Spec

\* Every file save_to_bytes builds, and each state of it on the way, has
\* blocks inside the file, covered by their sector counts and disjoint.
THEOREM LayoutCorrect == Spec => []SavedLayout
<1>1. Inv => SavedLayout
  BY PackedLayout DEF Inv, SavedLayout, TypeOK, PackInv
<1> QED
  BY <1>1, InitInv, NextInv, PTL DEF Spec

\* The sector offset never reaches its 24-bit limit, whatever is saved.
THEOREM OffsetsFit == Spec => []OffsetFits
<1>1. Inv => OffsetFits
  <2> SUFFICES ASSUME Inv PROVE OffsetFits
    OBVIOUS
  <2> DEFINE n == kSize * kSize
             o == sector_offset(packing.file)
  <2>1. n \in Nat /\ packing.k \in 0 .. n /\ o \in 2 .. (2 + kMaxCount * packing.k)
    BY SizeAssumption DEF Inv, TypeOK, PackInv, PackedUpTo
  <2>2. 2 + kMaxCount * n <= kMaxOffset
    BY SizeAssumption
  <2> HIDE DEF n, o
  <2>3. o <= 2 + kMaxCount * packing.k
    BY <2>1 DEF kMaxCount
  <2>4. o <= kMaxOffset
    BY <2>1, <2>2, SMT DEF kMaxCount, kMaxOffset
  <2> QED
    BY <2>3, <2>4 DEF OffsetFits, o
<1> QED
  BY <1>1, InitInv, NextInv, PTL DEF Spec

-----------------------------------------------------------------------------
(* The cache and the views into it.                                        *)

CacheInv == CacheCoherent /\ LiveViewCurrent

\* Only a populated slot decompresses.
LEMMA DecodedPopulated ==
  ASSUME NEW s, decoded(s) \in Payloads
  PROVE  has_chunk(s)
BY PayloadAssumption DEF decoded, has_chunk, read_original, Errors

LEMMA ReadKeepsCache ==
  ASSUME Inv, CacheInv, NEW s \in Slots,
         cache' = CacheAfterRead(s), UNCHANGED <<bytes, overrides>>,
         \/ views' = ViewsAfterRead(s)
         \/ views' = ViewsAfterRead(s) \cup {s} /\ chunk_raw(s) \in Parses
  PROVE  CacheInv' /\ views \subseteq views'
<1>1. \A t \in Slots : /\ decoded(t)' = decoded(t)
                      /\ has_chunk(t)' = has_chunk(t)
  BY DEF decoded, has_chunk, removed, read_original, Populated, Start,
         HeaderInside, Whole, BlockAt
<1>2. views \subseteq views'
  BY PayloadAssumption DEF ViewsAfterRead, Fills, CacheInv, LiveViewCurrent
<1>3. CacheCoherent'
  BY <1>1 DEF CacheInv, CacheCoherent, CacheAfterRead, Fills, Inv, TypeOK
<1>4. ASSUME NEW t \in views'
      PROVE  cache'[t] \in Parses /\ t \in Slots
  <2>1. CASE t \in views
    BY <2>1, PayloadAssumption
       DEF CacheAfterRead, Fills, CacheInv, LiveViewCurrent, Inv, TypeOK
  <2>2. CASE t \notin views
    <3>1. t = s /\ chunk_raw(s) \in Parses
      BY <2>2, <1>4 DEF ViewsAfterRead
    <3>2. chunk_raw(s) = decoded(s)
      BY DEF chunk_raw, CacheInv, CacheCoherent
    <3>3. decoded(s) \in Payloads /\ decoded(s) # Empty
      BY <3>1, <3>2, PayloadAssumption
    <3> QED
      BY <3>1, <3>2, <3>3
         DEF CacheAfterRead, Fills, CacheInv, CacheCoherent, Inv, TypeOK
  <2> QED
    BY <2>1, <2>2
<1>5. LiveViewCurrent'
  BY <1>1, <1>3, <1>4, DecodedPopulated, PayloadAssumption
     DEF LiveViewCurrent, CacheCoherent
<1> QED
  BY <1>2, <1>3, <1>5 DEF CacheInv

LEMMA ClearKeepsCache ==
  ASSUME Inv, CacheInv, NEW s \in Slots, NEW e,
         overrides' = [overrides EXCEPT ![s] = e], ClearCache(s),
         UNCHANGED bytes
  PROVE  CacheInv'
<1>1. ASSUME NEW t \in Slots, t # s
      PROVE  /\ decoded(t)' = decoded(t) /\ has_chunk(t)' = has_chunk(t)
             /\ cache'[t] = cache[t]
  BY <1>1 DEF decoded, has_chunk, removed, read_original, Populated, Start,
              HeaderInside, Whole, BlockAt, ClearCache, Inv, TypeOK
<1>2. cache'[s] = Empty /\ views' = views \ {s} /\ views \subseteq Slots
  BY DEF ClearCache, Inv, TypeOK
<1> QED
  BY <1>1, <1>2 DEF CacheInv, CacheCoherent, LiveViewCurrent

LEMMA NextCacheInv == Inv /\ CacheInv /\ [Next]_vars => CacheInv'
<1> SUFFICES ASSUME Inv, CacheInv, [Next]_vars PROVE CacheInv'
  OBVIOUS
<1>1. ASSUME UNCHANGED <<bytes, cache, overrides, views>>
      PROVE  CacheInv'
  BY <1>1 DEF CacheInv, CacheCoherent, LiveViewCurrent, decoded, has_chunk,
              removed, read_original, Populated, Start, HeaderInside, Whole,
              BlockAt
<1>2. \A c \in Coords : chunk_index(c) \in Slots
  BY SlotIndex, InputAssumption
<1>3. ASSUME NEW c \in Coords, ChunkRaw(c) PROVE CacheInv'
  BY <1>2, <1>3, ReadKeepsCache DEF ChunkRaw
<1>4. ASSUME NEW c \in Coords, ChunkView(c) PROVE CacheInv'
  BY <1>2, <1>4, ReadKeepsCache DEF ChunkView
<1>5. ASSUME NEW c \in Coords, NEW w \in Writes,
             WriteChunkBytes(c, w[1], w[2], w[3])
      PROVE  CacheInv'
  BY <1>2, <1>5, ClearKeepsCache DEF WriteChunkBytes
<1>6. ASSUME NEW c \in Coords, RemoveChunk(c) PROVE CacheInv'
  BY <1>2, <1>6, ClearKeepsCache DEF RemoveChunk
<1>7. CASE Reopen
  BY <1>7 DEF Reopen, CacheInv, CacheCoherent, LiveViewCurrent
<1>8. CASE SaveBegin \/ SaveSkip \/ SaveAppend \/ SaveFail \/ SaveDone
           \/ UNCHANGED vars
  BY <1>1, <1>8 DEF SaveBegin, SaveSkip, SaveAppend, SaveFail, SaveDone, vars
<1> QED
  BY <1>3, <1>4, <1>5, <1>6, <1>7, <1>8 DEF Next

LEMMA InitCacheInv == Init => CacheInv
BY DEF Init, Loaded, CacheInv, CacheCoherent, LiveViewCurrent

\* The cache never answers for data that a write or remove has replaced.
THEOREM CacheIsCoherent == Spec => []CacheCoherent
<1>1. CacheInv => CacheCoherent
  BY DEF CacheInv
<1> QED
  BY <1>1, InitInv, NextInv, InitCacheInv, NextCacheInv, PTL DEF Spec

\* A view whose bytes nobody has taken shows the slot's present contents.
THEOREM LiveViewsAreCurrent == Spec => []LiveViewCurrent
<1>1. CacheInv => LiveViewCurrent
  BY DEF CacheInv
<1> QED
  BY <1>1, InitInv, NextInv, InitCacheInv, NextCacheInv, PTL DEF Spec

\* Neither a read nor a save takes the bytes away from a view.
THEOREM ReadsKeepViews == Spec => ViewsSurviveReads
<1>1. ASSUME Inv, CacheInv, [Next]_vars
      PROVE  [(\E c \in Coords : ChunkRaw(c) \/ ChunkView(c))
                \/ SaveBegin \/ SaveStep => views \subseteq views']_vars
  <2>1. \A c \in Coords : chunk_index(c) \in Slots
    BY SlotIndex, InputAssumption
  <2>2. ASSUME NEW c \in Coords, ChunkRaw(c) \/ ChunkView(c)
        PROVE  views \subseteq views'
    BY <1>1, <2>1, <2>2, ReadKeepsCache DEF ChunkRaw, ChunkView
  <2> QED
    BY <2>2 DEF SaveBegin, SaveStep, SaveSkip, SaveAppend, SaveFail, SaveDone
<1> QED
  BY <1>1, InitInv, NextInv, InitCacheInv, NextCacheInv, PTL
     DEF Spec, ViewsSurviveReads

-----------------------------------------------------------------------------
(* A third invariant: the blocks of pending writes are well formed.        *)

LEMMA NextBlocksMade == Inv /\ BlocksMade /\ [Next]_vars => BlocksMade'
<1> SUFFICES ASSUME Inv, BlocksMade, [Next]_vars PROVE BlocksMade'
  OBVIOUS
<1>1. ASSUME UNCHANGED overrides PROVE BlocksMade'
  BY <1>1 DEF BlocksMade, removed
<1>2. overrides \in [Slots -> ChunkEntry]
  BY DEF Inv, TypeOK
<1>3. ASSUME NEW c \in Coords, NEW w \in Writes,
             WriteChunkBytes(c, w[1], w[2], w[3])
      PROVE  BlocksMade'
  <2>1. w[1] \in Payloads
    BY InputAssumption
  <2> DEFINE s == chunk_index(c)
  <2>2. ASSUME NEW t \in Slots, t # s, overrides'[t].present, ~ removed(t)'
        PROVE  \E p \in Payloads : overrides'[t].compressed
                                     = make_chunk_block(p, overrides'[t].codec)
    <3>1. overrides'[t] = overrides[t]
      BY <1>2, <1>3, <2>2 DEF WriteChunkBytes
    <3> QED
      BY <2>2, <3>1 DEF BlocksMade, removed
  <2>3. ASSUME NEW t \in Slots, t = s
        PROVE  overrides'[t].compressed
                 = make_chunk_block(w[1], overrides'[t].codec)
    BY <1>2, <1>3, <2>3 DEF WriteChunkBytes
  <2> QED
    BY <2>1, <2>2, <2>3 DEF BlocksMade
<1>4. ASSUME NEW c \in Coords, RemoveChunk(c)
      PROVE  BlocksMade'
  <2> DEFINE s == chunk_index(c)
  <2>1. ASSUME NEW t \in Slots, t # s
        PROVE  overrides'[t] = overrides[t]
    BY <1>2, <1>4, <2>1 DEF RemoveChunk
  <2>2. ASSUME NEW t \in Slots, t = s
        PROVE  removed(t)'
    BY <1>2, <1>4, <2>2 DEF RemoveChunk, removed, Removed, NoOverride
  <2> QED
    BY <2>1, <2>2 DEF BlocksMade, removed
<1>5. CASE Reopen
  BY <1>5 DEF Reopen, BlocksMade, NoOverride
<1> QED
  BY <1>1, <1>3, <1>4, <1>5
     DEF Next, ChunkRaw, ChunkView, SaveBegin, SaveSkip, SaveAppend, SaveFail,
         SaveDone, vars

LEMMA InitBlocksMade == Init => BlocksMade
BY DEF Init, Loaded, BlocksMade, NoOverride

\* Every pending write's block carries the codec byte of its codec.
THEOREM BlocksAreMade == Spec => []BlocksMade
BY InitInv, NextInv, InitBlocksMade, NextBlocksMade, PTL DEF Spec

-----------------------------------------------------------------------------
(* The mapping.                                                            *)

AllInv == Inv /\ CacheInv /\ BlocksMade

SlotChunk(s) ==
  IF has_chunk(s) THEN [raw |-> decoded(s), ts |-> chunk_timestamp(s)]
  ELSE Absent

FileChunk(f, s) ==
  IF Populated(f, s) THEN [raw |-> read_original(f, s), ts |-> f.ts[s]]
  ELSE Absent

\* Reading an image gives a payload or an error.
LEMMA ReadType ==
  ASSUME NEW f, IsImage(f), NEW s \in Slots
  PROVE  read_original(f, s) \in Payloads \cup Errors
<1>1. CASE Populated(f, s) /\ HeaderInside(f, s, 5)
  <2>1. BlockAt(f, s) \in Block
    BY <1>1 DEF IsImage, HeaderInside, BlockAt, Start, kSector, Locations,
                Populated
  <2>2. inflate(byte_to_codec[BlockAt(f, s).codec], BlockAt(f, s).data)
          \in Payloads \cup Errors
    BY <2>1, InflateType DEF Block
  <2> QED
    BY <2>2 DEF read_original, Errors
<1>2. CASE ~ (Populated(f, s) /\ HeaderInside(f, s, 5))
  BY <1>2 DEF read_original, Errors
<1> QED
  BY <1>1, <1>2

LEMMA FileChunkType ==
  ASSUME NEW f, IsImage(f)
  PROVE  OnDisk(f) \in [Slots -> Chunks \cup {Absent}] /\ OnDisk(f) # Absent
<1>1. OnDisk(f) \in [Slots -> Chunks \cup {Absent}]
  BY ReadType DEF OnDisk, Chunks, IsImage
<1> QED
  BY <1>1, AbsentAssumption

LEMMA ContentsAre ==
  ASSUME CacheInv
  PROVE  Contents = [s \in Slots |-> SlotChunk(s)]
BY DEF CacheInv, CacheCoherent, Contents, SlotChunk, chunk_raw

LEMMA SlotChunkType ==
  ASSUME Inv, BlocksMade, NEW s \in Slots
  PROVE  SlotChunk(s) \in Chunks \cup {Absent}
<1>1. CASE overrides[s].present
  <2>1. overrides[s] \in ChunkEntry
    BY DEF Inv, TypeOK
  <2>2. CASE removed(s)
    BY <1>1, <2>2 DEF SlotChunk, has_chunk
  <2>3. CASE ~ removed(s)
    <3>1. overrides[s].compressed.data \in Data
      BY <1>1, <2>1, <2>3 DEF ChunkEntry, removed, Block
    <3>2. inflate(overrides[s].codec, overrides[s].compressed.data)
            \in Payloads \cup Errors
      BY <3>1, InflateType
    <3> QED
      BY <1>1, <2>1, <2>3, <3>2
         DEF SlotChunk, decoded, chunk_timestamp, ChunkEntry, Chunks
  <2> QED
    BY <2>2, <2>3
<1>2. CASE ~ overrides[s].present
  BY <1>2, ReadType
     DEF SlotChunk, decoded, chunk_timestamp, Chunks, Inv, TypeOK, IsImage
<1> QED
  BY <1>1, <1>2

\* The contents of a slot are a function of its override and the opened file.
LEMMA SlotChunkStays ==
  ASSUME NEW s, UNCHANGED bytes, overrides'[s] = overrides[s]
  PROVE  SlotChunk(s)' = SlotChunk(s)
BY DEF SlotChunk, has_chunk, removed, decoded, chunk_timestamp, read_original,
       Populated, Start, HeaderInside, Whole, BlockAt

-----------------------------------------------------------------------------
(* Saving: what a populated slot's block decodes to, here and in the file. *)

\* save_to_bytes's checks imply the stricter header check of chunk_raw.
LEMMA WholeInside ==
  ASSUME NEW f, IsImage(f), NEW s \in Slots, BlockAt(f, s) \in Block,
         Whole(f, s)
  PROVE  HeaderInside(f, s, 5)
<1> DEFINE n == BlockAt(f, s).len
           st == Start(f, s)
<1>1. n \in Nat /\ n # 0 /\ st + (4 + n) <= f.size
  BY DEF Whole, Block, BlockBytes
<1>2. f.loc[s] \in Locations /\ f.size \in Nat
  BY DEF IsImage
<1>3. st \in Nat
  BY <1>2 DEF Start, Locations, kSector
<1> HIDE DEF n, st
<1>4. st + 5 <= f.size
  BY <1>1, <1>2, <1>3
<1> QED
  BY <1>4 DEF HeaderInside, st

\* A slot a save can copy is not damaged.
LEMMA CopyableIsSound ==
  ASSUME AllInv, NEW s \in Slots, has_chunk(s), Copyable(s)
  PROVE  /\ decoded(s) # "RegionInvalidChunk"
         /\ source_block(s) \in Block /\ source_block(s).len # 0
<1>1. source_block(s) \in Block
  BY SourceBlockType DEF AllInv, Inv
<1>2. CASE overrides[s].present
  <2>1. PICK p \in Payloads : overrides[s].compressed
                                = make_chunk_block(p, overrides[s].codec)
    BY <1>2 DEF AllInv, BlocksMade, has_chunk
  <2>2. overrides[s].codec \in Codecs
    BY DEF AllInv, Inv, TypeOK, ChunkEntry
  <2>3. source_block(s).len # 0
    BY <1>2, <2>1, <2>2, PayloadAssumption DEF source_block, make_chunk_block
  <2>4. decoded(s) # "RegionInvalidChunk"
    <3>1. overrides[s].compressed.data \in Data
      BY <2>1, <2>2, BlockType DEF Block
    <3>2. decoded(s) = inflate(overrides[s].codec, overrides[s].compressed.data)
      BY <1>2 DEF decoded, has_chunk
    <3> QED
      BY <3>1, <3>2, PayloadAssumption DEF inflate, Data, Errors
  <2> QED
    BY <1>1, <2>3, <2>4
<1>3. CASE ~ overrides[s].present
  <2> DEFINE b == BlockAt(bytes, s)
  <2>1. Populated(bytes, s) /\ Whole(bytes, s) /\ b \in Block
    BY <1>1, <1>3 DEF has_chunk, Copyable, source_block
  <2>2. HeaderInside(bytes, s, 5)
    BY <2>1, WholeInside DEF AllInv, Inv, TypeOK
  <2>3. inflate(byte_to_codec[b.codec], b.data) # "RegionInvalidChunk"
    BY <2>1, PayloadAssumption DEF inflate, Data, Block, Errors
  <2> QED
    BY <1>1, <1>3, <2>1, <2>2, <2>3
       DEF decoded, read_original, Whole, source_block
<1> QED
  BY <1>2, <1>3

\* A whole block reads back from wherever it lies as its source did.
LEMMA BlockReadsBack ==
  ASSUME AllInv, NEW f, IsImage(f), NEW s \in Slots, has_chunk(s),
         Carried(f, s), f.size = kSector * sector_offset(f)
  PROVE  Populated(f, s) /\ read_original(f, s) = decoded(s)
<1> DEFINE b == source_block(s)
<1>1. b \in Block /\ b.len # 0 /\ BlockAt(f, s) = b
  BY CopyableIsSound DEF Carried
<1>2. Populated(f, s)
  BY DEF Carried, Populated
<1>3. HeaderInside(f, s, 5) /\ Whole(f, s)
  <2>1. f.loc[s].off \in Nat /\ f.loc[s].cnt \in Nat /\ f.size \in Nat
    <3>1. f.loc[s] \in Locations /\ f.size \in Nat
      BY DEF IsImage
    <3> QED
      BY <3>1 DEF Locations
  <2>2. Start(f, s) + BlockBytes(b) <= f.size
    <3> DEFINE o == f.loc[s].off
               c == f.loc[s].cnt
               z == sector_offset(f)
               w == BlockBytes(b)
    <3>1. o + c <= z /\ w <= c * kSector /\ f.size = kSector * z
      BY DEF Carried
    <3>2. z \in Nat /\ w \in Nat
      BY <1>1, <2>1 DEF sector_offset, kSector, BlockBytes, Block
    <3> HIDE DEF o, c, z, w
    <3>3. o \in Nat /\ c \in Nat
      BY <2>1 DEF o, c
    <3>4. o * kSector + w <= f.size
      BY <3>1, <3>2, <3>3, SMT DEF kSector
    <3> QED
      BY <3>4 DEF Start, o, w
  <2>3. Whole(f, s)
    BY <1>1, <2>2 DEF Whole
  <2> QED
    BY <1>1, <2>3, WholeInside
<1>4. read_original(f, s) =
        IF b.codec \notin DOMAIN byte_to_codec THEN "UnknownCodec"
        ELSE inflate(byte_to_codec[b.codec], b.data)
  BY <1>1, <1>2, <1>3 DEF read_original
<1>5. CASE overrides[s].present
  <2>1. PICK p \in Payloads : overrides[s].compressed
                                = make_chunk_block(p, overrides[s].codec)
    BY <1>5 DEF AllInv, BlocksMade, has_chunk
  <2>2. overrides[s].codec \in Codecs
    BY DEF AllInv, Inv, TypeOK, ChunkEntry
  <2>3. b.codec \in DOMAIN byte_to_codec
        /\ byte_to_codec[b.codec] = overrides[s].codec
    BY <1>5, <2>1, <2>2
       DEF source_block, make_chunk_block, codec_to_byte, byte_to_codec, Codecs
  <2> QED
    BY <1>2, <1>4, <1>5, <2>3 DEF decoded, source_block, has_chunk
<1>6. CASE ~ overrides[s].present
  <2>1. Populated(bytes, s) /\ Whole(bytes, s) /\ b = BlockAt(bytes, s)
    BY <1>6 DEF has_chunk, Copyable, source_block, Carried
  <2>2. HeaderInside(bytes, s, 5)
    BY <1>1, <2>1, WholeInside DEF AllInv, Inv, TypeOK
  <2> QED
    BY <1>2, <1>4, <1>6, <2>1, <2>2 DEF decoded, read_original
<1> QED
  BY <1>5, <1>6

\* The file a finished save has built holds the contents of every slot.
LEMMA SavedContents ==
  ASSUME AllInv, packing.k = kSize * kSize
  PROVE  OnDisk(packing.file) = Contents
<1> DEFINE f == packing.file
<1>1. IsImage(f) /\ PackedUpTo(f, kSize * kSize)
  BY DEF AllInv, Inv, TypeOK, PackInv
<1>2. ASSUME NEW s \in Slots
      PROVE  FileChunk(f, s) = SlotChunk(s)
  <2>1. s < kSize * kSize
    BY SizeAssumption DEF Slots
  <2>2. CASE has_chunk(s)
    <3>1. Carried(f, s)
      BY <1>1, <2>1, <2>2 DEF PackedUpTo
    <3>2. Populated(f, s) /\ read_original(f, s) = decoded(s)
      BY <1>1, <2>2, <3>1, BlockReadsBack DEF PackedUpTo
    <3> QED
      BY <2>2, <3>1, <3>2 DEF FileChunk, SlotChunk, Carried
  <2>3. CASE ~ has_chunk(s)
    <3>1. f.loc[s] = NoLocation
      BY <1>1, <2>3 DEF PackedUpTo
    <3> QED
      BY <2>3, <3>1 DEF FileChunk, SlotChunk, Populated, NoLocation
  <2> QED
    BY <2>2, <2>3
<1>3. Contents = [s \in Slots |-> SlotChunk(s)]
  BY ContentsAre DEF AllInv
<1>4. OnDisk(f) = [s \in Slots |-> FileChunk(f, s)]
  BY DEF OnDisk, FileChunk
<1> QED
  BY <1>2, <1>3, <1>4

-----------------------------------------------------------------------------
(* The refinement.                                                         *)

Disk == IF saved.some THEN OnDisk(saved.file) ELSE Absent

LEMMA InitRefines == Init /\ AllInv => Abstract!Init
<1> SUFFICES ASSUME Init, AllInv PROVE Abstract!Init
  OBVIOUS
<1>1. Contents \in [Slots -> Chunks \cup {Absent}]
  BY ContentsAre, SlotChunkType DEF AllInv
<1>2. ~ saved.some
  BY DEF Init, NotSaved
<1> QED
  BY <1>1, <1>2 DEF Abstract!Init, Abstract!Chunks, Chunks

LEMMA NextRefines ==
  AllInv /\ AllInv' /\ [Next]_vars => [Abstract!Next]_(Abstract!vars)
<1> SUFFICES ASSUME AllInv, AllInv', [Next]_vars
             PROVE  Abstract!Next \/ UNCHANGED <<Contents, Disk>>
  BY DEF Abstract!vars, Disk
<1>1. Contents = [s \in Slots |-> SlotChunk(s)]
  BY ContentsAre DEF AllInv
<1>2. Contents' = [s \in Slots |-> SlotChunk(s)']
  <2>1. CacheInv'
    BY DEF AllInv
  <2> QED
    BY <2>1 DEF CacheInv, CacheCoherent, Contents, SlotChunk, chunk_raw
<1>3. ASSUME UNCHANGED saved PROVE Disk' = Disk
  BY <1>3 DEF Disk, OnDisk, read_original, Populated, Start, HeaderInside,
              Whole, BlockAt
<1>4. ASSUME UNCHANGED <<bytes, overrides, saved>>
      PROVE  UNCHANGED <<Contents, Disk>>
  BY <1>1, <1>2, <1>3, <1>4, SlotChunkStays
<1>5. \A c \in Coords : chunk_index(c) \in Slots
  BY SlotIndex, InputAssumption
<1>6. overrides \in [Slots -> ChunkEntry]
  BY DEF AllInv, Inv, TypeOK
<1>7. ASSUME NEW s \in Slots, NEW e, NEW chunk,
             overrides' = [overrides EXCEPT ![s] = e],
             UNCHANGED <<bytes, saved>>, SlotChunk(s)' = chunk
      PROVE  Contents' = [Contents EXCEPT ![s] = chunk] /\ Disk' = Disk
  <2>1. \A t \in Slots : t # s => SlotChunk(t)' = SlotChunk(t)
    BY <1>6, <1>7, SlotChunkStays
  <2> QED
    BY <1>1, <1>2, <1>3, <1>7, <2>1
<1>8. ASSUME NEW c \in Coords, NEW w \in Writes,
             WriteChunkBytes(c, w[1], w[2], w[3])
      PROVE  Abstract!Next
  <2> DEFINE s == chunk_index(c)
             chunk == [raw |-> IF Fits(w[2], w[1]) THEN w[1] ELSE "LimitExceeded",
                       ts |-> w[3]]
             e == [present |-> TRUE, compressed |-> make_chunk_block(w[1], w[2]),
                   timestamp |-> w[3], codec |-> w[2]]
  <2>1. s \in Slots /\ w[1] \in Payloads /\ w[2] \in Codecs
    BY <1>5, InputAssumption
  <2>2. overrides' = [overrides EXCEPT ![s] = e] /\ UNCHANGED <<bytes, saved>>
    BY <1>8 DEF WriteChunkBytes
  <2>3. overrides'[s] = e
    BY <1>6, <2>1, <2>2
  <2>4. e.compressed # NoBlock
    BY <2>1, BlockType, NoBlockAssumption
  <2>5. has_chunk(s)' /\ chunk_timestamp(s)' = w[3]
    BY <2>3, <2>4 DEF has_chunk, removed, chunk_timestamp
  <2>6. decoded(s)' = inflate(w[2], e.compressed.data)
    BY <2>3, <2>4 DEF decoded, removed
  <2>7. inflate(w[2], e.compressed.data)
          = IF Fits(w[2], w[1]) THEN w[1] ELSE "LimitExceeded"
    BY DEF inflate, make_chunk_block, Fits
  <2>8. SlotChunk(s)' = chunk
    BY <2>5, <2>6, <2>7 DEF SlotChunk
  <2> HIDE DEF s, e, chunk
  <2>9. Contents' = [Contents EXCEPT ![s] = chunk] /\ Disk' = Disk
    BY <1>7, <2>1, <2>2, <2>8
  <2>10. Abstract!Write(s, w[1], w[2], w[3])
    BY <2>9 DEF Abstract!Write, chunk, Disk
  <2> QED
    BY <2>1, <2>10 DEF Abstract!Next
<1>9. ASSUME NEW c \in Coords, RemoveChunk(c)
      PROVE  Abstract!Next
  <2> DEFINE s == chunk_index(c)
  <2>1. s \in Slots
    BY <1>5
  <2>2. /\ overrides' = [overrides EXCEPT ![s] = Removed]
        /\ UNCHANGED <<bytes, saved>>
    BY <1>9 DEF RemoveChunk
  <2>3. SlotChunk(s)' = Absent
    BY <1>6, <2>1, <2>2
       DEF SlotChunk, has_chunk, removed, Removed, NoOverride
  <2> HIDE DEF s
  <2>4. Contents' = [Contents EXCEPT ![s] = Absent] /\ Disk' = Disk
    BY <1>7, <2>1, <2>2, <2>3
  <2> QED
    BY <2>1, <2>4 DEF Abstract!Next, Abstract!Remove, Disk
<1>10. CASE SaveDone
  <2>1. packing.k = kSize * kSize
    BY <1>10, SizeAssumption DEF SaveDone, AllInv, Inv, TypeOK, Slots
  <2>2. Disk' = OnDisk(packing.file)
    BY <1>10 DEF SaveDone, Disk, OnDisk, read_original, Populated, Start,
                 HeaderInside, Whole, BlockAt
  <2>3. Disk' = Contents
    BY <2>1, <2>2, SavedContents
  <2>4. Contents' = Contents
    BY <1>1, <1>2, <1>10, SlotChunkStays DEF SaveDone
  <2>5. ASSUME NEW s \in Slots, Contents[s] # Absent
        PROVE  Contents[s].raw # "RegionInvalidChunk"
    <3>1. has_chunk(s) /\ Contents[s].raw = decoded(s)
      BY <1>1, <2>5 DEF SlotChunk
    <3>2. Copyable(s)
      BY <2>1, <3>1, SizeAssumption
         DEF AllInv, Inv, PackInv, PackedUpTo, Carried, Slots
    <3> QED
      BY <3>1, <3>2, CopyableIsSound
  <2> QED
    BY <2>3, <2>4, <2>5 DEF Abstract!Next, Abstract!Save, Disk
<1>11. CASE Reopen
  <2>1. Disk = OnDisk(saved.file) /\ Disk # Absent
    BY <1>11, FileChunkType DEF Reopen, Disk, AllInv, Inv, TypeOK
  <2>2. Disk' = Disk
    BY <1>3, <1>11 DEF Reopen
  <2>3. \A s \in Slots : SlotChunk(s)' = FileChunk(saved.file, s)
    BY <1>11 DEF Reopen, SlotChunk, FileChunk, has_chunk, decoded,
                 chunk_timestamp, NoOverride, read_original, Populated, Start,
                 HeaderInside, Whole, BlockAt
  <2>4. Contents' = Disk
    BY <1>2, <2>1, <2>3 DEF OnDisk, FileChunk
  <2> QED
    BY <2>1, <2>2, <2>4 DEF Abstract!Next, Abstract!Reopen, Disk
<1> QED
  BY <1>4, <1>8, <1>9, <1>10, <1>11
     DEF Next, ChunkRaw, ChunkView, SaveBegin, SaveSkip, SaveAppend, SaveFail,
         vars

\* A Region behaves as the abstract map: reads answer from the last write,
\* removed chunks stay removed, and a saved file reopens to the contents it
\* was saved with.
THEOREM RegionImplementsSpec == Spec => ImplementsRegionSpec
<1>1. Spec => []AllInv
  BY InitInv, NextInv, InitCacheInv, NextCacheInv, InitBlocksMade,
     NextBlocksMade, PTL DEF Spec, AllInv
<1> QED
  BY <1>1, InitRefines, NextRefines, PTL
     DEF Spec, ImplementsRegionSpec, Abstract!Spec

-----------------------------------------------------------------------------
(* RegionFile: a save to the path, and a crash or a full disk on the way.  *)

\* A file whose blocks lie one after the other and none of whose is empty,
\* which is how save_to_bytes leaves it.
Orderly(f) ==
  /\ Layout(f)
  /\ \A s \in Slots : Populated(f, s) => BlockAt(f, s).len # 0

\* There is nothing in a Region whose process does not run.
DownInv ==
  ~ up =>
    /\ cache = [s \in Slots |-> Empty]
    /\ overrides = [s \in Slots |-> NoOverride]
    /\ views = {} /\ packing = NotSaving
    /\ io = "idle" /\ answer = "none"

\* From save_to_bytes to the next edit, image and Region hold the same.
SaveInv ==
  /\ packing.active => io = "idle" /\ answer = "none"
  /\ io # "idle" => answer = "none"
  /\ io = "open" => OnDisk(saved.file) = Contents
  /\ io \in {"write", "close"} \/ answer = "Ok" => OnDisk(file.image) = Contents

\* Only a save's file can be there in part.
OrderInv ==
  /\ Orderly(saved.file)
  /\ file.size < file.image.size => Orderly(file.image)

FileInv == AllInv /\ FileTypeOK /\ DownInv /\ SaveInv /\ OrderInv

-----------------------------------------------------------------------------
(* Files that are there in part.                                           *)

LEMMA TornFacts ==
  ASSUME NEW f, IsImage(f), NEW n \in Nat
  PROVE  /\ Torn(f, n).size = n /\ Torn(f, n).loc = f.loc /\ Torn(f, n).ts = f.ts
         /\ DOMAIN Torn(f, n).at = DOMAIN f.at
         /\ \A o \in DOMAIN f.at : /\ Torn(f, n).at[o] = CutOff(o, f.at[o], n)
                                   /\ Torn(f, n).at[o] \in Block
                                   /\ Torn(f, n).at[o].len = f.at[o].len
<1>1. f.size \in Nat /\ \A o \in DOMAIN f.at : f.at[o] \in Block
  BY DEF IsImage
<1>2. ASSUME NEW o \in DOMAIN f.at
      PROVE  CutOff(o, f.at[o], n) \in Block /\ CutOff(o, f.at[o], n).len = f.at[o].len
  BY <1>1, PayloadAssumption DEF CutOff, Block, Data
<1> QED
  BY <1>2 DEF Torn

\* As much of an image as has its tables is an image.
LEMMA TornImage ==
  ASSUME NEW f, IsImage(f), NEW n \in kHeaderBytes .. f.size
  PROVE  IsImage(Torn(f, n))
<1>1. n \in Nat /\ n >= kHeaderBytes /\ n <= f.size /\ f.size \in Nat
  BY DEF IsImage, kHeaderBytes
<1>2. ASSUME NEW s \in Slots
      PROVE  /\ Populated(Torn(f, n), s) <=> Populated(f, s)
             /\ Start(Torn(f, n), s) = Start(f, s) /\ Start(f, s) \in Nat
  BY <1>1, TornFacts DEF Populated, Start, IsImage, Locations, kSector
<1> QED
  BY <1>1, <1>2, TornFacts DEF IsImage

\* What is left of a slot's block, if its first bytes are there.
LEMMA TornBlock ==
  ASSUME NEW f, IsImage(f), NEW n \in kHeaderBytes .. f.size, NEW s \in Slots,
         Populated(f, s), HeaderInside(Torn(f, n), s, 5)
  PROVE  /\ f.loc[s].off \in DOMAIN f.at /\ BlockAt(f, s) \in Block
         /\ BlockAt(Torn(f, n), s) = CutOff(f.loc[s].off, BlockAt(f, s), n)
         /\ BlockAt(Torn(f, n), s).len = BlockAt(f, s).len
<1>1. n \in Nat /\ n <= f.size /\ f.size \in Nat /\ Start(f, s) \in Nat
  BY DEF IsImage, kHeaderBytes, Start, Locations, kSector
<1>2. Start(f, s) + 5 <= n
  BY <1>1, TornFacts DEF HeaderInside, Start
<1>3. f.loc[s].off \in DOMAIN f.at
  BY <1>1, <1>2 DEF IsImage
<1> QED
  BY <1>1, <1>3, TornFacts DEF IsImage, BlockAt

\* Wherever it is cut off, it reads as it did or is refused.
LEMMA TornReads ==
  ASSUME NEW f, IsImage(f), NEW n \in kHeaderBytes .. f.size, NEW s \in Slots
  PROVE  /\ Populated(Torn(f, n), s) = Populated(f, s)
         /\ read_original(Torn(f, n), s) \in {read_original(f, s), "RegionInvalidChunk"}
         /\ n = f.size => read_original(Torn(f, n), s) = read_original(f, s)
<1> DEFINE t == Torn(f, n)
<1>0. n \in Nat /\ n <= f.size /\ f.size \in Nat
  BY DEF IsImage, kHeaderBytes
<1>1. t.size = n /\ t.loc = f.loc
  BY <1>0, TornFacts
<1>2. Populated(t, s) = Populated(f, s) /\ Start(t, s) = Start(f, s) /\ Start(f, s) \in Nat
  BY <1>1 DEF Populated, Start, IsImage, Locations, kSector
<1>3. CASE ~ Populated(f, s)
  BY <1>2, <1>3 DEF read_original
<1>4. CASE Populated(f, s) /\ ~ HeaderInside(t, s, 5)
  BY <1>1, <1>2, <1>4 DEF read_original, HeaderInside
<1>5. CASE Populated(f, s) /\ HeaderInside(t, s, 5)
  <2> DEFINE b == BlockAt(f, s)
             c == BlockAt(t, s)
  <2>1. b \in Block /\ c = CutOff(f.loc[s].off, b, n) /\ c.len = b.len
    BY <1>5, TornBlock
  <2>2. BlockBytes(b) \in Nat /\ BlockBytes(c) = BlockBytes(b)
    BY <2>1 DEF Block, BlockBytes
  <2> HIDE DEF b, c, t
  <2>3. CASE b.len # 0 /\ Start(f, s) + BlockBytes(b) <= n
    <3>1. c = b
      BY <2>1, <2>3 DEF CutOff, Start
    <3>2. Start(f, s) + BlockBytes(b) <= f.size
      BY <1>0, <1>2, <2>2, <2>3
    <3>3. Whole(t, s) /\ Whole(f, s)
      BY <1>1, <1>2, <2>1, <2>2, <2>3, <3>2 DEF Whole, b, c
    <3>4. HeaderInside(f, s, 5)
      BY <1>0, <1>1, <1>2, <1>5 DEF HeaderInside
    <3> QED
      BY <1>2, <1>5, <3>1, <3>3, <3>4 DEF read_original, b, c, t
  <2>4. CASE ~ (b.len # 0 /\ Start(f, s) + BlockBytes(b) <= n)
    <3>1. ~ Whole(t, s)
      BY <1>1, <1>2, <2>1, <2>2, <2>4 DEF Whole, c
    <3>2. read_original(t, s) = "RegionInvalidChunk"
      BY <1>2, <1>5, <3>1 DEF read_original
    <3>3. n = f.size => ~ Whole(f, s)
      BY <2>4 DEF Whole, b
    <3> QED
      BY <1>2, <3>2, <3>3 DEF read_original, t
  <2> QED
    BY <2>3, <2>4
<1> QED
  BY <1>3, <1>4, <1>5

\* A file that is there as a whole reads as its image.
LEMMA WholeFileReads ==
  ASSUME NEW f, IsImage(f)
  PROVE  OnDisk(Torn(f, f.size)) = OnDisk(f)
<1>1. f.size \in kHeaderBytes .. f.size /\ f.size \in Nat
  BY DEF IsImage, kHeaderBytes
<1> QED
  BY <1>1, TornReads, TornFacts DEF OnDisk

\* In an orderly file a cut leaves the blocks before a whole one whole.
LEMMA TornOrder ==
  ASSUME NEW f, IsImage(f), Orderly(f), NEW n \in kHeaderBytes .. f.size,
         NEW s \in Slots, NEW t \in Slots, s < t, Populated(f, s), Populated(f, t),
         HeaderInside(Torn(f, n), t, 5), Whole(Torn(f, n), t)
  PROVE  HeaderInside(Torn(f, n), s, 5) /\ Whole(Torn(f, n), s)
<1> DEFINE o == f.loc[s].off
           c == f.loc[s].cnt
           p == f.loc[t].off
           w == BlockBytes(BlockAt(f, s))
<1>0. n \in Nat /\ n <= f.size /\ f.size \in Nat
  BY DEF IsImage, kHeaderBytes
<1>1. o \in Nat /\ c \in Nat /\ p \in Nat
  <2>1. f.loc[s] \in Locations /\ f.loc[t] \in Locations
    BY DEF IsImage
  <2> QED
    BY <2>1 DEF Locations
<1>2. o + c <= p /\ w <= c * kSector /\ BlockAt(f, s).len # 0
  BY DEF Orderly, Layout
<1>3. p * kSector + 5 <= n
  BY <1>0, TornFacts DEF HeaderInside, Start
<1>4. o * kSector <= p * kSector
  BY <1>1, <1>2 DEF kSector
<1>5. o * kSector + 5 <= n
  BY <1>0, <1>1, <1>3, <1>4 DEF kSector
<1>6. HeaderInside(Torn(f, n), s, 5)
  BY <1>0, <1>5, TornFacts DEF HeaderInside, Start
<1>7. BlockAt(f, s) \in Block /\ BlockAt(Torn(f, n), s).len = BlockAt(f, s).len
  BY <1>6, TornBlock
<1>8. w \in Nat /\ BlockBytes(BlockAt(Torn(f, n), s)) = w
  BY <1>7 DEF BlockBytes, Block
<1> HIDE DEF o, c, p, w
<1>9. o * kSector + w <= n
  BY <1>0, <1>1, <1>2, <1>3, <1>8 DEF kSector
<1>10. Torn(f, n).size = n /\ Start(Torn(f, n), s) = o * kSector
  BY <1>0, TornFacts DEF Start, o
<1>11. BlockAt(Torn(f, n), s).len # 0
  BY <1>2, <1>7
<1>12. Whole(Torn(f, n), s)
  BY <1>8, <1>9, <1>10, <1>11 DEF Whole
<1> QED
  BY <1>6, <1>12

-----------------------------------------------------------------------------
(* The invariant.                                                          *)

\* What the files of the state hold does not change when they do not.
LEMMA ContentsStay ==
  ASSUME CacheInv, CacheInv', UNCHANGED <<bytes, overrides>>
  PROVE  Contents' = Contents
<1>1. Contents = [s \in Slots |-> SlotChunk(s)]
  BY ContentsAre
<1>2. Contents' = [s \in Slots |-> SlotChunk(s)']
  BY DEF CacheInv, CacheCoherent, Contents, SlotChunk, chunk_raw
<1> QED
  BY <1>1, <1>2, SlotChunkStays

LEMMA OnDiskStays ==
  /\ UNCHANGED saved => OnDisk(saved.file)' = OnDisk(saved.file)
  /\ file'.image = file.image => OnDisk(file.image)' = OnDisk(file.image)
BY DEF OnDisk, read_original, Populated, Start, HeaderInside, Whole, BlockAt

LEMMA EmptyOrderly == Orderly(EmptyFile) /\ IsImage(EmptyFile)
BY EmptyFileImage DEF Orderly, Populated, EmptyFile, NoLocation

\* A finished save's file is orderly.
LEMMA PackedOrderly ==
  ASSUME AllInv, packing.k = kSize * kSize
  PROVE  Orderly(packing.file)
<1> DEFINE f == packing.file
<1>1. IsImage(f) /\ PackedUpTo(f, kSize * kSize)
  BY DEF AllInv, Inv, TypeOK, PackInv
<1>2. Layout(f)
  BY <1>1, PackedLayout, SizeAssumption
<1>3. ASSUME NEW s \in Slots, Populated(f, s)
      PROVE  BlockAt(f, s).len # 0
  <2>1. has_chunk(s) /\ Carried(f, s)
    BY <1>1, <1>3 DEF PackedUpTo, Populated, NoLocation
  <2> QED
    BY <2>1, CopyableIsSound DEF Carried
<1> QED
  BY <1>2, <1>3 DEF Orderly

LEMMA FileInitInv == FileInit => FileInv
<1> SUFFICES ASSUME FileInit PROVE FileInv
  OBVIOUS
<1>1. Init
  BY DEF FileInit, Init
<1>2. AllInv
  BY <1>1, InitInv, InitCacheInv, InitBlocksMade DEF AllInv
<1>3. PICK b \in BOOLEAN : \E f : \E n \in 0 .. f.size :
        /\ file = [some |-> b, image |-> f, size |-> n] /\ IsImage(f)
        /\ n < f.size => f = EmptyFile
  <2>1. CASE file = [some |-> FALSE, image |-> EmptyFile, size |-> 0]
    <3>1. 0 \in 0 .. EmptyFile.size
      BY DEF EmptyFile, kHeaderBytes
    <3> QED
      BY <2>1, <3>1, EmptyFileImage
  <2>2. ASSUME NEW f \in Files, file = [some |-> TRUE, image |-> f, size |-> f.size]
        PROVE  \E b \in BOOLEAN : \E g : \E n \in 0 .. g.size :
                 /\ file = [some |-> b, image |-> g, size |-> n] /\ IsImage(g)
                 /\ n < g.size => g = EmptyFile
    <3>1. IsImage(f)
      BY InputAssumption
    <3>2. f.size \in 0 .. f.size /\ ~ f.size < f.size
      BY <3>1 DEF IsImage
    <3> QED
      BY <2>2, <3>1, <3>2
  <2> QED
    BY <2>1, <2>2 DEF FileInit
<1>4. PICK f : \E n \in 0 .. f.size :
        /\ file = [some |-> b, image |-> f, size |-> n] /\ IsImage(f)
        /\ n < f.size => f = EmptyFile
  BY <1>3
<1>5. PICK n \in 0 .. f.size :
        /\ file = [some |-> b, image |-> f, size |-> n] /\ IsImage(f)
        /\ n < f.size => f = EmptyFile
  BY <1>4
<1>6. file.some = b /\ file.image = f /\ file.size = n
  BY <1>5
<1>7. FileTypeOK
  <2>1. TypeOK
    BY <1>2 DEF AllInv, Inv
  <2>2. file = [some |-> file.some, image |-> file.image, size |-> file.size]
    BY <1>5, <1>6
  <2> QED
    BY <2>1, <2>2, <1>5, <1>6 DEF FileInit, FileTypeOK
<1>8. OrderInv
  BY <1>5, <1>6, EmptyOrderly DEF FileInit, OrderInv, NotSaved
<1>9. DownInv /\ SaveInv
  BY DEF FileInit, DownInv, SaveInv, Loaded, NotSaving
<1> QED
  BY <1>2, <1>7, <1>8, <1>9 DEF FileInv

LEMMA RegionSteps == AllInv /\ [Next]_vars => AllInv'
BY NextInv, NextCacheInv, NextBlocksMade DEF AllInv

\* No Region: what a process starts with, and what a crash leaves.
LEMMA UnloadedInv == Unloaded => AllInv'
<1> SUFFICES ASSUME Unloaded PROVE AllInv'
  OBVIOUS
<1>1. /\ bytes' = EmptyFile
      /\ cache' = [s \in Slots |-> Empty]
      /\ overrides' = [s \in Slots |-> NoOverride]
      /\ views' = {} /\ packing' = NotSaving /\ saved' = NotSaved
  BY DEF Unloaded
<1>2. Init'
  BY <1>1 DEF Init, Loaded
<1>3. Init' => Inv' /\ CacheInv' /\ BlocksMade'
  BY InitInv, InitCacheInv, InitBlocksMade, PTL
<1> QED
  BY <1>2, <1>3 DEF AllInv

LEMMA DropInv == AllInv /\ DropBuffer => AllInv' /\ Contents' = Contents
<1> SUFFICES ASSUME AllInv, DropBuffer PROVE AllInv' /\ Contents' = Contents
  OBVIOUS
<1>1. /\ UNCHANGED <<bytes, cache, overrides, views, packing>>
      /\ saved' = [some |-> FALSE, file |-> EmptyFile]
  BY DEF DropBuffer, NotSaved
<1>2. IsImage(EmptyFile) /\ Layout(EmptyFile)
  BY EmptyFileImage
<1>3. TypeOK'
  BY <1>1, <1>2 DEF AllInv, Inv, TypeOK
<1>4. PackInv'
  BY <1>1 DEF AllInv, Inv, PackInv, PackedUpTo, Carried, has_chunk, removed,
              Copyable, source_block, chunk_timestamp, HeaderInside, Whole,
              Start, BlockAt, Populated
<1>5. Layout(saved.file)'
  BY <1>1, <1>2 DEF Layout
<1>6. CacheInv'
  BY <1>1 DEF AllInv, CacheInv, CacheCoherent, LiveViewCurrent, decoded,
              has_chunk, removed, read_original, Populated, Start,
              HeaderInside, Whole, BlockAt
<1>7. BlocksMade'
  BY <1>1 DEF AllInv, BlocksMade, removed
<1>8. Contents' = Contents
  BY <1>1, <1>6, ContentsStay DEF AllInv
<1> QED
  BY <1>3, <1>4, <1>5, <1>6, <1>7, <1>8 DEF AllInv, Inv

\* A process that starts has no cache, edit or save of an earlier one.
LEMMA OpenInv == FileInv /\ OpenPath => AllInv'
<1> SUFFICES ASSUME FileInv, OpenPath PROVE AllInv'
  OBVIOUS
<1>1. /\ cache = [s \in Slots |-> Empty]
      /\ overrides = [s \in Slots |-> NoOverride]
      /\ views = {} /\ packing = NotSaving
      /\ UNCHANGED <<cache, overrides, views, packing, saved>>
      /\ bytes' = OnFile
  BY DEF FileInv, DownInv, OpenPath
<1>2. file.size \in kHeaderBytes .. file.image.size /\ IsImage(file.image)
  BY DEF FileInv, FileTypeOK, OpenPath, IsImage, kHeaderBytes
<1>3. IsImage(bytes')
  BY <1>1, <1>2, TornImage DEF OnFile
<1>4. TypeOK'
  BY <1>1, <1>3 DEF FileInv, AllInv, Inv, TypeOK
<1>5. PackedUpTo(EmptyFile, 0)'
  BY EmptyFilePacked, PTL
<1>6. PackInv'
  BY <1>1, <1>5 DEF PackInv, NotSaving
<1>7. Layout(saved.file)'
  BY <1>1 DEF FileInv, AllInv, Inv, Layout
<1>8. CacheInv' /\ BlocksMade'
  BY <1>1 DEF CacheInv, CacheCoherent, LiveViewCurrent, BlocksMade, NoOverride
<1> QED
  BY <1>4, <1>6, <1>7, <1>8 DEF AllInv, Inv

LEMMA OrderStays ==
  /\ UNCHANGED saved => Orderly(saved.file)' = Orderly(saved.file)
  /\ file'.image = file.image => Orderly(file.image)' = Orderly(file.image)
BY DEF Orderly, Layout, Populated, BlockAt

\* Steps of save's caller, and of save_to_bytes up to its answer.
LEMMA IdleKeeps ==
  ASSUME FileInv, AllInv', up, io = "idle", UNCHANGED <<file, saved, io, up>>,
         answer' \in {"none", "refused"}, packing'.active => answer' = "none"
  PROVE  FileInv'
<1>1. FileTypeOK'
  BY DEF FileInv, FileTypeOK, AllInv, Inv
<1>2. OrderInv'
  BY OrderStays DEF FileInv, OrderInv
<1>3. DownInv' /\ SaveInv'
  BY DEF DownInv, SaveInv
<1> QED
  BY <1>1, <1>2, <1>3 DEF FileInv

\* Steps of write_file once the file is open, and its returns.
LEMMA WriteKeeps ==
  ASSUME FileInv, up, UNCHANGED up, io \in {"write", "close"}, UNCHANGED vars,
         file' = [file EXCEPT !.size = file'.size],
         file'.size \in file.size .. file.image.size,
         \/ io' \in {"write", "close"} /\ UNCHANGED answer
         \/ io' = "idle" /\ answer' \in {"Ok", "Io"}
  PROVE  FileInv'
<1>1. AllInv'
  BY RegionSteps DEF FileInv
<1>2. /\ file'.image = file.image /\ file'.some = file.some
      /\ file' = [some |-> file'.some, image |-> file'.image, size |-> file'.size]
      /\ file.size \in 0 .. file.image.size /\ file.image.size \in Nat
  BY DEF FileInv, FileTypeOK, IsImage
<1>3. FileTypeOK'
  <2>1. IsImage(file.image)' = IsImage(file.image)
    BY <1>2
  <2> QED
    BY <1>1, <1>2, <2>1 DEF FileInv, FileTypeOK, AllInv, Inv
<1>4. OrderInv'
  BY <1>2, OrderStays DEF FileInv, OrderInv, vars
<1>5. Contents' = Contents
  BY <1>1, ContentsStay DEF FileInv, AllInv, vars
<1>6. OnDisk(file.image) = Contents /\ answer = "none" /\ ~ packing.active
  BY DEF FileInv, SaveInv
<1>7. OnDisk(file.image)' = Contents'
  BY <1>2, <1>5, <1>6, OnDiskStays
<1>8. DownInv' /\ SaveInv'
  BY <1>6, <1>7 DEF DownInv, SaveInv, vars
<1> QED
  BY <1>1, <1>3, <1>4, <1>8 DEF FileInv

\* The step from save_to_bytes to write_file.
LEMMA PackedKeeps == FileInv /\ SavePacked => FileInv'
<1> SUFFICES ASSUME FileInv, SavePacked PROVE FileInv'
  OBVIOUS
<1>1. /\ packing.active /\ packing.k \notin Slots
      /\ saved' = [some |-> TRUE, file |-> packing.file]
      /\ packing' = NotSaving /\ UNCHANGED <<bytes, cache, overrides, views>>
      /\ io' = "open" /\ UNCHANGED <<file, answer, up>>
  BY DEF SavePacked, SaveDone
<1>2. AllInv'
  BY RegionSteps DEF FileInv, SavePacked, Next
<1>3. packing.k = kSize * kSize
  BY <1>1, SizeAssumption DEF FileInv, AllInv, Inv, TypeOK, Slots
<1>4. up /\ answer = "none"
  BY <1>1 DEF FileInv, DownInv, SaveInv, NotSaving
<1>5. Contents' = Contents
  BY <1>1, <1>2, ContentsStay DEF FileInv, AllInv
<1>6. OnDisk(packing.file) = Contents /\ Orderly(packing.file)
  BY <1>3, SavedContents, PackedOrderly DEF FileInv
<1>7. OnDisk(saved.file)' = OnDisk(packing.file)
      /\ Orderly(saved.file)' = Orderly(packing.file)
  BY <1>1 DEF OnDisk, Orderly, Layout, read_original, Populated, Start,
              HeaderInside, Whole, BlockAt
<1>8. FileTypeOK'
  BY <1>1, <1>2 DEF FileInv, FileTypeOK, AllInv, Inv
<1>9. OrderInv'
  BY <1>1, <1>6, <1>7, OrderStays DEF FileInv, OrderInv
<1>10. DownInv' /\ SaveInv'
  BY <1>1, <1>4, <1>5, <1>6, <1>7 DEF DownInv, SaveInv, NotSaving
<1> QED
  BY <1>2, <1>8, <1>9, <1>10 DEF FileInv

LEMMA EditKeeps ==
  ASSUME FileInv, up, io = "idle", UNCHANGED <<file, io, up>>, answer' = "none",
         [Next]_vars, UNCHANGED saved
  PROVE  FileInv'
BY RegionSteps, IdleKeeps DEF FileInv

LEMMA NextFileInv == FileInv /\ [FileNext]_allVars => FileInv'
<1> SUFFICES ASSUME FileInv, [FileNext]_allVars PROVE FileInv'
  OBVIOUS
<1>1. CASE FileWriteChunk
  <2>1. PICK c \in Coords, w \in Writes : Edit(WriteChunkBytes(c, w[1], w[2], w[3]))
    BY <1>1 DEF FileWriteChunk
  <2>2. Next /\ UNCHANGED saved
    BY <2>1 DEF Edit, Next, WriteChunkBytes
  <2> QED
    BY <2>1, <2>2, EditKeeps DEF Edit
<1>2. CASE FileRemoveChunk
  <2>1. PICK c \in Coords : Edit(RemoveChunk(c))
    BY <1>2 DEF FileRemoveChunk
  <2>2. Next /\ UNCHANGED saved
    BY <2>1 DEF Edit, Next, RemoveChunk
  <2> QED
    BY <2>1, <2>2, EditKeeps DEF Edit
<1>3. CASE FileSaveBegin
  <2>1. Next /\ UNCHANGED saved
    BY <1>3 DEF FileSaveBegin, Edit, Next, SaveBegin
  <2> QED
    BY <1>3, <2>1, EditKeeps DEF FileSaveBegin, Edit
<1>4. CASE Pack
  <2>1. packing.active /\ Next /\ UNCHANGED saved /\ UNCHANGED <<file, io, answer, up>>
    BY <1>4 DEF Pack, SaveSkip, SaveAppend, Next, fileVars
  <2>2. up /\ io = "idle" /\ answer = "none"
    BY <2>1 DEF FileInv, DownInv, SaveInv, NotSaving
  <2> QED
    BY <2>1, <2>2, EditKeeps
<1>5. CASE SaveRefused
  <2>1. packing.active /\ Next /\ UNCHANGED <<saved, file, io, up>>
        /\ packing' = NotSaving /\ answer' = "refused"
    BY <1>5 DEF SaveRefused, SaveFail, Next
  <2>2. up /\ io = "idle"
    BY <2>1 DEF FileInv, DownInv, SaveInv, NotSaving
  <2>3. AllInv' /\ ~ packing'.active
    BY <2>1, RegionSteps DEF FileInv, NotSaving
  <2> QED
    BY <2>1, <2>2, <2>3, IdleKeeps
<1>6. CASE SavePacked
  BY <1>6, PackedKeeps
<1>7. CASE CannotOpen \/ OpenTruncate
  <2>1. /\ io = "open" /\ DropBuffer /\ UNCHANGED up
        /\ \/ io' = "idle" /\ answer' = "Io" /\ UNCHANGED file
           \/ /\ file' = [some |-> TRUE, image |-> saved.file, size |-> 0]
              /\ io' = "write" /\ UNCHANGED answer
    BY <1>7 DEF CannotOpen, OpenTruncate, Returns
  <2>2. AllInv' /\ Contents' = Contents /\ UNCHANGED packing
    BY <2>1, DropInv DEF FileInv, DropBuffer
  <2>3. /\ up /\ answer = "none" /\ ~ packing.active
        /\ OnDisk(saved.file) = Contents /\ IsImage(saved.file)
        /\ saved'.file = EmptyFile /\ saved.file.size \in Nat
    BY <2>1 DEF FileInv, DownInv, SaveInv, AllInv, Inv, TypeOK, DropBuffer, NotSaved,
                IsImage
  <2>4. DownInv' /\ Orderly(saved.file)'
    <3>1. Orderly(EmptyFile)'
      BY EmptyOrderly, PTL
    <3> QED
      BY <2>1, <2>3, <3>1 DEF DownInv
  <2>5. CASE io' = "idle" /\ answer' = "Io" /\ UNCHANGED file
    <3>1. FileTypeOK' /\ SaveInv'
      BY <2>2, <2>3, <2>5, <2>1 DEF FileInv, FileTypeOK, AllInv, Inv, SaveInv
    <3>2. OrderInv'
      BY <2>4, <2>5, OrderStays DEF FileInv, OrderInv
    <3> QED
      BY <2>2, <2>4, <3>1, <3>2 DEF FileInv
  <2>6. CASE /\ file' = [some |-> TRUE, image |-> saved.file, size |-> 0]
             /\ io' = "write" /\ UNCHANGED answer
    <3>1. /\ file'.some = TRUE /\ file'.image = saved.file /\ file'.size = 0
          /\ file' = [some |-> file'.some, image |-> file'.image, size |-> file'.size]
      BY <2>6
    <3>2. IsImage(file.image)' /\ Orderly(file.image)'
          /\ OnDisk(file.image)' = OnDisk(saved.file)
      <4>1. Orderly(saved.file)
        BY DEF FileInv, OrderInv
      <4> QED
        BY <2>3, <3>1, <4>1 DEF IsImage, Orderly, Layout, OnDisk, read_original,
           Populated, Start, HeaderInside, Whole, BlockAt
    <3>3. FileTypeOK'
      BY <2>1, <2>2, <2>3, <2>6, <3>1, <3>2 DEF FileInv, FileTypeOK, AllInv, Inv
    <3>4. SaveInv'
      BY <2>2, <2>3, <2>6, <3>2 DEF SaveInv
    <3> QED
      BY <2>2, <2>4, <3>2, <3>3, <3>4 DEF FileInv, OrderInv
  <2> QED
    BY <2>1, <2>5, <2>6
<1>8. ASSUME NEW n \in Nat, PutBytes(n) PROVE FileInv'
  <2>1. /\ io \in {"write", "close"} /\ UNCHANGED <<io, answer, up>> /\ UNCHANGED vars
        /\ file.size < n /\ n <= file.image.size /\ file' = [file EXCEPT !.size = n]
    BY <1>8 DEF PutBytes
  <2>2. /\ file = [some |-> file.some, image |-> file.image, size |-> file.size]
        /\ file.size \in Nat /\ file.image.size \in Nat /\ up
    BY <2>1 DEF FileInv, FileTypeOK, IsImage, DownInv
  <2>3. file'.size = n
    BY <2>1, <2>2
  <2> QED
    BY <2>1, <2>2, <2>3, WriteKeeps
<1>9. CASE PutSome \/ PutAll
  <2>1. file.image.size \in Nat /\ Cuts \subseteq Nat
    BY CutAssumption DEF FileInv, FileTypeOK, IsImage
  <2> QED
    BY <1>8, <1>9, <2>1 DEF PutSome, PutAll
<1>10. CASE WriteFails \/ WriteChecked \/ CloseFlushed \/ CloseFails
  <2>1. /\ io \in {"write", "close"} /\ UNCHANGED <<file, up>> /\ UNCHANGED vars
        /\ \/ io' \in {"write", "close"} /\ UNCHANGED answer
           \/ io' = "idle" /\ answer' \in {"Ok", "Io"}
    BY <1>10 DEF WriteFails, WriteChecked, CloseFlushed, CloseFails, Returns
  <2>2. /\ file = [some |-> file.some, image |-> file.image, size |-> file.size]
        /\ file.size \in file.size .. file.image.size /\ up
    BY <2>1 DEF FileInv, FileTypeOK, IsImage, DownInv
  <2>3. file' = [file EXCEPT !.size = file'.size]
    BY <2>1, <2>2
  <2> QED
    BY <2>1, <2>2, <2>3, WriteKeeps
<1>11. CASE Crash
  <2>1. AllInv'
    BY <1>11, UnloadedInv DEF Crash
  <2>2. FileTypeOK'
    BY <1>11, <2>1 DEF Crash, FileInv, FileTypeOK, AllInv, Inv
  <2>3. DownInv' /\ SaveInv'
    BY <1>11 DEF Crash, Unloaded, DownInv, SaveInv, NotSaving
  <2>4. OrderInv'
    <3>1. Orderly(EmptyFile)'
      BY EmptyOrderly, PTL
    <3> QED
      BY <1>11, <3>1, OrderStays DEF Crash, Unloaded, NotSaved, FileInv, OrderInv
  <2> QED
    BY <2>1, <2>2, <2>3, <2>4 DEF FileInv
<1>12. CASE OpenPath \/ CreateRegion
  <2>1. ~ up /\ up' = TRUE /\ UNCHANGED <<packing, saved, file, io, answer>>
    BY <1>12 DEF OpenPath, CreateRegion, vars
  <2>2. AllInv'
    BY <1>12, OpenInv, RegionSteps DEF CreateRegion, FileInv
  <2>3. FileTypeOK'
    BY <2>1, <2>2 DEF FileInv, FileTypeOK, AllInv, Inv
  <2>4. DownInv' /\ SaveInv'
    BY <2>1 DEF FileInv, DownInv, SaveInv, NotSaving
  <2>5. OrderInv'
    BY <2>1, OrderStays DEF FileInv, OrderInv
  <2> QED
    BY <2>2, <2>3, <2>4, <2>5 DEF FileInv
<1>13. CASE UNCHANGED allVars
  <2>1. UNCHANGED vars /\ UNCHANGED <<file, io, answer, up>>
    BY <1>13 DEF allVars, vars
  <2>2. AllInv'
    BY <2>1, RegionSteps DEF FileInv
  <2>3. Contents' = Contents /\ UNCHANGED <<saved, packing>>
    BY <2>1, <2>2, ContentsStay DEF FileInv, AllInv, vars
  <2>4. FileTypeOK' /\ OrderInv'
    BY <2>1, <2>2, <2>3, OrderStays DEF FileInv, FileTypeOK, AllInv, Inv, OrderInv
  <2>5. SaveInv'
    BY <2>1, <2>3, OnDiskStays DEF FileInv, SaveInv
  <2>6. DownInv'
    BY <2>1 DEF FileInv, DownInv, vars
  <2> QED
    BY <2>2, <2>4, <2>5, <2>6 DEF FileInv
<1> QED
  BY <1>1, <1>2, <1>3, <1>4, <1>5, <1>6, <1>7, <1>9, <1>10, <1>11, <1>12, <1>13
     DEF FileNext

-----------------------------------------------------------------------------
(* What the runs check, for every value of the constants.                  *)

LEMMA SpecFileInv == FileSpec => []FileInv
BY FileInitInv, NextFileInv, PTL DEF FileSpec

\* Type correctness of a Region and its file together.
THEOREM FileTypeCorrect == FileSpec => []FileTypeOK
<1>1. FileInv => FileTypeOK
  BY DEF FileInv
<1> QED
  BY <1>1, SpecFileInv, PTL

\* Wherever a save is cut off, a chunk of the file that still opens reads as
\* it was saved or is refused.
THEOREM TornFilesAreSafe == FileSpec => []TornFileSafe
<1>1. FileInv => TornFileSafe
  <2> SUFFICES ASSUME FileInv, file.size >= kHeaderBytes, NEW s \in Slots
               PROVE  /\ Populated(OnFile, s) = Populated(file.image, s)
                      /\ read_original(OnFile, s)
                           \in {read_original(file.image, s), "RegionInvalidChunk"}
    BY DEF TornFileSafe
  <2>1. IsImage(file.image) /\ file.size \in kHeaderBytes .. file.image.size
    BY DEF FileInv, FileTypeOK, IsImage, kHeaderBytes
  <2> QED
    BY <2>1, TornReads DEF OnFile
<1> QED
  BY <1>1, SpecFileInv, PTL

\* A save that is cut off loses the chunks of the last slots first.
THEOREM CutsLoseTheEnd == FileSpec => []LostFromTheEnd
<1>1. FileInv => LostFromTheEnd
  <2> SUFFICES ASSUME FileInv, kHeaderBytes <= file.size,
                      file.size < file.image.size, NEW s \in Slots, NEW t \in Slots,
                      Populated(file.image, s), Populated(file.image, t), s < t,
                      HeaderInside(OnFile, t, 5), Whole(OnFile, t)
               PROVE  HeaderInside(OnFile, s, 5) /\ Whole(OnFile, s)
    BY DEF LostFromTheEnd
  <2>1. IsImage(file.image) /\ file.size \in kHeaderBytes .. file.image.size
    BY DEF FileInv, FileTypeOK, IsImage, kHeaderBytes
  <2>2. Orderly(file.image)
    BY DEF FileInv, OrderInv
  <2> QED
    BY <2>1, <2>2, TornOrder DEF OnFile
<1> QED
  BY <1>1, SpecFileInv, PTL

\* After a save that answered Ok with its bytes on disk, a program that opens
\* the path has the chunks and timestamps of the Region that saved.
THEOREM SavedFilesAreTheRegion == FileSpec => []SavedIsRegion
<1>1. FileInv => SavedIsRegion
  <2> SUFFICES ASSUME FileInv, answer = "Ok", file.size = file.image.size
               PROVE  OnDisk(OnFile) = Contents
    BY DEF SavedIsRegion
  <2>1. IsImage(file.image) /\ OnDisk(file.image) = Contents
    BY DEF FileInv, FileTypeOK, SaveInv
  <2> QED
    BY <2>1, WholeFileReads DEF OnFile
<1> QED
  BY <1>1, SpecFileInv, PTL

-----------------------------------------------------------------------------
(* region-list.                                                            *)

\* The Region behind the lines: as opened, but for its cache.
Opened ==
  /\ TypeOK /\ CacheCoherent
  /\ overrides = [s \in Slots |-> NoOverride]

ListInv == Opened /\ LinesTell

\* What the Region answers is in the file.
LEMMA OpenedAnswers ==
  ASSUME Opened, NEW s \in Slots
  PROVE  /\ ~ overrides[s].present
         /\ decoded(s) = read_original(bytes, s)
         /\ has_chunk(s) = Populated(bytes, s)
         /\ chunk_timestamp(s) = bytes.ts[s]
         /\ chunk_raw(s) = read_original(bytes, s)
<1>1. overrides[s].present = FALSE /\ ~ removed(s)
  BY DEF Opened, NoOverride, removed
<1>2. decoded(s) = read_original(bytes, s)
  BY <1>1 DEF decoded
<1> QED
  BY <1>1, <1>2 DEF has_chunk, chunk_timestamp, chunk_raw, Opened, CacheCoherent

\* A read leaves it so.
LEMMA ReadStaysOpened ==
  ASSUME Opened, NEW s \in Slots, cache' = CacheAfterRead(s),
         UNCHANGED <<bytes, overrides, views, packing, saved>>
  PROVE  Opened'
<1>1. cache' \in [Slots -> Payloads]
  BY DEF Opened, TypeOK, CacheAfterRead, Fills
<1>2. TypeOK'
  BY <1>1 DEF Opened, TypeOK, IsImage, Populated, Start
<1>3. \A t \in Slots : decoded(t)' = decoded(t)
  BY DEF decoded, removed, read_original, Populated, Start, HeaderInside, Whole,
         BlockAt
<1>4. CacheCoherent'
  BY <1>3 DEF Opened, TypeOK, CacheCoherent, CacheAfterRead, Fills
<1> QED
  BY <1>2, <1>4 DEF Opened

\* A line of a slot that is populated.
LEMMA LineType ==
  ASSUME Opened, NEW s \in Slots
  PROVE  Line(s) \in [slot : Slots, timestamp : Timestamps,
                      chunk : [error : Errors \cup {"none"}, size : Nat]]
<1>1. read_original(bytes, s) \in Payloads \cup Errors
  BY ReadType DEF Opened, TypeOK
<1>2. Outcome(chunk_raw(s)) \in [error : Errors \cup {"none"}, size : Nat]
  BY <1>1, OpenedAnswers, PayloadAssumption DEF Outcome
<1>3. chunk_timestamp(s) \in Timestamps
  BY OpenedAnswers DEF Opened, TypeOK, IsImage
<1> QED
  BY <1>2, <1>3 DEF Line

\* The lines l are those of the populated slots below n.
Listing(l, n) ==
  /\ \A i, j \in DOMAIN l : i < j => l[i].slot < l[j].slot
  /\ {l[i].slot : i \in DOMAIN l} = {s \in Slots : s < n /\ Populated(bytes, s)}
  /\ \A i \in DOMAIN l : LET s == l[i].slot IN
       /\ l[i].timestamp = bytes.ts[s]
       /\ l[i].chunk = Outcome(read_original(bytes, s))

\* It is so far ...
LEMMA ListingNow == ListsContents <=> Listing(listed, at)
BY DEF ListsContents, Listing

\* ... and is after a step that leaves the file alone.
LEMMA ListingNext ==
  ASSUME bytes' = bytes, Listing(listed', at')
  PROVE  ListsContents'
BY DEF Listing, ListsContents, Populated, read_original, HeaderInside, Whole,
       BlockAt, Start

\* region-list prints every populated slot once and in order, with the time and
\* the size or error that the file gives for it, whatever was read before and
\* whichever of those reads failed.
THEOREM LinesAreRight == ListSpec => []LinesTell
<1>1. ListInit => ListInv
  <2> SUFFICES ASSUME ListInit PROVE ListInv
    OBVIOUS
  <2>1. TypeOK /\ CacheCoherent
    BY InitInv, InitCacheInv DEF ListInit, Inv, CacheInv
  <2>2. Opened
    BY <2>1 DEF Opened, ListInit, Init, Loaded
  <2>3. kSize * kSize \in Nat
    BY SizeAssumption
  <2> QED
    BY <2>1, <2>2, <2>3
       DEF ListInv, LinesTell, ListTypeOK, ListsContents, ListInit, Slots
<1>2. ListInv /\ [ListNext]_listVars => ListInv'
  <2> SUFFICES ASSUME ListInv, [ListNext]_listVars PROVE ListInv'
    OBVIOUS
  <2> USE DEF ListInv, LinesTell
  <2>1. kSize * kSize \in Nat /\ Slots = 0 .. kSize * kSize - 1 /\ Opened
    BY SizeAssumption DEF Slots
  <2>2. CASE PassOver
    <3>1. at \in Slots /\ ~ Populated(bytes, at) /\ at' = at + 1
      BY <2>1, <2>2, OpenedAnswers DEF PassOver
    <3>2. UNCHANGED <<bytes, cache, overrides, views, packing, saved, listed>>
      BY <2>2 DEF PassOver
    <3>3. Opened'
      BY <3>2 DEF Opened, TypeOK, CacheCoherent, IsImage, Populated, Start,
                  decoded, removed, read_original, HeaderInside, Whole, BlockAt
    <3>4. ListTypeOK'
      BY <2>1, <3>1, <3>2, <3>3 DEF ListTypeOK, Opened
    <3>5. {s \in Slots : s < at + 1 /\ Populated(bytes, s)}
             = {s \in Slots : s < at /\ Populated(bytes, s)}
      BY <2>1, <3>1
    <3>6. Listing(listed, at + 1)
      BY <3>5, ListingNow DEF Listing
    <3>7. ListsContents'
      BY <3>1, <3>2, <3>6, ListingNext
    <3> QED
      BY <3>3, <3>4, <3>7
  <2>3. CASE ListChunk
    <3>1. at \in Slots /\ Populated(bytes, at) /\ at' = at + 1
      BY <2>1, <2>3, OpenedAnswers DEF ListChunk
    <3>2. /\ listed' = Append(listed, Line(at)) /\ cache' = CacheAfterRead(at)
          /\ UNCHANGED <<bytes, overrides, views, packing, saved>>
      BY <2>3 DEF ListChunk
    <3>3. Opened'
      BY <2>1, <3>1, <3>2, ReadStaysOpened
    <3>4. Line(at) \in [slot : Slots, timestamp : Timestamps,
                        chunk : [error : Errors \cup {"none"}, size : Nat]]
      BY <2>1, <3>1, LineType
    <3>5. ListTypeOK'
      BY <2>1, <3>1, <3>2, <3>3, <3>4 DEF ListTypeOK, Opened
    <3>6. /\ Len(listed) \in Nat /\ DOMAIN listed = 1 .. Len(listed)
          /\ DOMAIN listed' = 1 .. Len(listed) + 1
          /\ \A i \in 1 .. Len(listed) : listed'[i] = listed[i]
          /\ listed'[Len(listed) + 1] = Line(at)
      BY <3>2, <3>4 DEF ListTypeOK
    <3>7. /\ Line(at).slot = at /\ Line(at).timestamp = bytes.ts[at]
          /\ Line(at).chunk = Outcome(read_original(bytes, at))
      BY <2>1, <3>1, OpenedAnswers DEF Line
    <3>8. {s \in Slots : s < at' /\ Populated(bytes, s)}
            = {s \in Slots : s < at /\ Populated(bytes, s)} \cup {at}
      BY <2>1, <3>1
    <3>9. {listed'[i].slot : i \in DOMAIN listed'}
            = {listed[i].slot : i \in DOMAIN listed} \cup {at}
      BY <3>6, <3>7
    <3>10. \A i \in DOMAIN listed : listed[i].slot < at
      BY DEF ListsContents
    <3>11. \A i, j \in DOMAIN listed' : i < j => listed'[i].slot < listed'[j].slot
      BY <3>6, <3>7, <3>10 DEF ListsContents
    <3>12. \A i \in DOMAIN listed' :
             LET s == listed'[i].slot IN
             /\ listed'[i].timestamp = bytes.ts[s]
             /\ listed'[i].chunk = Outcome(read_original(bytes, s))
      BY <3>6, <3>7 DEF ListsContents
    <3>13. ListsContents'
      <4>1. {listed'[i].slot : i \in DOMAIN listed'}
              = {s \in Slots : s < at' /\ Populated(bytes, s)}
        BY <3>8, <3>9, ListingNow DEF Listing
      <4>2. Listing(listed', at')
        BY <3>11, <3>12, <4>1 DEF Listing
      <4> QED
        BY <3>2, <4>2, ListingNext
    <3> QED
      BY <3>3, <3>5, <3>13
  <2>4. CASE UNCHANGED listVars
    <3>1. UNCHANGED <<bytes, cache, overrides, views, packing, saved>>
      BY <2>4 DEF listVars
    <3>2. Opened'
      BY <3>1 DEF Opened, TypeOK, CacheCoherent, IsImage, Populated, Start,
                  decoded, removed, read_original, HeaderInside, Whole, BlockAt
    <3>3. ListTypeOK'
      BY <2>4, <3>2 DEF listVars, Opened, ListTypeOK
    <3>4. at' = at /\ listed' = listed
      BY <2>4 DEF listVars
    <3>5. ListsContents'
      <4>1. Listing(listed', at')
        BY <3>4, ListingNow
      <4> QED
        BY <3>1, <4>1, ListingNext
    <3> QED
      BY <3>2, <3>3, <3>5
  <2> QED
    BY <2>2, <2>3, <2>4 DEF ListNext
<1> QED
  BY <1>1, <1>2, PTL DEF ListSpec, ListInv

=============================================================================
