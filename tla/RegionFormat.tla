---------------------------- MODULE RegionFormat ----------------------------
(***************************************************************************)
(* The Minecraft Java region (.mca) file as region_file.cpp reads and      *)
(* writes it: an 8 KiB header (a location and a timestamp per slot)        *)
(* followed by chunk blocks that start on 4 KiB sector boundaries.         *)
(*                                                                         *)
(* An image is a whole file: its size in bytes, the two header tables, and *)
(* `at`, which gives for a sector the chunk block whose first byte is the  *)
(* first byte of that sector.  A block is what its own header says (a      *)
(* 32-bit length, which counts the codec byte, and the codec byte) and the *)
(* payload bytes it carries.  Byte strings are abstract: a payload has a   *)
(* raw size, a packed size per codec, and either parses as named-root NBT  *)
(* or does not.                                                            *)
(*                                                                         *)
(* WholeNonEmpty is Whole with a slip in it, and is not used.              *)
(***************************************************************************)
EXTENDS Integers

CONSTANTS
  kSize,        \* chunks along one side of a region; 32 in the code
  Payloads,     \* decompressed byte strings
  Empty,        \* the empty byte string
  Parses,       \* the payloads View::decode accepts as a named root
  RawSize,      \* bytes of a payload
  PackedSize,   \* bytes of a payload under a codec
  MaxOutput,    \* opts.max_output of chunk_raw: 16 MiB
  kLengthMax,   \* largest payload the 32-bit length field allows
  Timestamps,   \* 32-bit seconds
  NoBlock       \* an empty `compressed` vector

kSector == 4096
kHeaderBytes == 8192
kMaxOffset == 16777215       \* 0xFF'FFFF, the 24-bit sector offset
kMaxCount == 255             \* 0xFF, the 8-bit sector count

Codecs == {"Gzip", "Zlib", "None", "Lz4"}

Errors == {"RegionInvalidChunk", "UnknownCodec", "DecompressionFailed",
           "LimitExceeded"}

Slots == 0 .. (kSize * kSize - 1)

\* The header's tables must be able to hold every slot at its largest.
ASSUME SizeAssumption ==
  /\ kSize \in Nat \ {0}
  /\ kSize * kSize \in Nat \ {0}
  /\ 2 + kMaxCount * (kSize * kSize) <= kMaxOffset

ASSUME PayloadAssumption ==
  /\ Empty \in Payloads
  /\ Parses \subseteq Payloads \ {Empty}
  /\ Payloads \cap Errors = {}
  /\ RawSize \in [Payloads -> Nat]
  /\ PackedSize \in [Codecs -> [Payloads -> Nat]]
  /\ PackedSize["None"] = RawSize
  /\ MaxOutput \in Nat /\ kLengthMax \in Nat
  /\ 0 \in Timestamps

\* Chunk coordinates wrap: (cx & 31) + (cz & 31) * kSize.
chunk_index(c) == (c[1] % kSize) + (c[2] % kSize) * kSize

-----------------------------------------------------------------------------
(* Codec bytes of a chunk header, and the inverse switch of chunk_raw.     *)

codec_to_byte == [Gzip |-> 1, Zlib |-> 2, None |-> 3, Lz4 |-> 4]

byte_to_codec == <<"Gzip", "Zlib", "None", "Lz4">>

-----------------------------------------------------------------------------
(* Payload bytes: the payload they stand for and the codec that packed it. *)

Data == [raw : Payloads, by : Codecs]

Block == [len : Nat, codec : 0 .. 255, data : Data]

ASSUME NoBlockAssumption == NoBlock \notin Block

BlockBytes(block) == 4 + block.len

\* The payloads decompress accepts under chunk_raw's max_output; an
\* uncompressed one is copied whatever its size.
Fits(codec, p) == codec = "None" \/ RawSize[p] <= MaxOutput

inflate(codec, data) ==
  IF codec = "None" THEN data.raw
  ELSE IF data.by # codec THEN "DecompressionFailed"
  ELSE IF Fits(codec, data.raw) THEN data.raw
  ELSE "LimitExceeded"

make_chunk_block(p, codec) ==
  [len   |-> PackedSize[codec][p] + 1,
   codec |-> codec_to_byte[codec],
   data  |-> [raw |-> p, by |-> codec]]

-----------------------------------------------------------------------------
(* Images.                                                                 *)

Locations == [off : Nat, cnt : 0 .. 255]
NoLocation == [off |-> 0, cnt |-> 0]

EmptyFile ==
  [size |-> kHeaderBytes,
   loc  |-> [s \in Slots |-> NoLocation],
   ts   |-> [s \in Slots |-> 0],
   at   |-> [o \in {} |-> NoBlock]]

Populated(f, s) == f.loc[s].off >= 2 /\ f.loc[s].cnt > 0

Start(f, s) == f.loc[s].off * kSector

BlockAt(f, s) == f.at[f.loc[s].off]

\* Every byte of the file up to its size exists, so a block header that lies
\* inside the file is some block.
IsImage(f) ==
  /\ f.size \in Nat /\ f.size >= kHeaderBytes
  /\ f.loc \in [Slots -> Locations]
  /\ f.ts \in [Slots -> Timestamps]
  /\ DOMAIN f.at \subseteq Nat
  /\ \A o \in DOMAIN f.at : f.at[o] \in Block
  /\ \A s \in Slots : Populated(f, s) /\ Start(f, s) + 4 <= f.size
                         => f.loc[s].off \in DOMAIN f.at

\* The block of a populated slot lies inside the file: the checks of
\* chunk_raw (whose first one, start + 5, is implied by the last two) and of
\* save_to_bytes.
HeaderInside(f, s, bytes) == Start(f, s) + bytes <= f.size

WholeNonEmpty(f, s) == BlockAt(f, s).len # 0
Whole(f, s) ==
  /\ BlockAt(f, s).len # 0
  /\ Start(f, s) + BlockBytes(BlockAt(f, s)) <= f.size

\* chunk_raw's answer from the original sectors.
read_original(f, s) ==
  IF ~ Populated(f, s) THEN "RegionInvalidChunk"
  ELSE IF ~ HeaderInside(f, s, 5) THEN "RegionInvalidChunk"
  ELSE IF ~ Whole(f, s) THEN "RegionInvalidChunk"
  ELSE IF BlockAt(f, s).codec \notin DOMAIN byte_to_codec THEN "UnknownCodec"
  ELSE inflate(byte_to_codec[BlockAt(f, s).codec], BlockAt(f, s).data)

=============================================================================
