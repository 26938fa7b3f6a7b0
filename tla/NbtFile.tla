------------------------------ MODULE NbtFile ------------------------------
(***************************************************************************)
(* write_nbt_file and read_nbt_file on one path: encode, compress, write;  *)
(* read, detect the codec, decompress, detect the dialect, decode.  In     *)
(* between, the file may lose its end (FileIo says how).                   *)
(***************************************************************************)
EXTENDS Detect

CONSTANTS
  Docs,         \* the NamedValues callers write
  Depths        \* bound: the numbers of bytes a cut leaves

ASSUME DocsAssumption ==
  /\ Docs \subseteq ByteStrings \X Values(kMaxDecodeDepth)
  /\ Depths \subseteq Nat

\* The documents files are read back for: no Value has an End tag inside (see
\* ProperRoots in NbtStream) or nests deeper than decode goes.
ProperDocs ==
  \A nv \in Docs :
    /\ \A d \in 1 .. kMaxDecodeDepth : EndTag \notin Nested(nv[2])[d]
    /\ Nested(nv[2])[kMaxDecodeDepth] = {}

VARIABLES
  disk,         \* the file: its first bytes, and what they are the packing of
  wrote,        \* the last write that succeeded: document and dialect
  answer        \* what read_nbt_file answered since, if anything

fileVars == <<disk, wrote, answer>>

read_nbt_file(f) == Then(decompress(f), LAMBDA raw, p : decode_auto(raw))

Nothing == <<>>

FileInit ==
  /\ disk = File(<<>>, "None", <<>>, TRUE)
  /\ wrote = Nothing
  /\ answer = Nothing

\* A document that encode refuses leaves the file alone.  Bound: one write,
\* because another replaces all there is.
WriteNbtFile(nv, f, codec) ==
  /\ wrote = Nothing
  /\ \E w \in {encode(f, nv)} :
       /\ w.ok
       /\ \E in \in (IF codec = "None" THEN {w.out} ELSE Headers[codec]) :
            disk' = File(in, codec, w.out, TRUE)
  /\ wrote' = <<nv, f>>
  /\ answer' = Nothing

LoseEnd(n) ==
  /\ disk.whole
  /\ n < Len(disk.in)
  /\ disk' = [disk EXCEPT !.in = SubSeq(disk.in, 1, n), !.whole = FALSE]
  /\ answer' = Nothing
  /\ UNCHANGED wrote

ReadNbtFile ==
  /\ answer = Nothing
  /\ answer' = <<read_nbt_file(disk)>>
  /\ UNCHANGED <<disk, wrote>>

FileNext ==
  \/ \E nv \in Docs, f \in Formats, codec \in {"None"} \cup DOMAIN Headers :
       WriteNbtFile(nv, f, codec)
  \/ \E n \in Depths : LoseEnd(n)
  \/ ReadNbtFile

FileSpec == FileInit /\ [][FileNext]_fileVars

-----------------------------------------------------------------------------
(* Properties.                                                             *)

FileTypeOK ==
  /\ disk.by \in {"None"} \cup DOMAIN Headers
  /\ \A i \in DOMAIN disk.in : disk.in[i] \in Byte
  /\ answer = Nothing \/ answer[1].pos \in 0 .. (Len(disk.raw) + Len(disk.in))

Written == wrote # Nothing

\* The documents detection is made for (the comments of detect_format): a
\* Java root whose name's length, as it is written, has no high byte, a Bedrock
\* root with a name of 1 to 127 printable bytes, or no NBT at all.  A Bedrock
\* string whose name length makes it look like zlib is left to RawIsRaw.
Detectable(nv, f) ==
  \/ nv[2] = EndTag
  \/ f = "JavaNamedRoot" /\ Len(write_string(f, nv[1]).out) <= 2 + 255
  \/ /\ f \in Bedrock
     /\ Len(nv[1]) <= 127 /\ looks_like_printable(nv[1])
     /\ nv[2][1] = "String" => Len(nv[1]) % 31 # 29

Known == Written /\ Detectable(wrote[1], wrote[2])

Stored(nv) == IF nv[2] = EndTag THEN NoRoot ELSE nv

\* Such a document comes back from the file with the dialect and the codec
\* guessed, whatever they were.
ReadsBack ==
  Known /\ disk.whole /\ answer # Nothing =>
    answer[1].ok /\ answer[1].v = Stored(wrote[1])

\* Nor is what is left of one after its end is lost ever taken for a document,
\* of any dialect.
CutIsRefused ==
  Known /\ ~ disk.whole /\ answer # Nothing => ~ answer[1].ok

\* skip_auto and decode_auto end at the same byte, and skip_expect accepts a
\* buffer for the tag of the root that decode finds in it and for no other.
AutoAgrees ==
  \A in \in {disk.raw} : \A d \in {decode_auto(in)}, s \in {skip_auto(in)} :
    /\ Alike(detect_format(in), d, s)
    /\ d.ok => \A kind \in {"End", "Compound", "String"} :
                 skip_expect(detect_format(in), in, kind).ok
                   = (kind = d.v[2][1])

\* What is left of a file that lost its end is not taken for a document, and
\* of any bytes decode_auto, skip_auto and skip_expect tell the same.
GuessesAgree == FileTypeOK /\ CutIsRefused /\ AutoAgrees

-----------------------------------------------------------------------------
(* What a doc or a comment says and the code does not do: not invariants.  *)

\* "zlib: 0x78 followed by one of {0x01, 0x5E, 0x9C, 0xDA}" and otherwise
\* nullopt (compress.hpp:49-51): an uncompressed document is not taken for a
\* compressed one.
RawIsRaw ==
  Written /\ disk.by = "None" /\ detect_codec(disk.in) = "Zlib"
    => disk.in[1] = 120

\* A first length byte of 128 or more is "rare but unambiguous for Bedrock"
\* (format.cpp:118-119).
ContinuationIsVarInt ==
  Written /\ wrote[2] \in Bedrock /\ Len(disk.raw) >= 2 /\ disk.raw[2] >= 128
    => wrote[2] = "BedrockVarInt"

\* In BedrockVarInt "every integer (including string lengths and array
\* lengths) is a ZigZag-encoded VarInt" (format.hpp:30-32).
LengthsAreZigZag ==
  Written /\ wrote[2] = "BedrockVarInt" /\ wrote[1][2] # EndTag =>
    IsPrefix(write_zigzag(Len(wrote[1][1])), Tail(disk.raw))

=============================================================================
