------------------------------- MODULE Detect -------------------------------
(***************************************************************************)
(* The guesses made about bytes that come without a label: detect_codec    *)
(* (is it compressed, and how?), detect_format (which dialect?), and the   *)
(* calls built on them, decode_auto and skip_auto.  A buffer is the whole  *)
(* sequence of bytes a caller passes.                                      *)
(*                                                                         *)
(* A definition whose name extends that of the next one is that one with a *)
(* slip in it, and is not used.                                            *)
(***************************************************************************)
EXTENDS NbtCodec

NoGuess == "nullopt"

-----------------------------------------------------------------------------
(* Codecs.                                                                 *)

GzipMagic == <<31, 139>>
Lz4Magic == <<4, 34, 77, 24>>

zlib_headerLoose(in) == in[1] % 16 = 8
\* Compression method 8, a window of at most 2^15 bytes, and the check bits.
zlib_header(in) ==
  /\ in[1] % 16 = 8
  /\ in[1] \div 16 <= 7
  /\ (in[1] * 256 + in[2]) % 31 = 0

detect_codec(in) ==
  IF IsPrefix(Lz4Magic, in) THEN "Lz4"
  ELSE IF Len(in) < 2 THEN NoGuess
  ELSE IF IsPrefix(GzipMagic, in) THEN "Gzip"
  ELSE IF zlib_header(in) THEN "Zlib"
  ELSE NoGuess

-----------------------------------------------------------------------------
(* Compressed bytes, as compress makes them: their first bytes, which hold *)
(* the magic, the codec and the bytes it packed, and whether they are all  *)
(* there (a stream that is not whole does not decompress).  Bytes that are *)
(* not compressed have the codec "None".                                   *)

\* Per codec, the first bytes compress may produce; zlib's second byte depends
\* on the level.
Headers ==
  [Gzip |-> {GzipMagic \o <<8, 0>>},
   Zlib |-> {<<120, flg, 99, 0>> : flg \in {1, 94, 156, 218}},
   Lz4  |-> {Lz4Magic \o <<96, 64>>}]

File(in, by, raw, whole) == [in |-> in, by |-> by, raw |-> raw, whole |-> whole]

\* decompress(bytes), which detects the codec; bytes of none are copied.
decompress(f) ==
  IF detect_codec(f.in) = NoGuess THEN Ok(f.in, 0)
  ELSE IF detect_codec(f.in) = f.by /\ f.whole THEN Ok(f.raw, 0)
  ELSE Err("DecompressionFailed", 0)

-----------------------------------------------------------------------------
(* Dialects.                                                               *)

looks_like_printable(bs) ==
  bs # <<>> /\ \A i \in DOMAIN bs : bs[i] >= 32 /\ bs[i] < 127

\* The first byte is the root's tag and the next ones the length of its name:
\* two bytes, big- or little-endian, or a VarInt of one.  The little-endian
\* name is looked at too, but the answer does not depend on what is seen.
detect_format(in) ==
  IF in = <<>> THEN NoGuess
  ELSE IF in[1] = 0 THEN "JavaAnonymousRoot"
  ELSE IF in[1] \notin DOMAIN TagIds \/ Len(in) < 3 THEN NoGuess
  ELSE IF in[2] = 0 THEN "JavaNamedRoot"
  ELSE IF in[2] >= 128 THEN "BedrockVarInt"
  ELSE IF /\ Len(in) >= 2 + in[2]
          /\ looks_like_printable(SubSeq(in, 3, 2 + in[2]))
       THEN "BedrockVarInt"
  ELSE "BedrockLittleEndian"

decode_auto(in) ==
  IF detect_format(in) = NoGuess THEN Err("UnexpectedRootType", 0)
  ELSE decode(detect_format(in), in, 0)

skip_auto(in) ==
  IF detect_format(in) = NoGuess THEN Err("UnexpectedRootType", 0)
  ELSE skip(detect_format(in), in, 0)

\* skip, when the caller knows the root's tag.
skip_expectUnchecked(f, in, kind) == skip(f, in, 0)
skip_expect(f, in, kind) ==
  Then(skip(f, in, 0), LAMBDA root, p :
    IF root = kind THEN Ok(root, p) ELSE Err("UnexpectedRootType", 0))

=============================================================================
