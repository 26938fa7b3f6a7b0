---------------------------- MODULE Transcoder ----------------------------
(***************************************************************************)
(* The transcoders of Mutf8 over every string of at most MaxPieces pieces. *)
(***************************************************************************)
EXTENDS Mutf8

CONSTANTS
  Pieces,       \* the strings of bytes that texts are made of
  MaxPieces     \* bound

ASSUME PiecesAreBytes == Pieces \subseteq Seq(Byte)

VARIABLES
  text,         \* the bytes
  pieces        \* how many pieces they were made of

mutf8Vars == <<text, pieces>>

Mutf8Init == text = <<>> /\ pieces = 0

AppendPiece(p) ==
  /\ pieces < MaxPieces
  /\ text' = text \o p
  /\ pieces' = pieces + 1

Mutf8Next == \E p \in Pieces : AppendPiece(p)

Mutf8Spec == Mutf8Init /\ [][Mutf8Next]_mutf8Vars

\* What the encoder writes for a UTF-8 string, the decoder reads back as that
\* string, whatever its code points; no byte of it is 0.
Utf8RoundTrips ==
  LET m == utf8_to_mutf8(text) IN
  m.ok => /\ mutf8_to_utf8(m.v) = Ok(text, Len(m.v))
          /\ \A i \in DOMAIN m.v : m.v[i] # 0

\* A string has one MUTF-8 spelling: bytes that the decoder accepts are the
\* bytes that the encoder writes for what it read, so names and strings keep
\* their bytes when a document is decoded and encoded again.
Mutf8IsCanonical ==
  LET u == mutf8_to_utf8(text) IN
  u.ok => utf8_to_mutf8(u.v) = Ok(text, Len(u.v))

\* The transcoders invert each other: UTF-8 to MUTF-8 and back is the identity
\* where the encoder accepts, and the other way round where the decoder does.
TranscodersInvert == Utf8RoundTrips /\ Mutf8IsCanonical

-----------------------------------------------------------------------------
(* What a doc or a comment says and the code does not do: not an invariant. *)

\* "any input that does not match the encoding rules above is rejected with
\* ErrorCode::InvalidMutf8 or InvalidUtf8" (mutf8.hpp:26-27); a character that
\* the end of the string cuts off is an UnexpectedEndOfInput.
RejectedAsInvalid ==
  \A r \in {mutf8_to_utf8(text), utf8_to_mutf8(text)} :
    r.ok \/ r.v \in {"InvalidMutf8", "InvalidUtf8"}

=============================================================================
