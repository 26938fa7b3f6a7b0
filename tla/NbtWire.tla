------------------------------- MODULE NbtWire -------------------------------
(***************************************************************************)
(* The four NBT dialects: decode, skip and encode of one root.             *)
(*                                                                         *)
(* A buffer is a sequence of bytes, read through a Cursor (Cursor.tla).  A *)
(* writer returns the bytes it appended, which after an error are the      *)
(* beginning of what was to be written.                                    *)
(*                                                                         *)
(* A Value is <<kind, data>>: a number for the scalar kinds (a float is    *)
(* its bits), a sequence of numbers for the arrays, of bytes for a string, *)
(* of Values for a list, of <<name, Value>> for a compound.  64-bit        *)
(* numbers that do not fit in 32 bits are the one number Wide, which is    *)
(* read but never written.                                                 *)
(*                                                                         *)
(* As in the other modules, a definition whose name extends that of the    *)
(* next one is that one with a slip in it, and is not used.                *)
(***************************************************************************)
EXTENDS Mutf8, SequencesExt

CONSTANT kMaxDecodeDepth     \* 512

ASSUME DepthAssumption == kMaxDecodeDepth \in Nat

Java == {"JavaNamedRoot", "JavaAnonymousRoot"}
Bedrock == {"BedrockLittleEndian", "BedrockVarInt"}
Formats == Java \cup Bedrock

TagIds ==
  <<"Byte", "Short", "Int", "Long", "Float", "Double", "ByteArray", "String",
    "List", "Compound", "IntArray", "LongArray">>

Kinds == {TagIds[i] : i \in DOMAIN TagIds}

tag_byte(kind) ==
  IF kind = "End" THEN 0 ELSE CHOOSE i \in DOMAIN TagIds : TagIds[i] = kind

Size == [Byte |-> 1, Short |-> 2, Int |-> 4, Long |-> 8, Float |-> 4,
         Double |-> 8]

Elem == [ByteArray |-> "Byte", IntArray |-> "Int", LongArray |-> "Long"]

EndTag == <<"End", 0>>

Wide == 2147483647

-----------------------------------------------------------------------------
(* Cursor.                                                                 *)

\* need(n * size), then the bytes.
take(in, pos, n, size) ==
  IF n > (Len(in) - pos) \div size THEN Err("UnexpectedEndOfInput", pos)
  ELSE Ok(SubSeq(in, pos + 1, pos + n * size), pos + n * size)

\* The numbers that big-endian byte strings stand for: two bytes without a
\* sign; one, two, four or eight with one, in the first byte.
unsigned(b) == b[1] * 256 + b[2]

top(b) == IF b < 128 THEN b ELSE b - 256

word(b) == ((top(b[1]) * 256 + b[2]) * 256 + b[3]) * 256 + b[4]

signed(b) ==
  IF Len(b) = 1 THEN top(b[1])
  ELSE IF Len(b) = 2 THEN top(b[1]) * 256 + b[2]
  ELSE IF Len(b) = 4 THEN word(b)
  ELSE LET low == word(SubSeq(b, 5, 8))
       IN  IF \A i \in 1 .. 4 : b[i] = (IF low < 0 THEN 255 ELSE 0)
           THEN low ELSE Wide

big_endian(f, b) == IF f \in Java THEN b ELSE Reverse(b)

read_int(f, in, pos, n) ==
  Then(take(in, pos, n, 1), LAMBDA b, p : Ok(signed(big_endian(f, b)), p))

read_tag_byte(in, pos) ==
  Then(take(in, pos, 1, 1), LAMBDA b, p :
    IF b[1] = 0 THEN Ok("End", p)
    ELSE IF b[1] \in DOMAIN TagIds THEN Ok(TagIds[b[1]], p)
    ELSE Err("UnknownTagId", p))

-----------------------------------------------------------------------------
(* VarInts: at most `most` bytes of seven bits, low ones first, the last   *)
(* one without the 128 bit.  read_uvarint gives the seven-bit digits.      *)

read_uvarint(in, pos, most) ==
  LET left == Len(in) - pos
      last == {i \in 1 .. most : i <= left /\ in[pos + i] < 128}
  IN  IF last # {}
      THEN LET n == CHOOSE i \in last : \A j \in last : i <= j
           IN  Ok([i \in 1 .. n |-> in[pos + i] % 128], pos + n)
      ELSE IF left < most THEN Err("UnexpectedEndOfInput", pos + left)
      ELSE Err("InvalidVarInt", pos + most)

digit(ds, i) == IF i <= Len(ds) THEN ds[i] ELSE 0

\* u >> 1 of the 32-bit u the digits stand for: the shift drops what does not
\* fit, so four bits of the fifth digit count.
half(ds) ==
  (digit(ds, 1) \div 2) + 64 * digit(ds, 2) + 8192 * digit(ds, 3)
    + 1048576 * digit(ds, 4) + 134217728 * (digit(ds, 5) % 16)

zigzag(ds) == IF ds[1] % 2 = 1 THEN - half(ds) - 1 ELSE half(ds)

\* The tenth digit carries one bit.
fits32(ds) ==
  /\ digit(ds, 5) < 16
  /\ \A i \in 6 .. 9 : digit(ds, i) = 0
  /\ digit(ds, 10) % 2 = 0

\* As a length: 2^31 and more are past the end of any buffer here.
as_length(ds) ==
  IF half(ds) >= 1073741824 THEN 2147483647 ELSE 2 * half(ds) + (ds[1] % 2)

\* A 32-bit u, which here has at most 31 bits.
Weights == <<1, 128, 16384, 2097152, 268435456>>

uvarint_size(u) ==
  CHOOSE n \in 1 .. 5 : /\ n = 5 \/ u < Weights[n + 1]
                        /\ n = 1 \/ u >= Weights[n]

write_uvarint(u) ==
  [i \in 1 .. uvarint_size(u) |->
     ((u \div Weights[i]) % 128) + (IF i < uvarint_size(u) THEN 128 ELSE 0)]

\* u = (v << 1) ^ (v >> 31), whose low digit holds the sign.
write_zigzag(v) ==
  LET m == IF v < 0 THEN - (v + 1) ELSE v
      d == 2 * (m % 64) + (IF v < 0 THEN 1 ELSE 0)
  IN  IF m < 64 THEN <<d>> ELSE <<128 + d>> \o write_uvarint(m \div 64)

-----------------------------------------------------------------------------
(* Numbers, lengths and strings, by dialect.                               *)

IsVarInt(f, kind) == f = "BedrockVarInt" /\ kind \in {"Int", "Long"}

read_number(f, in, pos, kind) ==
  IF IsVarInt(f, kind)
  THEN Then(read_uvarint(in, pos, IF kind = "Int" THEN 5 ELSE 10),
            LAMBDA ds, p : Ok(IF kind = "Long" /\ ~ fits32(ds) THEN Wide
                              ELSE zigzag(ds), p))
  ELSE read_int(f, in, pos, Size[kind])

read_array_length(f, in, pos) ==
  Then(read_number(f, in, pos, "Int"),
       LAMBDA n, p : IF n < 0 THEN Err("NegativeLength", p) ELSE Ok(n, p))

read_string_length(f, in, pos) ==
  IF f = "BedrockVarInt"
  THEN Then(read_uvarint(in, pos, 5), LAMBDA ds, p : Ok(as_length(ds), p))
  ELSE Then(take(in, pos, 2, 1),
            LAMBDA b, p : Ok(unsigned(big_endian(f, b)), p))

skip_string(f, in, pos) ==
  Then(read_string_length(f, in, pos), LAMBDA n, p : take(in, p, n, 1))

\* Bedrock strings are taken as they are.
read_string(f, in, pos) ==
  Then(skip_string(f, in, pos), LAMBDA b, p :
    IF f \in Bedrock \/ is_pure_ascii(b) THEN Ok(b, p)
    ELSE [mutf8_to_utf8(b) EXCEPT !.pos = p])

=============================================================================
