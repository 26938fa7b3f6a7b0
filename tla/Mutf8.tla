------------------------------- MODULE Mutf8 -------------------------------
(***************************************************************************)
(* Strings of mutf8.cpp.  Java writes modified UTF-8: U+0000 as C0 80 and  *)
(* a code point above U+FFFF as two three-byte surrogates.  In memory, and *)
(* in the Bedrock dialects, strings are plain UTF-8.                       *)
(*                                                                         *)
(* Each transcoder is a loop that takes one character at a time.  The      *)
(* forms below say how the character at a cursor is written; bytes that    *)
(* have no form are the error returns.                                     *)
(*                                                                         *)
(* A definition whose name extends that of the next one (AsciiOrNul,       *)
(* TwoOverlong, utf8_charBareNul) is that one with a slip, and not used.   *)
(***************************************************************************)
EXTENDS Cursor

Byte == 0 .. 255

\* The high bits of a byte: what it announces.
is_cont(b) == b \div 64 = 2
lead2(b) == b \div 32 = 6
lead3(b) == b \div 16 = 14
lead4(b) == b \div 8 = 30

is_pure_ascii(s) == \A i \in DOMAIN s : 0 < s[i] /\ s[i] < 128

low6(b) == b % 64
cp2(s, p) == (s[p + 1] % 32) * 64 + low6(s[p + 2])
cp3(s, p) == (s[p + 1] % 16) * 4096 + low6(s[p + 2]) * 64 + low6(s[p + 3])
cp4(s, p) == (s[p + 1] % 8) * 262144 + low6(s[p + 2]) * 4096
               + low6(s[p + 3]) * 64 + low6(s[p + 4])

Cont(b) == 128 + low6(b)
encode_utf8(cp) ==
  IF cp < 128 THEN <<cp>>
  ELSE IF cp < 2048 THEN <<192 + (cp \div 64), Cont(cp)>>
  ELSE IF cp < 65536 THEN <<224 + (cp \div 4096), Cont(cp \div 64), Cont(cp)>>
  ELSE <<240 + (cp \div 262144), Cont(cp \div 4096), Cont(cp \div 64), Cont(cp)>>

High(cp) == 55296 <= cp /\ cp <= 56319       \* 0xD800 .. 0xDBFF
Low(cp) == 56320 <= cp /\ cp <= 57343        \* 0xDC00 .. 0xDFFF

-----------------------------------------------------------------------------
(* The forms a character of s may have at p, where s does not end.         *)

AsciiOrNul(s, p) == s[p + 1] < 128
Ascii(s, p) == 0 < s[p + 1] /\ s[p + 1] < 128

TwoOverlong(s, p) ==
  p + 2 <= Len(s) /\ lead2(s[p + 1]) /\ is_cont(s[p + 2])
Two(s, p) ==
  /\ p + 2 <= Len(s) /\ lead2(s[p + 1]) /\ s[p + 1] >= 194
  /\ is_cont(s[p + 2])

ThreeBytes(s, p) ==
  /\ p + 3 <= Len(s) /\ lead3(s[p + 1])
  /\ is_cont(s[p + 2]) /\ is_cont(s[p + 3])

Three(s, p) ==
  /\ ThreeBytes(s, p) /\ cp3(s, p) >= 2048
  /\ ~ High(cp3(s, p)) /\ ~ Low(cp3(s, p))

Nul(s, p) == p + 2 <= Len(s) /\ s[p + 1] = 192 /\ s[p + 2] = 128

Pair(s, p) ==
  /\ ThreeBytes(s, p) /\ High(cp3(s, p))
  /\ ThreeBytes(s, p + 3) /\ Low(cp3(s, p + 3))

Four(s, p) ==
  /\ p + 4 <= Len(s) /\ lead4(s[p + 1])
  /\ is_cont(s[p + 2]) /\ is_cont(s[p + 3]) /\ is_cont(s[p + 4])
  /\ 65536 <= cp4(s, p) /\ cp4(s, p) <= 1114111

\* The string ends before the bytes that the first one announces.
CutShort(s, p) ==
  \/ lead2(s[p + 1]) /\ p + 2 > Len(s)
  \/ lead3(s[p + 1]) /\ p + 3 > Len(s)

CutShort4(s, p) ==
  CutShort(s, p) \/ (lead4(s[p + 1]) /\ p + 4 > Len(s))

merged(s, p) == 65536 + (cp3(s, p) - 55296) * 1024 + cp3(s, p + 3) - 56320

surrogates(cp) ==
  LET adj == cp - 65536
  IN  encode_utf8(55296 + (adj \div 1024)) \o encode_utf8(56320 + (adj % 1024))

\* The translation of the character at p.
mutf8_char(s, p) ==
  IF Ascii(s, p) THEN Ok(<<s[p + 1]>>, p + 1)
  ELSE IF Nul(s, p) THEN Ok(<<0>>, p + 2)
  ELSE IF Two(s, p) THEN Ok(encode_utf8(cp2(s, p)), p + 2)
  ELSE IF Three(s, p) THEN Ok(encode_utf8(cp3(s, p)), p + 3)
  ELSE IF Pair(s, p) THEN Ok(encode_utf8(merged(s, p)), p + 6)
  ELSE Err(IF CutShort(s, p) THEN "UnexpectedEndOfInput" ELSE "InvalidMutf8", p)

utf8_charBareNul(s, p) ==
  IF s[p + 1] < 128 THEN Ok(<<s[p + 1]>>, p + 1)
  ELSE IF Two(s, p) THEN Ok(<<s[p + 1], s[p + 2]>>, p + 2)
  ELSE IF Three(s, p) THEN Ok(<<s[p + 1], s[p + 2], s[p + 3]>>, p + 3)
  ELSE IF Four(s, p) THEN Ok(surrogates(cp4(s, p)), p + 4)
  ELSE Err(IF CutShort4(s, p) THEN "UnexpectedEndOfInput" ELSE "InvalidUtf8", p)
utf8_char(s, p) ==
  IF s[p + 1] = 0 THEN Ok(<<192, 128>>, p + 1)
  ELSE IF Ascii(s, p) THEN Ok(<<s[p + 1]>>, p + 1)
  ELSE IF Two(s, p) THEN Ok(<<s[p + 1], s[p + 2]>>, p + 2)
  ELSE IF Three(s, p) THEN Ok(<<s[p + 1], s[p + 2], s[p + 3]>>, p + 3)
  ELSE IF Four(s, p) THEN Ok(surrogates(cp4(s, p)), p + 4)
  ELSE Err(IF CutShort4(s, p) THEN "UnexpectedEndOfInput" ELSE "InvalidUtf8", p)

-----------------------------------------------------------------------------
(* The transcoders: the whole translation, or an error.                    *)

mutf8_to_utf8(s) ==
  Rounds([p \in Offsets(s) |-> IF p = Len(s) THEN Ok(<<>>, p)
                               ELSE mutf8_char(s, p)],
         Len(s) + 1, 0)

utf8_to_mutf8(s) ==
  Rounds([p \in Offsets(s) |-> IF p = Len(s) THEN Ok(<<>>, p)
                               ELSE utf8_char(s, p)],
         Len(s) + 1, 0)

=============================================================================
