---------------------------- MODULE CodecProofs ----------------------------
(***************************************************************************)
(* decode, skip and encode on their own.  skip and decode take the same    *)
(* bytes for a root, and fail alike, on every string of bytes and in every *)
(* dialect: SkipsWhatDecodes.  encode appends bytes for every root:        *)
(* EncodesBytes.                                                           *)
(*                                                                         *)
(* Same says what decode and skip make of one part of a buffer.  It holds  *)
(* of the smallest parts, is kept from one part to the next (Chain) and    *)
(* through a loop whose rounds it holds of (LoopsAgree), and so holds of   *)
(* the payloads of one level if it does of those one level down            *)
(* (PayloadSkipped); LevelsAgree is the induction over the levels.  decode *)
(* reads the elements of an array one by one where skip steps over them at *)
(* once: SizedLoop and ArrayRead say that this is the same.                *)
(*                                                                         *)
(* That encode appends bytes is shown by the depth of a Value's parts: the *)
(* Values of n levels have parts down to depth n at most (NestedTyped), so *)
(* the recursion of write_value ends there (WriteLevelsExist), and from    *)
(* there up each part is written as bytes (PartsWritten).                  *)
(*                                                                         *)
(* Gets says what a reader makes of m bytes at p that something was        *)
(* written as: that, or the end of the input if they are not all there,    *)
(* or the depth limit.  It holds of numbers and strings, is kept from one  *)
(* part to the next (GetsChain, AfterGets) and through a loop (LoopGets),  *)
(* and so holds of the payloads at one depth if it does of those one down  *)
(* (PayloadGets); ValueGets is the induction, from the deepest parts up,   *)
(* and RootGets what it comes to for a root: the round trip.               *)
(***************************************************************************)
EXTENDS Mutf8Proofs, NbtCodec

-----------------------------------------------------------------------------
(* What the calls that read one part return.                               *)

\* A call at p in a buffer of n bytes leaves its cursor in the buffer, and fails
\* with one of decode's error codes.
Yields(r, p, n) ==
  /\ r.ok \in BOOLEAN
  /\ r.pos \in p .. n
  /\ ~ r.ok => r.v \in ErrorCodes

\* The digits of a VarInt.
Digit == 0 .. 127

\* Bytes and digits are small numbers.
LEMMA ByteIs ==
  /\ \A x \in Byte : x \in Int /\ x \in 0 .. 255 /\ top(x) \in Int /\ x % 128 \in Digit
  /\ \A x \in Digit : x \in Int /\ x \in 0 .. 127 /\ x % 2 \in 0 .. 1
BY DEF Byte, Digit, top

\* m bytes are n items of this size.  Opaque, it keeps products from the solver.
Spans(m, n, size) == m = n * size

\* The m bytes after p.
LEMMA BytesAt ==
  ASSUME NEW in \in Seq(Byte), NEW p \in Offsets(in), NEW m \in Nat, m <= Len(in) - p
  PROVE  /\ SubSeq(in, p + 1, p + m) \in Seq(Byte)
         /\ Len(SubSeq(in, p + 1, p + m)) = m
         /\ \A i \in 1 .. m : SubSeq(in, p + 1, p + m)[i] = in[p + i]
<1>1. p \in Nat /\ Len(in) \in Nat /\ p + m <= Len(in)
  BY DEF Offsets
<1> DEFINE t == SubSeq(in, p + 1, p + m)
<1>2. \A i \in p + 1 .. p + m : in[i] \in Byte
  BY <1>1
<1>3. t \in Seq(Byte)
  BY <1>1, <1>2
<1>4. Len(t) = m
  BY <1>1
<1>5. \A i \in 1 .. m : t[i] = in[p + i]
  BY <1>1
<1> QED
  BY <1>3, <1>4, <1>5

\* What take returns: the m bytes at p, or end of input if they are not there.
LEMMA TakeYields ==
  ASSUME NEW in \in Seq(Byte), NEW p \in Offsets(in), NEW n \in Nat,
         NEW size \in {1, 2, 4, 8}, NEW m \in Nat, Spans(m, n, size)
  PROVE  LET r == take(in, p, n, size) IN
         /\ Yields(r, p, Len(in))
         /\ r.ok <=> p + m <= Len(in)
         /\ r.ok => /\ r.v \in Seq(Byte) /\ Len(r.v) = m
                    /\ r.pos = p + m
                    /\ \A i \in 1 .. m : r.v[i] = in[p + i]
         /\ ~ r.ok => r.v = "UnexpectedEndOfInput" /\ r.pos = p
<1> DEFINE left == Len(in) - p
<1>0. m = n * size
  BY DEF Spans
<1>1. left \in Nat /\ m \in Nat
  BY DEF Offsets
<1>2. n > left \div size <=> m > left
  <2>1. CASE size = 1
    BY <1>0, <1>1, <2>1
  <2>2. CASE size = 2
    BY <1>0, <1>1, <2>2
  <2>3. CASE size = 4
    BY <1>0, <1>1, <2>3
  <2>4. CASE size = 8
    BY <1>0, <1>1, <2>4
  <2> QED
    BY <2>1, <2>2, <2>3, <2>4
<1>3. CASE m > left
  <2>1. take(in, p, n, size) = Err("UnexpectedEndOfInput", p)
    BY <1>0, <1>2, <1>3 DEF take
  <2> QED
    BY <1>1, <1>3, <2>1 DEF Err, Yields, ErrorCodes, Offsets
<1>4. CASE m <= left
  <2>1. take(in, p, n, size) = Ok(SubSeq(in, p + 1, p + m), p + m)
    BY <1>0, <1>1, <1>2, <1>4 DEF take
  <2>2. p + 1 \in 1 .. Len(in) + 1 /\ p + m \in p .. Len(in) /\ p \in Nat
    BY <1>1, <1>4 DEF Offsets
  <2>3. /\ SubSeq(in, p + 1, p + m) \in Seq(Byte)
        /\ Len(SubSeq(in, p + 1, p + m)) = m
        /\ \A i \in 1 .. m : SubSeq(in, p + 1, p + m)[i] = in[p + i]
    BY <1>1, <1>4, BytesAt
  <2> QED
    BY <1>1, <1>4, <2>1, <2>2, <2>3 DEF Ok, Yields
<1> QED
  BY <1>1, <1>3, <1>4

\* Either byte order has the same bytes.
LEMMA ReverseBytes ==
  ASSUME NEW f, NEW b \in Seq(Byte)
  PROVE  big_endian(f, b) \in Seq(Byte) /\ Len(big_endian(f, b)) = Len(b)
BY DEF big_endian, Reverse

\* A word is a number.
LEMMA WordInt ==
  ASSUME NEW b, top(b[1]) \in Int, b[2] \in Int, b[3] \in Int, b[4] \in Int
  PROVE  word(b) \in Int
<1>1. PICK x \in Int, y \in Int, z \in Int, u \in Int :
        top(b[1]) = x /\ b[2] = y /\ b[3] = z /\ b[4] = u
  OBVIOUS
<1>2. word(b) = ((x * 256 + y) * 256 + z) * 256 + u
  BY <1>1 DEF word
<1> QED
  BY <1>2

\* The numbers that byte strings stand for.
LEMMA SignedInt ==
  ASSUME NEW b \in Seq(Byte), Len(b) \in {1, 2, 4, 8}
  PROVE  signed(b) \in Int
<1>0. \A i \in 1 .. Len(b) : b[i] \in Byte
  OBVIOUS
<1>1. \A i \in 1 .. Len(b) : b[i] \in Int /\ top(b[i]) \in Int
  BY <1>0, ByteIs
<1>2. CASE Len(b) = 1
  BY <1>1, <1>2 DEF signed
<1>3. CASE Len(b) = 2
  BY <1>1, <1>3 DEF signed
<1>4. CASE Len(b) = 4
  <2>1. word(b) \in Int
    <3>1. top(b[1]) \in Int /\ b[2] \in Int /\ b[3] \in Int /\ b[4] \in Int
      BY <1>1, <1>4
    <3> QED
      BY <3>1, WordInt
  <2> QED
    BY <1>4, <2>1 DEF signed
<1>5. CASE Len(b) = 8
  <2> DEFINE c == SubSeq(b, 5, 8)
  <2>1. c[1] = b[5] /\ c[2] = b[6] /\ c[3] = b[7] /\ c[4] = b[8]
    BY <1>5
  <2>2. word(c) \in Int
    <3> HIDE DEF c
    <3>1. c[1] \in Int /\ top(c[1]) \in Int /\ c[2] \in Int /\ c[3] \in Int /\ c[4] \in Int
      BY <1>1, <1>5, <2>1
    <3> QED
      BY <3>1, WordInt
  <2> QED
    BY <1>5, <2>2 DEF signed, Wide
<1> QED
  BY <1>2, <1>3, <1>4, <1>5

\* What read_uvarint returns.
LEMMA UvarintYields ==
  ASSUME NEW in \in Seq(Byte), NEW p \in Offsets(in), NEW most \in {5, 10}
  PROVE  LET r == read_uvarint(in, p, most) IN
         /\ Yields(r, p, Len(in))
         /\ r.ok => r.v \in Seq(Digit) /\ Len(r.v) >= 1
<1> DEFINE left == Len(in) - p
           last == {i \in 1 .. most : i <= left /\ in[p + i] < 128}
<1>1. left \in Nat /\ p \in Nat /\ p + left = Len(in)
  BY DEF Offsets
<1>2. CASE last # {}
  <2> DEFINE n == CHOOSE i \in last : \A j \in last : i <= j
  <2>1. \E i \in last : \A j \in last : i <= j
    <3>1. last \subseteq Nat
      OBVIOUS
    <3> HIDE DEF last
    <3> QED
      BY <3>1, <1>2, Least
  <2>2. n \in last
    <3> HIDE DEF last
    <3> QED
      BY <2>1
  <2>3. read_uvarint(in, p, most) = Ok([i \in 1 .. n |-> in[p + i] % 128], p + n)
    BY <1>2 DEF read_uvarint
  <2> HIDE DEF n
  <2>4. n \in 1 .. 10 /\ n <= left
    BY <2>2
  <2>5. ASSUME NEW i \in 1 .. n PROVE in[p + i] % 128 \in Digit
    <3>1. in[p + i] \in Byte
      BY <1>1, <2>4
    <3> QED
      BY <3>1, ByteIs
  <2>6. [i \in 1 .. n |-> in[p + i] % 128] \in Seq(Digit)
    BY <2>4, <2>5
  <2> QED
    BY <1>1, <2>3, <2>4, <2>6 DEF Ok, Yields
<1>3. CASE last = {}
  <2>1. read_uvarint(in, p, most) =
          IF left < most THEN Err("UnexpectedEndOfInput", p + left)
          ELSE Err("InvalidVarInt", p + most)
    BY <1>3 DEF read_uvarint
  <2> QED
    BY <1>1, <2>1 DEF Err, Yields, ErrorCodes
<1> QED
  BY <1>2, <1>3

\* The numbers that digits stand for.
LEMMA DigitsNat ==
  ASSUME NEW ds \in Seq(Digit), Len(ds) >= 1
  PROVE  zigzag(ds) \in Int /\ as_length(ds) \in Nat
<1>0. \A i \in 1 .. Len(ds) : ds[i] \in Digit
  OBVIOUS
<1>1. ASSUME NEW i \in 1 .. 10 PROVE digit(ds, i) \in 0 .. 127
  <2>1. CASE i <= Len(ds)
    <3>1. i \in 1 .. Len(ds)
      BY <2>1
    <3>2. ds[i] \in 0 .. 127
      BY <1>0, <3>1, ByteIs
    <3> QED
      BY <2>1, <3>2 DEF digit
  <2>2. CASE ~ (i <= Len(ds))
    BY <2>2 DEF digit
  <2> QED
    BY <2>1, <2>2
<1>2. half(ds) \in Nat
  <2> DEFINE d1 == digit(ds, 1)  d2 == digit(ds, 2)  d3 == digit(ds, 3)
             d4 == digit(ds, 4)  d5 == digit(ds, 5)
  <2>1. d1 \in 0 .. 127 /\ d2 \in 0 .. 127 /\ d3 \in 0 .. 127 /\ d4 \in 0 .. 127
          /\ d5 \in 0 .. 127
    BY <1>1
  <2> HIDE DEF d1, d2, d3, d4, d5
  <2>2. (d1 \div 2) + 64 * d2 + 8192 * d3 + 1048576 * d4 + 134217728 * (d5 % 16) \in Nat
    BY <2>1
  <2> QED
    BY <2>2 DEF half, d1, d2, d3, d4, d5
<1>3. ds[1] \in 0 .. 127 /\ ds[1] % 2 \in 0 .. 1
  BY <1>0, ByteIs
<1> QED
  BY <1>2, <1>3 DEF zigzag, as_length

-----------------------------------------------------------------------------
(* What decode and skip make of a part.                                    *)

\* The errors of the transcoder.
Bad == {"InvalidMutf8", "UnexpectedEndOfInput"}

\* The same failure, or one that only transcoding has.
FailsLike(f, d, s) ==
  \/ ~ s.ok /\ s.v = d.v
  \/ f \in Java /\ d.v \in Bad /\ d.pos <= s.pos

\* What decode and skip make of a part at p of a buffer of n bytes.
Same(f, d, s, p, n) ==
  /\ Yields(d, p, n) /\ Yields(s, p, n)
  /\ IF d.ok THEN s.ok /\ s.pos = d.pos ELSE FailsLike(f, d, s)

\* One part after another: d and s are what is made of the first, d2 and s2
\* what is made of both.
LEMMA Chain ==
  ASSUME NEW f, NEW n \in Nat, NEW p \in 0 .. n, NEW d, NEW s, NEW d2, NEW s2,
         Same(f, d, s, p, n),
         d.ok => Same(f, d2, s2, d.pos, n),
         ~ d.ok => d2 = d,
         s.ok => Yields(s2, s.pos, n),
         ~ s.ok => s2 = s
  PROVE  Same(f, d2, s2, p, n)
<1>1. /\ d.pos \in p .. n /\ s.pos \in p .. n
      /\ d.ok \in BOOLEAN /\ s.ok \in BOOLEAN
  BY DEF Same, Yields
<1>2. CASE d.ok
  BY <1>1, <1>2 DEF Same, Yields
<1>3. CASE ~ d.ok
  <2>1. Yields(s2, p, n)
    BY <1>1 DEF Same, Yields
  <2>2. FailsLike(f, d2, s2)
    <3>1. CASE ~ s.ok
      BY <1>3, <3>1 DEF Same
    <3>2. CASE s.ok
      <4>1. f \in Java /\ d.v \in Bad /\ d.pos <= s.pos
        BY <1>3, <3>2 DEF Same, FailsLike
      <4>2. s2.pos \in s.pos .. n
        BY <3>2 DEF Yields
      <4> QED
        BY <1>1, <1>3, <4>1, <4>2 DEF FailsLike
    <3> QED
      BY <3>1, <3>2, <1>1
  <2> QED
    BY <1>3, <2>1, <2>2 DEF Same
<1> QED
  BY <1>1, <1>2, <1>3

\* The same call.
LEMMA SameCall ==
  ASSUME NEW f, NEW n, NEW p, NEW d, Yields(d, p, n)
  PROVE  Same(f, d, d, p, n)
BY DEF Same, FailsLike, Yields

-----------------------------------------------------------------------------
\* Taking n bytes.
LEMMA TakeBytes ==
  ASSUME NEW in \in Seq(Byte), NEW p \in Offsets(in), NEW n \in Nat
  PROVE  LET r == take(in, p, n, 1) IN
         /\ Yields(r, p, Len(in))
         /\ r.ok <=> p + n <= Len(in)
         /\ r.ok => r.v \in Seq(Byte) /\ Len(r.v) = n /\ r.pos = p + n
         /\ ~ r.ok => r.v = "UnexpectedEndOfInput"
<1>1. Spans(n, n, 1) /\ 1 \in {1, 2, 4, 8}
  BY DEF Spans
<1> QED
  BY <1>1, TakeYields

\* Taking one item of `size` bytes.
LEMMA TakeItem ==
  ASSUME NEW in \in Seq(Byte), NEW p \in Offsets(in), NEW size \in {1, 2, 4, 8}
  PROVE  LET r == take(in, p, 1, size) IN
         /\ Yields(r, p, Len(in))
         /\ r.ok <=> p + size <= Len(in)
         /\ r.ok => r.pos = p + size
         /\ ~ r.ok => r.v = "UnexpectedEndOfInput"
<1>1. Spans(size, 1, size) /\ 1 \in Nat /\ size \in Nat
  BY DEF Spans
<1> QED
  BY <1>1, TakeYields

\* What read_number returns; one that is not a VarInt fails only for want of bytes.
LEMMA NumberYields ==
  ASSUME NEW f, NEW in \in Seq(Byte), NEW p \in Offsets(in), NEW kind \in DOMAIN Size
  PROVE  LET r == read_number(f, in, p, kind) IN
         /\ Yields(r, p, Len(in))
         /\ r.ok => r.v \in Int
         /\ ~ IsVarInt(f, kind) =>
              /\ r.ok <=> p + Size[kind] <= Len(in)
              /\ r.ok => r.pos = p + Size[kind]
              /\ ~ r.ok => r.v = "UnexpectedEndOfInput"
<1>0. Size[kind] \in {1, 2, 4, 8}
  BY DEF Size
<1>1. CASE IsVarInt(f, kind)
  <2> DEFINE most == IF kind = "Int" THEN 5 ELSE 10
             u == read_uvarint(in, p, most)
             r == read_number(f, in, p, kind)
  <2>1. Yields(u, p, Len(in)) /\ (u.ok => u.v \in Seq(Digit) /\ Len(u.v) >= 1)
    <3>1. most \in {5, 10}
      OBVIOUS
    <3> HIDE DEF most
    <3> QED
      BY <3>1, UvarintYields
  <2>2. r = IF u.ok THEN Ok(IF kind = "Long" /\ ~ fits32(u.v) THEN Wide
                            ELSE zigzag(u.v), u.pos)
            ELSE u
    BY <1>1 DEF read_number, Then
  <2>3. u.ok => zigzag(u.v) \in Int
    <3> HIDE DEF u
    <3> QED
      BY <2>1, DigitsNat
  <2>4. Wide \in Int
    BY DEF Wide
  <2> HIDE DEF u, r
  <2>5. Yields(r, p, Len(in)) /\ (r.ok => r.v \in Int)
    BY <2>1, <2>2, <2>3, <2>4 DEF Ok, Yields
  <2> QED
    BY <1>1, <2>5 DEF r
<1>2. CASE ~ IsVarInt(f, kind)
  <2> DEFINE z == Size[kind]
             u == take(in, p, z, 1)
             r == read_number(f, in, p, kind)
  <2>1. z \in Nat
    BY <1>0
  <2>2. /\ Yields(u, p, Len(in))
        /\ u.ok <=> p + z <= Len(in)
        /\ u.ok => u.v \in Seq(Byte) /\ Len(u.v) = z /\ u.pos = p + z
        /\ ~ u.ok => u.v = "UnexpectedEndOfInput"
    <3> HIDE DEF z
    <3> QED
      BY <2>1, TakeBytes
  <2>3. r = IF u.ok THEN Ok(signed(big_endian(f, u.v)), u.pos) ELSE u
    BY <1>2 DEF read_number, read_int, Then
  <2> HIDE DEF u, r
  <2>4. u.ok => signed(big_endian(f, u.v)) \in Int
    <3> SUFFICES ASSUME u.ok PROVE signed(big_endian(f, u.v)) \in Int
      OBVIOUS
    <3>1. big_endian(f, u.v) \in Seq(Byte) /\ Len(big_endian(f, u.v)) \in {1, 2, 4, 8}
      BY <1>0, <2>2, ReverseBytes
    <3> QED
      BY <3>1, SignedInt
  <2> HIDE DEF z
  <2>5. /\ Yields(r, p, Len(in)) /\ (r.ok => r.v \in Int)
        /\ r.ok <=> p + z <= Len(in)
        /\ r.ok => r.pos = p + z
        /\ ~ r.ok => r.v = "UnexpectedEndOfInput"
    <3>1. CASE u.ok
      BY <2>2, <2>3, <2>4, <3>1 DEF Ok, Yields
    <3>2. CASE ~ u.ok
      BY <2>2, <2>3, <3>2
    <3> QED
      BY <2>2, <3>1, <3>2 DEF Yields
  <2> QED
    BY <2>5 DEF r, z
<1> QED
  BY <1>1, <1>2

\* A number is skipped as it is read.
LEMMA NumberSkipped ==
  ASSUME NEW f, NEW in \in Seq(Byte), NEW p \in Offsets(in), NEW kind \in DOMAIN Size
  PROVE  Same(f, read_number(f, in, p, kind), skip_number(f, in, p, kind), p, Len(in))
<1> DEFINE r == read_number(f, in, p, kind)
           s == skip_number(f, in, p, kind)
<1>1. CASE IsVarInt(f, kind)
  <2>1. s = r
    BY <1>1 DEF skip_number
  <2>2. Yields(r, p, Len(in))
    BY NumberYields
  <2> HIDE DEF r, s
  <2>3. Same(f, r, s, p, Len(in))
    BY <2>1, <2>2, SameCall
  <2> QED
    BY <2>3 DEF r, s
<1>2. CASE ~ IsVarInt(f, kind)
  <2> DEFINE z == Size[kind]
  <2>1. z \in {1, 2, 4, 8}
    BY DEF Size
  <2>2. s = take(in, p, 1, z)
    BY <1>2 DEF skip_number
  <2>3. /\ Yields(r, p, Len(in))
        /\ r.ok <=> p + z <= Len(in)
        /\ r.ok => r.pos = p + z
        /\ ~ r.ok => r.v = "UnexpectedEndOfInput"
    BY <1>2, NumberYields
  <2> HIDE DEF r, z
  <2>4. /\ Yields(s, p, Len(in))
        /\ s.ok <=> p + z <= Len(in)
        /\ s.ok => s.pos = p + z
        /\ ~ s.ok => s.v = "UnexpectedEndOfInput"
    BY <2>1, <2>2, TakeItem
  <2> HIDE DEF s
  <2>5. Same(f, r, s, p, Len(in))
    BY <2>3, <2>4 DEF Same, FailsLike
  <2> QED
    BY <2>5 DEF r, s
<1> QED
  BY <1>1, <1>2

\* What read_array_length returns.
LEMMA ArrayLengthYields ==
  ASSUME NEW f, NEW in \in Seq(Byte), NEW p \in Offsets(in)
  PROVE  LET r == read_array_length(f, in, p) IN
         Yields(r, p, Len(in)) /\ (r.ok => r.v \in Nat)
<1> DEFINE u == read_number(f, in, p, "Int")
           r == read_array_length(f, in, p)
<1>1. Yields(u, p, Len(in)) /\ (u.ok => u.v \in Int)
  <2>1. "Int" \in DOMAIN Size
    BY DEF Size
  <2> QED
    BY <2>1, NumberYields
<1>2. r = IF u.ok THEN (IF u.v < 0 THEN Err("NegativeLength", u.pos) ELSE Ok(u.v, u.pos))
          ELSE u
  BY DEF read_array_length, Then
<1> HIDE DEF u, r
<1>3. Yields(r, p, Len(in)) /\ (r.ok => r.v \in Nat)
  <2>1. CASE ~ u.ok
    BY <1>1, <1>2, <2>1
  <2>2. CASE u.ok /\ u.v < 0
    BY <1>1, <1>2, <2>2 DEF Err, Yields, ErrorCodes
  <2>3. CASE u.ok /\ ~ (u.v < 0)
    BY <1>1, <1>2, <2>3 DEF Ok, Yields
  <2> QED
    BY <2>1, <2>2, <2>3
<1> QED
  BY <1>3 DEF r

\* A byte is a natural number.
LEMMA ByteNat == \A b \in Byte : b \in Nat
BY DEF Byte

\* A length of two bytes.
LEMMA UnsignedNat ==
  ASSUME NEW b, b[1] \in Byte, b[2] \in Byte
  PROVE  unsigned(b) \in Nat
<1>1. PICK x \in Byte, y \in Byte : b[1] = x /\ b[2] = y
  BY Zenon
<1>2. x \in Nat /\ y \in Nat
  BY ByteNat, Zenon
<1>3. unsigned(b) = x * 256 + y
  BY <1>1, Zenon DEF unsigned
<1>4. x * 256 + y \in Nat
  BY <1>2, SMT
<1> QED
  BY <1>3, <1>4, Zenon

\* The two elements of a sequence of two are in the set the sequence is over.
LEMMA PairOf ==
  ASSUME NEW S, NEW b \in Seq(S), Len(b) = 2
  PROVE  b[1] \in S /\ b[2] \in S
  OBVIOUS

\* What read_string_length returns.
LEMMA StringLengthYields ==
  ASSUME NEW f, NEW in \in Seq(Byte), NEW p \in Offsets(in)
  PROVE  LET r == read_string_length(f, in, p) IN
         Yields(r, p, Len(in)) /\ (r.ok => r.v \in Nat)
<1> DEFINE r == read_string_length(f, in, p)
<1>1. CASE f = "BedrockVarInt"
  <2> DEFINE u == read_uvarint(in, p, 5)
  <2>1. Yields(u, p, Len(in)) /\ (u.ok => u.v \in Seq(Digit) /\ Len(u.v) >= 1)
    BY UvarintYields
  <2>2. r = IF u.ok THEN Ok(as_length(u.v), u.pos) ELSE u
    BY <1>1 DEF read_string_length, Then
  <2> HIDE DEF u, r
  <2>3. u.ok => as_length(u.v) \in Nat
    BY <2>1, DigitsNat
  <2>4. Yields(r, p, Len(in)) /\ (r.ok => r.v \in Nat)
    BY <2>1, <2>2, <2>3 DEF Ok, Yields
  <2> QED
    BY <2>4 DEF r
<1>2. CASE f # "BedrockVarInt"
  <2> DEFINE u == take(in, p, 2, 1)
  <2>1. Yields(u, p, Len(in)) /\ (u.ok => u.v \in Seq(Byte) /\ Len(u.v) = 2)
    <3>1. 2 \in Nat
      OBVIOUS
    <3> QED
      BY <3>1, TakeBytes
  <2>2. r = IF u.ok THEN Ok(unsigned(big_endian(f, u.v)), u.pos) ELSE u
    BY <1>2 DEF read_string_length, Then
  <2> HIDE DEF u, r
  <2>3. u.ok => unsigned(big_endian(f, u.v)) \in Nat
    <3> SUFFICES ASSUME u.ok PROVE unsigned(big_endian(f, u.v)) \in Nat
      OBVIOUS
    <3> DEFINE b == big_endian(f, u.v)
    <3>1. b \in Seq(Byte) /\ Len(b) = 2
      BY <2>1, ReverseBytes
    <3> HIDE DEF b
    <3>2. b[1] \in Byte /\ b[2] \in Byte
      BY <3>1, PairOf, Zenon
    <3>3. unsigned(b) \in Nat
      BY <3>2, UnsignedNat
    <3> QED
      BY <3>3 DEF b
  <2>4. Yields(r, p, Len(in)) /\ (r.ok => r.v \in Nat)
    BY <2>1, <2>2, <2>3 DEF Ok, Yields
  <2> QED
    BY <2>4 DEF r
<1> QED
  BY <1>1, <1>2

\* What read_tag_byte returns; it has taken one byte.
LEMMA TagByteYields ==
  ASSUME NEW in \in Seq(Byte), NEW p \in Offsets(in)
  PROVE  LET r == read_tag_byte(in, p) IN
         /\ Yields(r, p, Len(in))
         /\ r.ok => r.pos = p + 1 /\ (r.v = "End" \/ r.v \in Kinds)
<1> DEFINE u == take(in, p, 1, 1)
           r == read_tag_byte(in, p)
<1>1. /\ Yields(u, p, Len(in))
      /\ u.ok => u.pos = p + 1
  <2>1. 1 \in Nat
    OBVIOUS
  <2> QED
    BY <2>1, TakeBytes
<1>2. r = IF ~ u.ok THEN u
          ELSE IF u.v[1] = 0 THEN Ok("End", u.pos)
          ELSE IF u.v[1] \in DOMAIN TagIds THEN Ok(TagIds[u.v[1]], u.pos)
          ELSE Err("UnknownTagId", u.pos)
  BY DEF read_tag_byte, Then
<1> HIDE DEF u, r
<1>3. /\ Yields(r, p, Len(in))
      /\ r.ok => r.pos = p + 1 /\ (r.v = "End" \/ r.v \in Kinds)
  <2>1. CASE ~ u.ok
    BY <1>1, <1>2, <2>1
  <2>2. CASE u.ok /\ u.v[1] = 0
    BY <1>1, <1>2, <2>2 DEF Ok, Yields
  <2>3. CASE u.ok /\ u.v[1] # 0 /\ u.v[1] \in DOMAIN TagIds
    <3>1. r = Ok(TagIds[u.v[1]], u.pos) /\ TagIds[u.v[1]] \in Kinds
      BY <1>2, <2>3 DEF Kinds
    <3> QED
      BY <1>1, <2>3, <3>1 DEF Ok, Yields
  <2>4. CASE u.ok /\ u.v[1] # 0 /\ u.v[1] \notin DOMAIN TagIds
    BY <1>1, <1>2, <2>4 DEF Err, Yields, ErrorCodes
  <2> QED
    BY <2>1, <2>2, <2>3, <2>4
<1> QED
  BY <1>3 DEF r

\* What skip_string returns.
LEMMA SkipStringYields ==
  ASSUME NEW f, NEW in \in Seq(Byte), NEW p \in Offsets(in)
  PROVE  LET r == skip_string(f, in, p) IN
         Yields(r, p, Len(in)) /\ (r.ok => r.v \in Seq(Byte))
<1> DEFINE u == read_string_length(f, in, p)
           w == take(in, u.pos, u.v, 1)
           r == skip_string(f, in, p)
<1>1. Yields(u, p, Len(in)) /\ (u.ok => u.v \in Nat)
  BY StringLengthYields
<1>2. r = IF u.ok THEN w ELSE u
  BY DEF skip_string, Then
<1>3. p \in Nat /\ Len(in) \in Nat
  BY DEF Offsets
<1>4. u.ok => Yields(w, u.pos, Len(in)) /\ (w.ok => w.v \in Seq(Byte))
  <2> HIDE DEF u
  <2> SUFFICES ASSUME u.ok
               PROVE  Yields(w, u.pos, Len(in)) /\ (w.ok => w.v \in Seq(Byte))
    OBVIOUS
  <2>1. u.pos \in Offsets(in) /\ u.v \in Nat
    BY <1>1, <1>3 DEF Yields, Offsets
  <2> QED
    BY <2>1, TakeBytes
<1> HIDE DEF u, w, r
<1>5. Yields(r, p, Len(in)) /\ (r.ok => r.v \in Seq(Byte))
  <2>1. CASE ~ u.ok
    BY <1>1, <1>2, <2>1
  <2>2. CASE u.ok
    BY <1>1, <1>2, <1>3, <1>4, <2>2 DEF Yields
  <2> QED
    BY <2>1, <2>2
<1> QED
  BY <1>5 DEF r

-----------------------------------------------------------------------------
(* Strings.                                                                *)

\* A record that Ok or Err made, with an error code of Z.
IsResult(r, Z) == \/ r = Ok(r.v, r.pos)
                  \/ r = Err(r.v, r.pos) /\ r.v \in Z

\* A loop fails with an error of one of its rounds.
LEMMA LoopResult ==
  ASSUME NEW n \in Nat, NEW step, Taking(step, n), NEW Z,
         \A p \in 0 .. n : IsResult(step[p], Z)
  PROVE  \A p \in 0 .. n : IsResult(Rounds(step, n + 1, p), Z)
<1>1. PICK f : \A p \in 0 .. n :
                 f[p] = from(step, f, p) /\ Rounds(step, n + 1, p) = f[p]
  BY WholeLoop
<1> DEFINE S == {p \in 0 .. n : IsResult(f[p], Z)}
<1>2. \A p \in 0 .. n : (\A q \in p + 1 .. n : q \in S) => p \in S
  <2> SUFFICES ASSUME NEW p \in 0 .. n, \A q \in p + 1 .. n : q \in S
               PROVE  IsResult(f[p], Z)
    OBVIOUS
  <2> DEFINE x == step[p].v
             q == step[p].pos
  <2>0. f[p] = from(step, f, p)
    BY <1>1
  <2>1. CASE ~ step[p].ok
    <3>1. f[p] = step[p]
      BY <2>0, <2>1 DEF from, Then
    <3> QED
      BY <3>1, Zenon
  <2>2. CASE step[p].ok /\ x = <<>>
    <3>1. f[p] = Ok(<<>>, q)
      BY <2>0, <2>2 DEF from, Then
    <3> HIDE DEF q
    <3> QED
      BY <3>1 DEF IsResult, Ok
  <2>3. CASE step[p].ok /\ x # <<>>
    <3>1. q \in p + 1 .. n
      BY <2>3 DEF Taking
    <3>2. IsResult(f[q], Z)
      BY <3>1
    <3>3. f[p] = Then(f[q], LAMBDA xs, r : Ok(x \o xs, r))
      BY <2>0, <2>3 DEF from, Then
    <3>4. CASE ~ f[q].ok
      <4>1. f[p] = f[q]
        BY <3>3, <3>4 DEF Then
      <4> QED
        BY <3>2, <4>1, Zenon
    <3>5. CASE f[q].ok
      <4>1. f[p] = Ok(x \o f[q].v, f[q].pos)
        BY <3>3, <3>5 DEF Then
      <4> DEFINE v == x \o f[q].v
      <4> HIDE DEF v, q
      <4> QED
        BY <4>1 DEF IsResult, Ok, v
    <3> QED
      BY <3>4, <3>5
  <2> QED
    BY <2>1, <2>2, <2>3
<1>3. \A p \in 0 .. n : p \in S
  <2> HIDE DEF S
  <2> QED
    BY <1>2, FromLater
<1> QED
  BY <1>1, <1>3

\* The transcoder fails with one of its two errors, for a character ...
LEMMA CharResult ==
  ASSUME NEW s, NEW p
  PROVE  IsResult(mutf8_char(s, p), Bad)
<1>1. \A v, q : IsResult(Ok(v, q), Bad)
  BY SMT DEF IsResult, Ok
<1>2. \A q : \A v \in Bad : IsResult(Err(v, q), Bad)
  BY SMT DEF IsResult, Err
<1>3. "InvalidMutf8" \in Bad /\ "UnexpectedEndOfInput" \in Bad
  BY SMT DEF Bad
<1> QED
  BY <1>1, <1>2, <1>3, Zenon DEF mutf8_char

\* ... and for a string.
LEMMA TextResult ==
  ASSUME NEW s \in Seq(Byte)
  PROVE  IsResult(mutf8_to_utf8(s), Bad)
<1> DEFINE n == Len(s)
           D == decoding[s]
<1>1. n \in Nat /\ 0 \in 0 .. n /\ \A p \in 0 .. n : p = n \/ p \in 0 .. n - 1
  BY SMT
<1>2. Taking(D, n)
  BY DecodingChars, CharsTaking, Zenon
<1>3. mutf8_to_utf8(s) = Rounds(D, n + 1, 0)
  BY CharAt, Zenon
<1>4. IsResult(Ok(<<>>, n), Bad)
  BY SMT DEF IsResult, Ok
<1>5. ASSUME NEW p \in 0 .. n PROVE IsResult(D[p], Bad)
  <2>1. CASE p = n
    BY <1>4, <2>1, CharAt, Zenon
  <2>2. CASE p \in 0 .. n - 1
    BY <2>2, CharAt, CharResult, Zenon
  <2> QED
    BY <1>1, <2>1, <2>2, Zenon
<1> HIDE DEF n, D
<1>6. \A p \in 0 .. n : IsResult(Rounds(D, n + 1, p), Bad)
  BY <1>1, <1>2, <1>5, LoopResult
<1>7. IsResult(Rounds(D, n + 1, 0), Bad)
  BY <1>1, <1>6, Zenon
<1> QED
  BY <1>3, <1>7, Zenon

\* read_string puts the cursor past the string, whatever the transcoder says.
Placed(r, p) == [r EXCEPT !.pos = p]

\* What has become of a result that was placed.
OkAt(t, p) == t.ok = TRUE /\ t.pos = p
ErrAt(t, x, p) == t.ok = FALSE /\ t.v = x /\ t.pos = p

\* A success that is placed.
LEMMA PlacedOk ==
  ASSUME NEW x, NEW q, NEW p
  PROVE  OkAt(Placed(Ok(x, q), p), p)
BY DEF Ok, Placed, OkAt

\* A failure that is placed.
LEMMA PlacedErr ==
  ASSUME NEW x, NEW q, NEW p
  PROVE  ErrAt(Placed(Err(x, q), p), x, p)
BY DEF Err, Placed, ErrAt

\* What the transcoder returned, placed.
LEMMA PlacedResult ==
  ASSUME NEW r, IsResult(r, Bad), NEW p
  PROVE  LET t == Placed(r, p) IN
         t.ok \in BOOLEAN /\ t.pos = p /\ (~ t.ok => t.v \in Bad)
<1>1. (\E x, q : r = Ok(x, q)) \/ (\E x, q : r = Err(x, q) /\ x \in Bad)
  BY Zenon DEF IsResult
<1>2. CASE \E x, q : r = Ok(x, q)
  <2>1. OkAt(Placed(r, p), p)
    BY <1>2, PlacedOk, Zenon
  <2> QED
    BY <2>1 DEF OkAt
<1>3. CASE \E x, q : r = Err(x, q) /\ x \in Bad
  <2>1. PICK x \in Bad : ErrAt(Placed(r, p), x, p)
    BY <1>3, PlacedErr, Zenon
  <2> QED
    BY <2>1 DEF ErrAt
<1> QED
  BY <1>1, <1>2, <1>3

\* A string is skipped as it is read, but for what the transcoder refuses.
LEMMA StringSkipped ==
  ASSUME NEW f \in Formats, NEW in \in Seq(Byte), NEW p \in Offsets(in)
  PROVE  Same(f, read_string(f, in, p), skip_string(f, in, p), p, Len(in))
<1> DEFINE s == skip_string(f, in, p)
           d == read_string(f, in, p)
           m == mutf8_to_utf8(s.v)
           t == Placed(m, s.pos)
           n == Len(in)
<1>1. Yields(s, p, n) /\ (s.ok => s.v \in Seq(Byte))
  BY SkipStringYields
<1>2. d = IF ~ s.ok THEN s
          ELSE IF f \in Bedrock \/ is_pure_ascii(s.v) THEN Ok(s.v, s.pos) ELSE t
  BY DEF read_string, Then, Placed
<1>3. s.ok => t.ok \in BOOLEAN /\ t.pos = s.pos /\ (~ t.ok => t.v \in Bad)
  <2> SUFFICES ASSUME s.ok
               PROVE  t.ok \in BOOLEAN /\ t.pos = s.pos /\ (~ t.ok => t.v \in Bad)
    OBVIOUS
  <2>1. IsResult(m, Bad)
    BY <1>1, TextResult
  <2> HIDE DEF m
  <2> QED
    BY <2>1, PlacedResult
<1>4. f \in Java \/ f \in Bedrock
  BY DEF Formats
<1>5. Bad \subseteq ErrorCodes
  BY DEF Bad, ErrorCodes
<1>6. n \in Nat /\ p \in Nat
  BY DEF Offsets
<1> HIDE DEF s, d, m, t, n
<1>7. Same(f, d, s, p, n)
  <2>1. CASE ~ s.ok
    BY <1>1, <1>2, <2>1, SameCall
  <2>2. CASE s.ok /\ (f \in Bedrock \/ is_pure_ascii(s.v))
    <3>1. d = Ok(s.v, s.pos)
      BY <1>2, <2>2
    <3> QED
      BY <1>1, <2>2, <3>1 DEF Same, Yields, Ok
  <2>3. CASE s.ok /\ ~ (f \in Bedrock \/ is_pure_ascii(s.v))
    <3>1. d = t
      BY <1>2, <2>3
    <3>2. t.ok \in BOOLEAN /\ t.pos = s.pos /\ (~ t.ok => t.v \in Bad)
      BY <1>3, <2>3
    <3>3. Yields(t, p, n)
      BY <1>1, <1>5, <3>2 DEF Yields
    <3>4. s.pos <= s.pos
      BY <1>1, <1>6 DEF Yields
    <3> QED
      BY <1>1, <1>4, <2>3, <3>1, <3>2, <3>3, <3>4 DEF Same, FailsLike
  <2> QED
    BY <2>1, <2>2, <2>3
<1> QED
  BY <1>7 DEF s, d, n

-----------------------------------------------------------------------------
(* Loops.                                                                  *)

\* What is returned for a part, once it is wrapped or appended to others.
Keeps(t, r) == IF r.ok THEN t.ok = TRUE /\ t.pos = r.pos ELSE t = r

\* Wrapping keeps the cursor and the error.
LEMMA KeepsYields ==
  ASSUME NEW n, NEW p, NEW r, NEW t, Yields(r, p, n), Keeps(t, r)
  PROVE  Yields(t, p, n)
BY DEF Yields, Keeps

\* Wrapping what is the same for decode and skip.
LEMMA KeepsSame ==
  ASSUME NEW f, NEW n, NEW p, NEW d, NEW s, NEW t, NEW u,
         Same(f, d, s, p, n), Keeps(t, d), Keeps(u, s)
  PROVE  Same(f, t, u, p, n)
<1>1. Yields(t, p, n) /\ Yields(u, p, n)
  BY KeepsYields DEF Same
<1>2. d.ok \in BOOLEAN /\ s.ok \in BOOLEAN
  BY DEF Same, Yields
<1>3. CASE d.ok
  BY <1>1, <1>3 DEF Same, Keeps
<1>4. CASE ~ d.ok
  <2>1. t = d
    BY <1>4 DEF Keeps
  <2>2. FailsLike(f, d, s)
    BY <1>4 DEF Same
  <2>3. FailsLike(f, d, u)
    <3>1. CASE s.ok
      <4>1. u.pos = s.pos
        BY <3>1 DEF Keeps
      <4>2. f \in Java /\ d.v \in Bad /\ d.pos <= s.pos
        BY <2>2, <3>1 DEF FailsLike
      <4> QED
        BY <4>1, <4>2 DEF FailsLike
    <3>2. CASE ~ s.ok
      <4>1. u = s
        BY <3>2 DEF Keeps
      <4> QED
        BY <2>2, <4>1
    <3> QED
      BY <1>2, <3>1, <3>2
  <2> QED
    BY <1>1, <1>4, <2>1, <2>3 DEF Same
<1> QED
  BY <1>2, <1>3, <1>4

\* A loop goes on after a round that yields something, and ends with one that
\* yields nothing.
RoundOf(r, one, later) ==
  IF ~ one.ok THEN r = one
  ELSE IF one.v = <<>> THEN r = Ok(<<>>, one.pos)
  ELSE Keeps(r, later[one.pos])

\* A round of a loop that is not over.
LEMMA RoundIs ==
  ASSUME NEW step, NEW n \in Nat, NEW rest, NEW k \in 0 .. n, k # n, NEW p
  PROVE  RoundOf(round(step, n, rest, k, p), step[p], rest[k + 1])
BY DEF round, Then, Keeps, Ok, RoundOf

\* If decode and skip make the same of every round, they do of the loop.
LEMMA LoopsAgree ==
  ASSUME NEW f, NEW n \in Nat, NEW most \in Nat, NEW D, NEW S,
         DOMAIN D = 0 .. n, DOMAIN S = 0 .. n,
         \A p \in 0 .. n : /\ Same(f, D[p], S[p], p, n)
                           /\ D[p].ok => (D[p].v = <<>> <=> S[p].v = <<>>)
  PROVE  \A p \in 0 .. n : Same(f, Rounds(D, most, p), Rounds(S, most, p), p, n)
<1>1. Closed(D) /\ Closed(S)
  BY DEF Closed, Same, Yields
<1>2. PICK d : /\ \A k \in 0 .. most : \A p \in DOMAIN D :
                    d[k][p] = round(D, most, d, k, p)
               /\ \A p : Rounds(D, most, p) = d[0][p]
  BY <1>1, RoundsAre
<1>3. PICK s : /\ \A k \in 0 .. most : \A p \in DOMAIN S :
                    s[k][p] = round(S, most, s, k, p)
               /\ \A p : Rounds(S, most, p) = s[0][p]
  BY <1>1, RoundsAre
<1> DEFINE G == {k \in 0 .. most : \A p \in 0 .. n : Same(f, d[k][p], s[k][p], p, n)}
<1>4. most \in G
  <2> SUFFICES ASSUME NEW p \in 0 .. n
               PROVE  Same(f, d[most][p], s[most][p], p, n)
    OBVIOUS
  <2>1. d[most][p] = Ok(<<>>, p) /\ s[most][p] = Ok(<<>>, p)
    <3>1. most \in 0 .. most
      OBVIOUS
    <3> QED
      BY <1>2, <1>3, <3>1 DEF round
  <2>2. p \in p .. n
    OBVIOUS
  <2> QED
    BY <2>1, <2>2 DEF Same, Yields, Ok
<1>5. \A k \in 0 .. most : k # most /\ k + 1 \in G => k \in G
  <2> SUFFICES ASSUME NEW k \in 0 .. most, k # most, k + 1 \in G, NEW p \in 0 .. n
               PROVE  Same(f, d[k][p], s[k][p], p, n)
    OBVIOUS
  <2>0. \A q \in 0 .. n : Same(f, d[k + 1][q], s[k + 1][q], q, n)
    OBVIOUS
  <2> HIDE DEF G
  <2> DEFINE x == D[p]
             y == S[p]
             d2 == d[k][p]
             s2 == s[k][p]
  <2>1. RoundOf(d2, x, d[k + 1])
    <3>1. d2 = round(D, most, d, k, p)
      BY <1>2
    <3>2. RoundOf(round(D, most, d, k, p), D[p], d[k + 1])
      BY RoundIs
    <3> QED
      BY <3>1, <3>2
  <2>2. RoundOf(s2, y, s[k + 1])
    <3>1. s2 = round(S, most, s, k, p)
      BY <1>3
    <3>2. RoundOf(round(S, most, s, k, p), S[p], s[k + 1])
      BY RoundIs
    <3> QED
      BY <3>1, <3>2
  <2>3. Same(f, x, y, p, n) /\ (x.ok => (x.v = <<>> <=> y.v = <<>>))
    OBVIOUS
  <2> HIDE DEF x, y, d2, s2
  <2>4. /\ x.ok \in BOOLEAN /\ y.ok \in BOOLEAN
        /\ x.pos \in 0 .. n /\ y.pos \in 0 .. n
        /\ x.pos \in x.pos .. n /\ y.pos \in y.pos .. n
    BY <2>3 DEF Same, Yields
  <2>5. ASSUME y.ok PROVE Yields(s2, y.pos, n)
    <3>1. CASE y.v = <<>>
      <4>1. s2 = Ok(<<>>, y.pos)
        BY <2>2, <2>5, <3>1 DEF RoundOf
      <4> QED
        BY <2>4, <4>1 DEF Ok, Yields
    <3>2. CASE y.v # <<>>
      <4>1. Keeps(s2, s[k + 1][y.pos])
        BY <2>2, <2>5, <3>2 DEF RoundOf
      <4>2. Yields(s[k + 1][y.pos], y.pos, n)
        BY <2>0, <2>4 DEF Same
      <4> QED
        BY <4>1, <4>2, KeepsYields
    <3> QED
      BY <3>1, <3>2
  <2>6. ASSUME x.ok PROVE Same(f, d2, s2, x.pos, n)
    <3>1. y.ok /\ y.pos = x.pos
      BY <2>3, <2>6 DEF Same
    <3>2. CASE x.v = <<>>
      <4>1. d2 = Ok(<<>>, x.pos) /\ s2 = Ok(<<>>, x.pos)
        BY <2>1, <2>2, <2>3, <2>6, <3>1, <3>2 DEF RoundOf
      <4> QED
        BY <2>4, <4>1 DEF Same, Yields, Ok
    <3>3. CASE x.v # <<>>
      <4>1. Keeps(d2, d[k + 1][x.pos]) /\ Keeps(s2, s[k + 1][x.pos])
        BY <2>1, <2>2, <2>3, <2>6, <3>1, <3>3 DEF RoundOf
      <4>2. Same(f, d[k + 1][x.pos], s[k + 1][x.pos], x.pos, n)
        BY <2>0, <2>4
      <4> QED
        BY <4>1, <4>2, KeepsSame
    <3> QED
      BY <3>2, <3>3
  <2>7. Same(f, d2, s2, p, n)
    <3>1. ~ x.ok => d2 = x
      BY <2>1 DEF RoundOf
    <3>2. ~ y.ok => s2 = y
      BY <2>2 DEF RoundOf
    <3> QED
      BY <2>3, <2>5, <2>6, <3>1, <3>2, Chain
  <2> QED
    BY <2>7 DEF d2, s2
<1>6. \A k \in 0 .. most : k \in G
  <2> HIDE DEF G
  <2> QED
    BY <1>4, <1>5, Downward
<1>7. 0 \in 0 .. most
  OBVIOUS
<1> QED
  BY <1>2, <1>3, <1>6, <1>7

\* r is the reading of m bytes at p, when there are so many.
ReadsAll(r, p, m, n) ==
  /\ Yields(r, p, n)
  /\ r.ok <=> p + m <= n
  /\ r.ok => r.pos = p + m
  /\ ~ r.ok => r.v = "UnexpectedEndOfInput"

\* One more item of a size.
LEMMA OneMore ==
  ASSUME NEW size \in {1, 2, 4, 8}, NEW j \in Nat
  PROVE  j * size \in Nat /\ (j + 1) * size = size + j * size
<1>1. CASE size = 1
  BY <1>1
<1>2. CASE size = 2
  BY <1>2
<1>3. CASE size = 4
  BY <1>3
<1>4. CASE size = 8
  BY <1>4
<1> QED
  BY <1>1, <1>2, <1>3, <1>4

\* An array of numbers of one size is read when all its bytes are there.
LEMMA SizedLoop ==
  ASSUME NEW N \in Nat, NEW size \in {1, 2, 4, 8}, NEW n \in Nat, NEW step,
         DOMAIN step = 0 .. N,
         \A p \in 0 .. N : ReadsAll(step[p], p, size, N),
         \A p \in 0 .. N : step[p].ok => step[p].v # <<>>
  PROVE  \A p \in 0 .. N : ReadsAll(Rounds(step, n, p), p, n * size, N)
<1>1. Closed(step)
  BY DEF Closed, ReadsAll, Yields
<1>2. PICK f : /\ \A k \in 0 .. n : \A p \in DOMAIN step :
                    f[k][p] = round(step, n, f, k, p)
               /\ \A p : Rounds(step, n, p) = f[0][p]
  BY <1>1, RoundsAre
<1> DEFINE G == {k \in 0 .. n : \A p \in 0 .. N :
                   ReadsAll(f[k][p], p, (n - k) * size, N)}
<1>3. n \in G
  <2> SUFFICES ASSUME NEW p \in 0 .. N
               PROVE  ReadsAll(f[n][p], p, (n - n) * size, N)
    OBVIOUS
  <2>1. f[n][p] = Ok(<<>>, p)
    <3>1. n \in 0 .. n
      OBVIOUS
    <3> QED
      BY <1>2, <3>1 DEF round
  <2>2. (n - n) * size = 0
    OBVIOUS
  <2> QED
    BY <2>1, <2>2 DEF Ok, ReadsAll, Yields
<1>4. \A k \in 0 .. n : k # n /\ k + 1 \in G => k \in G
  <2> SUFFICES ASSUME NEW k \in 0 .. n, k # n, k + 1 \in G, NEW p \in 0 .. N
               PROVE  ReadsAll(f[k][p], p, (n - k) * size, N)
    OBVIOUS
  <2> DEFINE m == (n - (k + 1)) * size
             l == (n - k) * size
             x == step[p]
             r == f[k][p]
             later == f[k + 1]
  <2>0. \A q \in 0 .. N : ReadsAll(later[q], q, m, N)
    OBVIOUS
  <2> HIDE DEF G
  <2>1. m \in Nat /\ l = size + m
    <3>1. n - (k + 1) \in Nat /\ (n - (k + 1)) + 1 = n - k
      OBVIOUS
    <3> QED
      BY <3>1, OneMore
  <2>2. RoundOf(r, x, later)
    <3>1. r = round(step, n, f, k, p)
      BY <1>2
    <3>2. RoundOf(round(step, n, f, k, p), step[p], f[k + 1])
      BY RoundIs
    <3> QED
      BY <3>1, <3>2
  <2>3. ReadsAll(x, p, size, N) /\ (x.ok => x.v # <<>>)
    OBVIOUS
  <2> HIDE DEF m, l, x, r, later
  <2>4. size \in Nat
    OBVIOUS
  <2>5. CASE ~ x.ok
    <3>1. r = x
      BY <2>2, <2>5 DEF RoundOf
    <3> QED
      BY <2>1, <2>3, <2>4, <2>5, <3>1 DEF ReadsAll, l, r
  <2>6. CASE x.ok
    <3> DEFINE q == x.pos
               t == later[q]
    <3>1. Keeps(r, t)
      BY <2>2, <2>3, <2>6 DEF RoundOf
    <3>2. q = p + size /\ q \in 0 .. N
      BY <2>3, <2>6 DEF ReadsAll, Yields
    <3>3. ReadsAll(t, q, m, N)
      BY <2>0, <3>2
    <3> HIDE DEF q, t
    <3>4. Yields(r, q, N)
      BY <3>1, <3>3, KeepsYields DEF ReadsAll
    <3>5. Yields(r, p, N)
      BY <2>4, <3>2, <3>4 DEF Yields
    <3>6. p + l = q + m
      BY <2>1, <2>4, <3>2
    <3>7. r.ok = t.ok /\ (t.ok => r.pos = t.pos) /\ (~ t.ok => r.v = t.v)
      BY <3>1, <3>3 DEF Keeps, ReadsAll, Yields
    <3>8. ReadsAll(r, p, l, N)
      BY <3>3, <3>5, <3>6, <3>7 DEF ReadsAll
    <3> QED
      BY <3>8 DEF r, l
  <2> QED
    BY <2>5, <2>6
<1>5. \A k \in 0 .. n : k \in G
  <2> HIDE DEF G
  <2> QED
    BY <1>3, <1>4, Downward
<1>6. 0 \in 0 .. n /\ n - 0 = n
  OBVIOUS
<1> QED
  BY <1>2, <1>5, <1>6

-----------------------------------------------------------------------------
(* Arrays, lists and compounds.                                            *)

\* An array of numbers of one size is read when all its bytes are there ...
LEMMA ArrayRead ==
  ASSUME NEW f, NEW in \in Seq(Byte), NEW kind \in DOMAIN Size, NEW n \in Nat,
         NEW p \in Offsets(in), ~ IsVarInt(f, kind)
  PROVE  ReadsAll(decode_array(f, in, p, kind, n), p, n * Size[kind], Len(in))
<1> DEFINE step == [q \in Offsets(in) |->
                      Then(read_number(f, in, q, kind), LAMBDA x, r : Ok(<<x>>, r))]
           N == Len(in)
           size == Size[kind]
<1>1. decode_array(f, in, p, kind, n) = Rounds(step, n, p)
  BY Zenon DEF decode_array
<1>2. N \in Nat /\ Offsets(in) = 0 .. N
  BY DEF Offsets
<1>3. size \in {1, 2, 4, 8}
  BY DEF Size
<1>4. ASSUME NEW q \in Offsets(in)
      PROVE  ReadsAll(step[q], q, size, N) /\ (step[q].ok => step[q].v # <<>>)
  <2> DEFINE r == read_number(f, in, q, kind)
             t == step[q]
  <2>1. ReadsAll(r, q, size, N)
    BY NumberYields DEF ReadsAll
  <2>2. t = IF r.ok THEN Ok(<<r.v>>, r.pos) ELSE r
    BY DEF Then
  <2> HIDE DEF r, t, size, N
  <2>3. ReadsAll(t, q, size, N) /\ (t.ok => t.v # <<>>)
    <3>1. CASE r.ok
      BY <2>1, <2>2, <3>1 DEF ReadsAll, Yields, Ok
    <3>2. CASE ~ r.ok
      BY <2>1, <2>2, <3>2
    <3> QED
      BY <3>1, <3>2
  <2> QED
    BY <2>3 DEF t
<1>5. DOMAIN step = Offsets(in)
  OBVIOUS
<1> HIDE DEF step, N, size
<1>6. \A q \in 0 .. N : ReadsAll(Rounds(step, n, q), q, n * size, N)
  BY <1>2, <1>3, <1>4, <1>5, SizedLoop
<1> QED
  BY <1>1, <1>2, <1>6 DEF N, size

\* ... and an array of VarInts is skipped as it is read.
LEMMA ArraySkipped ==
  ASSUME NEW f, NEW in \in Seq(Byte), NEW kind \in DOMAIN Size, NEW n \in Nat,
         NEW p \in Offsets(in)
  PROVE  Same(f, decode_array(f, in, p, kind, n),
              skip_each(in, p, n, [q \in Offsets(in) |->
                                     skip_number(f, in, q, kind)]), p, Len(in))
<1> DEFINE each == [q \in Offsets(in) |-> skip_number(f, in, q, kind)]
           D == [q \in Offsets(in) |->
                   Then(read_number(f, in, q, kind), LAMBDA x, r : Ok(<<x>>, r))]
           S == [q \in Offsets(in) |->
                   Then(each[q], LAMBDA x, r : Ok(<<"skipped">>, r))]
           N == Len(in)
<1>1. decode_array(f, in, p, kind, n) = Rounds(D, n, p)
  BY Zenon DEF decode_array
<1>2. skip_each(in, p, n, each) = Rounds(S, n, p)
  BY Zenon DEF skip_each
<1>3. N \in Nat /\ Offsets(in) = 0 .. N
  BY DEF Offsets
<1>4. ASSUME NEW q \in Offsets(in)
      PROVE  Same(f, D[q], S[q], q, N) /\ (D[q].ok => (D[q].v = <<>> <=> S[q].v = <<>>))
  <2> DEFINE x == read_number(f, in, q, kind)
             y == skip_number(f, in, q, kind)
             d == D[q]
             s == S[q]
  <2>1. Same(f, x, y, q, N)
    BY NumberSkipped
  <2>2. d = IF x.ok THEN Ok(<<x.v>>, x.pos) ELSE x
    BY DEF Then
  <2>3. s = IF y.ok THEN Ok(<<"skipped">>, y.pos) ELSE y
    BY DEF Then
  <2> HIDE DEF x, y, d, s, N
  <2>4. Keeps(d, x) /\ Keeps(s, y)
    BY <2>2, <2>3 DEF Keeps, Ok
  <2>5. Same(f, d, s, q, N)
    BY <2>1, <2>4, KeepsSame
  <2>6. d.ok => d.v # <<>>
    BY <2>1, <2>2 DEF Ok
  <2>7. d.ok => s.v # <<>>
    <3>1. d.ok => x.ok
      BY <2>2
    <3>2. x.ok => y.ok
      BY <2>1 DEF Same
    <3> QED
      BY <2>3, <3>1, <3>2 DEF Ok
  <2> QED
    BY <2>5, <2>6, <2>7 DEF d, s
<1>5. DOMAIN D = Offsets(in) /\ DOMAIN S = Offsets(in)
  OBVIOUS
<1> HIDE DEF D, S, N
<1>6. \A q \in 0 .. N : Same(f, Rounds(D, n, q), Rounds(S, n, q), q, N)
  BY <1>3, <1>4, <1>5, LoopsAgree
<1> QED
  BY <1>1, <1>2, <1>3, <1>6 DEF N

\* Two readings of as many bytes are the same.
LEMMA TwoReadings ==
  ASSUME NEW f, NEW n, NEW p, NEW m, NEW d, NEW s,
         ReadsAll(d, p, m, n), ReadsAll(s, p, m, n)
  PROVE  Same(f, d, s, p, n)
BY DEF ReadsAll, Same, FailsLike

\* A reading that is wrapped.
LEMMA ReadingThen ==
  ASSUME NEW n, NEW p, NEW m, NEW d, NEW t,
         ReadsAll(d, p, m, n), Keeps(t, d)
  PROVE  ReadsAll(t, p, m, n)
BY DEF ReadsAll, Keeps, Yields

\* What the arrays are made of.
LEMMA ElemSize ==
  \A kind \in DOMAIN Elem :
    /\ Elem[kind] \in DOMAIN Size
    /\ kind = "ByteArray" => Elem[kind] = "Byte" /\ Size[Elem[kind]] = 1
    /\ kind \in {"ByteArray", "IntArray", "LongArray"}
BY DEF Elem, Size

\* What an array payload is, and the stepping over it.
LEMMA ArrayPayloadSkipped ==
  ASSUME NEW f, NEW in \in Seq(Byte), NEW kind \in DOMAIN Elem,
         NEW p \in Offsets(in)
  PROVE  Same(f, decode_array_payload(f, in, p, kind),
              skip_array(f, in, p, kind), p, Len(in))
<1> DEFINE e == Elem[kind]
           a == read_array_length(f, in, p)
           n == a.v
           q == a.pos
           N == Len(in)
           t == IF kind = "ByteArray" THEN take(in, q, n, 1) ELSE Ok(<<>>, q)
           arr == decode_array(f, in, q, e, n)
           d2 == IF ~ t.ok THEN t
                 ELSE IF arr.ok THEN Ok(<<kind, arr.v>>, arr.pos) ELSE arr
           over == skip_each(in, q, n, [r \in Offsets(in) |-> skip_number(f, in, r, e)])
           tk == take(in, q, n, Size[e])
           s2 == IF IsVarInt(f, e) THEN over ELSE tk
           d == decode_array_payload(f, in, p, kind)
           s == skip_array(f, in, p, kind)
<1>1. Yields(a, p, N) /\ (a.ok => n \in Nat)
  BY ArrayLengthYields
<1>2. d = IF a.ok THEN d2 ELSE a
  BY DEF decode_array_payload, Then
<1>3. s = IF a.ok THEN s2 ELSE a
  BY DEF skip_array, Then
<1>4. N \in Nat /\ p \in 0 .. N /\ Offsets(in) = 0 .. N
  BY DEF Offsets
<1>5. e \in DOMAIN Size /\ (kind = "ByteArray" => e = "Byte" /\ Size[e] = 1)
  BY ElemSize
<1>6. ASSUME a.ok PROVE Same(f, d2, s2, q, N)
  <2>0. n \in Nat /\ q \in Offsets(in)
    <3> HIDE DEF a, N
    <3> QED
      BY <1>1, <1>4, <1>6 DEF Yields
  <2>1. Same(f, arr, over, q, N)
    <3> HIDE DEF n, q, e, a
    <3> QED
      BY <1>5, <2>0, ArraySkipped
  <2>2. CASE IsVarInt(f, e)
    <3>1. kind # "ByteArray"
      BY <1>5, <2>2 DEF IsVarInt
    <3>2. t = Ok(<<>>, q) /\ s2 = over
      BY <2>2, <3>1
    <3>3. d2 = IF arr.ok THEN Ok(<<kind, arr.v>>, arr.pos) ELSE arr
      BY <3>2 DEF Ok
    <3> HIDE DEF arr, over, d2, s2, q, N
    <3>4. Keeps(d2, arr) /\ Keeps(s2, over)
      BY <3>2, <3>3 DEF Keeps, Ok
    <3> QED
      BY <2>1, <3>4, KeepsSame
  <2>3. CASE ~ IsVarInt(f, e)
    <3> DEFINE m == n * Size[e]
    <3>1. ReadsAll(arr, q, m, N)
      <4> HIDE DEF n, q, e, a
      <4> QED
        BY <1>5, <2>0, <2>3, ArrayRead
    <3>2. m \in Nat /\ Spans(m, n, Size[e]) /\ Size[e] \in {1, 2, 4, 8}
      <4>1. Size[e] \in {1, 2, 4, 8}
        <5> HIDE DEF e
        <5> QED
          BY <1>5 DEF Size
      <4> HIDE DEF n, e, a
      <4> QED
        BY <2>0, <4>1, OneMore DEF Spans
    <3>3. ReadsAll(tk, q, m, N)
      <4> HIDE DEF m, n, q, e, a
      <4> QED
        BY <2>0, <3>2, TakeYields DEF ReadsAll
    <3>4. CASE kind = "ByteArray"
      <4>1. t = tk
        BY <1>5, <3>4
      <4>2. s2 = tk
        BY <2>3
      <4>3. d2 = IF ~ tk.ok THEN tk
                 ELSE IF arr.ok THEN Ok(<<kind, arr.v>>, arr.pos) ELSE arr
        BY <4>1
      <4> HIDE DEF t, tk, arr, d2, s2, q, N, m
      <4>4. ReadsAll(d2, q, m, N)
        BY <3>1, <3>3, <4>3 DEF ReadsAll, Ok, Yields
      <4> QED
        BY <3>3, <4>2, <4>4, TwoReadings
    <3>5. CASE kind # "ByteArray"
      <4>1. t = Ok(<<>>, q)
        BY <3>5
      <4>2. s2 = tk
        BY <2>3
      <4>3. d2 = IF arr.ok THEN Ok(<<kind, arr.v>>, arr.pos) ELSE arr
        BY <4>1 DEF Ok
      <4> HIDE DEF t, tk, arr, d2, s2, q, N, m
      <4>4. Keeps(d2, arr)
        BY <4>3 DEF Keeps, Ok
      <4>5. ReadsAll(d2, q, m, N)
        BY <3>1, <4>4, ReadingThen
      <4> QED
        BY <3>3, <4>2, <4>5, TwoReadings
    <3> QED
      BY <3>4, <3>5
  <2> QED
    BY <2>2, <2>3
<1> HIDE DEF a, q, d2, s2, d, s, N, n
<1>7. Same(f, a, a, p, N)
  BY <1>1, SameCall
<1>8. a.ok => Yields(s2, a.pos, N)
  BY <1>6 DEF Same, q
<1>9. Same(f, d, s, p, N)
  <2>1. a.ok => Same(f, d, s, a.pos, N)
    BY <1>2, <1>3, <1>6 DEF q
  <2>2. a.ok => Yields(s, a.pos, N)
    BY <1>3, <1>8
  <2>3. ~ a.ok => d = a /\ s = a
    BY <1>2, <1>3
  <2> QED
    BY <1>4, <1>7, <2>1, <2>2, <2>3, Chain
<1> QED
  BY <1>9 DEF d, s, N

\* What decode and skip make of the payloads of one level.
Agree(f, in, I, J) ==
  \A kind \in Kinds : \A p \in Offsets(in) :
    /\ Same(f, I[kind][p], J[kind][p], p, Len(in))
    /\ I[kind][p].ok => I[kind][p].v[1] = kind

\* The elements of a list.
LEMMA EachSkipped ==
  ASSUME NEW f, NEW in \in Seq(Byte), NEW n \in Nat, NEW p \in Offsets(in),
         NEW element, NEW each,
         \A q \in Offsets(in) : Same(f, element[q], each[q], q, Len(in))
  PROVE  Same(f, decode_list(in, p, n, element), skip_each(in, p, n, each),
              p, Len(in))
<1> DEFINE D == [q \in Offsets(in) |->
                   Then(element[q], LAMBDA x, r : Ok(<<x>>, r))]
           S == [q \in Offsets(in) |->
                   Then(each[q], LAMBDA x, r : Ok(<<"skipped">>, r))]
           N == Len(in)
<1>1. decode_list(in, p, n, element) = Rounds(D, n, p)
  BY Zenon DEF decode_list
<1>2. skip_each(in, p, n, each) = Rounds(S, n, p)
  BY Zenon DEF skip_each
<1>3. N \in Nat /\ Offsets(in) = 0 .. N
  BY DEF Offsets
<1>4. ASSUME NEW q \in Offsets(in)
      PROVE  Same(f, D[q], S[q], q, N) /\ (D[q].ok => (D[q].v = <<>> <=> S[q].v = <<>>))
  <2> DEFINE x == element[q]
             y == each[q]
             d == D[q]
             s == S[q]
  <2>1. Same(f, x, y, q, N)
    OBVIOUS
  <2>2. d = IF x.ok THEN Ok(<<x.v>>, x.pos) ELSE x
    BY DEF Then
  <2>3. s = IF y.ok THEN Ok(<<"skipped">>, y.pos) ELSE y
    BY DEF Then
  <2> HIDE DEF x, y, d, s, N
  <2>4. Keeps(d, x) /\ Keeps(s, y)
    BY <2>2, <2>3 DEF Keeps, Ok
  <2>5. Same(f, d, s, q, N)
    BY <2>1, <2>4, KeepsSame
  <2>6. d.ok => d.v # <<>>
    BY <2>1, <2>2 DEF Ok
  <2>7. d.ok => s.v # <<>>
    <3>1. d.ok => x.ok
      BY <2>2
    <3>2. x.ok => y.ok
      BY <2>1 DEF Same
    <3> QED
      BY <2>3, <3>1, <3>2 DEF Ok
  <2> QED
    BY <2>5, <2>6, <2>7 DEF d, s
<1>5. DOMAIN D = Offsets(in) /\ DOMAIN S = Offsets(in)
  OBVIOUS
<1> HIDE DEF D, S, N
<1>6. \A q \in 0 .. N : Same(f, Rounds(D, n, q), Rounds(S, n, q), q, N)
  BY <1>3, <1>4, <1>5, LoopsAgree
<1> QED
  BY <1>1, <1>2, <1>3, <1>6 DEF N

\* A list.
LEMMA ListSkipped ==
  ASSUME NEW f, NEW in \in Seq(Byte), NEW p \in Offsets(in), NEW I, NEW J,
         Agree(f, in, I, J)
  PROVE  Same(f, decode_list_payload(f, in, p, I), skip_list(f, in, p, J),
              p, Len(in))
<1> DEFINE t == read_tag_byte(in, p)
           a == read_array_length(f, in, t.pos)
           n == a.v
           q == a.pos
           N == Len(in)
           xs == IF t.v = "End" THEN Ok(<<>>, q) ELSE decode_list(in, q, n, I[t.v])
           ys == IF t.v = "End" THEN Ok(<<>>, q) ELSE skip_each(in, q, n, J[t.v])
           x3 == IF xs.ok THEN Ok(<<"List", xs.v>>, xs.pos) ELSE xs
           d2 == IF a.ok THEN x3 ELSE a
           s2 == IF a.ok THEN ys ELSE a
           d == decode_list_payload(f, in, p, I)
           s == skip_list(f, in, p, J)
<1>1. d = IF t.ok THEN d2 ELSE t
  BY DEF decode_list_payload, Then
<1>2. s = IF t.ok THEN s2 ELSE t
  BY DEF skip_list, Then
<1>3. N \in Nat /\ p \in 0 .. N /\ Offsets(in) = 0 .. N
  BY DEF Offsets
<1>4. Yields(t, p, N) /\ (t.ok => t.v = "End" \/ t.v \in Kinds)
  BY TagByteYields
<1>5. ASSUME t.ok PROVE Same(f, d2, s2, t.pos, N)
  <2>1. t.pos \in Offsets(in)
    <3> HIDE DEF t, N
    <3> QED
      BY <1>3, <1>4, <1>5 DEF Yields
  <2>2. Yields(a, t.pos, N) /\ (a.ok => n \in Nat)
    <3> HIDE DEF t
    <3> QED
      BY <2>1, ArrayLengthYields
  <2>3. ASSUME a.ok PROVE Same(f, xs, ys, q, N)
    <3>1. n \in Nat /\ q \in Offsets(in) /\ q \in q .. N
      <4> HIDE DEF a, t, N
      <4> QED
        BY <1>3, <2>1, <2>2, <2>3 DEF Yields
    <3>2. CASE t.v = "End"
      <4>1. xs = Ok(<<>>, q) /\ ys = Ok(<<>>, q)
        BY <3>2
      <4> HIDE DEF xs, ys, q, N
      <4> QED
        BY <3>1, <4>1 DEF Same, Yields, Ok
    <3>3. CASE t.v # "End"
      <4>1. xs = decode_list(in, q, n, I[t.v]) /\ ys = skip_each(in, q, n, J[t.v])
        BY <3>3
      <4>2. t.v \in Kinds
        BY <1>4, <1>5, <3>3
      <4> HIDE DEF xs, ys, q, n, t
      <4>3. \A r \in Offsets(in) : Same(f, I[t.v][r], J[t.v][r], r, Len(in))
        BY <4>2 DEF Agree
      <4> QED
        BY <3>1, <4>1, <4>3, EachSkipped
    <3> QED
      BY <3>2, <3>3
  <2>4. Keeps(x3, xs) /\ Keeps(ys, ys)
    <3> HIDE DEF xs, ys
    <3> QED
      BY DEF Keeps, Ok
  <2> HIDE DEF t, a, q, n, xs, ys, x3, d2, s2, N
  <2>5. a.ok => Same(f, x3, ys, a.pos, N)
    BY <2>3, <2>4, KeepsSame DEF q
  <2>6. Same(f, a, a, t.pos, N)
    BY <2>2, SameCall
  <2>7. a.ok => Same(f, d2, s2, a.pos, N)
    BY <2>5 DEF d2, s2
  <2>8. a.ok => Yields(s2, a.pos, N)
    BY <2>7 DEF Same
  <2>9. ~ a.ok => d2 = a /\ s2 = a
    BY DEF d2, s2
  <2> QED
    BY <1>3, <2>1, <2>6, <2>7, <2>8, <2>9, Chain
<1> HIDE DEF t, d2, s2, d, s, N
<1>6. Same(f, t, t, p, N)
  BY <1>4, SameCall
<1>7. t.ok => Same(f, d, s, t.pos, N)
  BY <1>1, <1>2, <1>5
<1>8. t.ok => Yields(s, t.pos, N)
  BY <1>7 DEF Same
<1>9. ~ t.ok => d = t /\ s = t
  BY <1>1, <1>2
<1>10. Same(f, d, s, p, N)
  BY <1>3, <1>6, <1>7, <1>8, <1>9, Chain
<1> QED
  BY <1>10 DEF d, s, N

\* An entry of a compound, or its end.
LEMMA EntrySkipped ==
  ASSUME NEW f \in Formats, NEW in \in Seq(Byte), NEW p \in Offsets(in),
         NEW I, NEW J, Agree(f, in, I, J)
  PROVE  LET d == decode_entry(f, in, p, I)
             s == skip_entry(f, in, p, J)
         IN  /\ Same(f, d, s, p, Len(in))
             /\ d.ok => (d.v = <<>> <=> s.v = <<>>)
<1> DEFINE t == read_tag_byte(in, p)
           nm == read_string(f, in, t.pos)
           sk == skip_string(f, in, t.pos)
           N == Len(in)
           x == I[t.v][nm.pos]
           y == J[t.v][sk.pos]
           d3 == IF x.ok THEN Ok(<< <<nm.v, x.v>> >>, x.pos) ELSE x
           s3 == IF y.ok THEN Ok(<<"skipped">>, y.pos) ELSE y
           d2 == IF nm.ok THEN d3 ELSE nm
           s2 == IF sk.ok THEN s3 ELSE sk
           d == decode_entry(f, in, p, I)
           s == skip_entry(f, in, p, J)
<1>1. d = IF ~ t.ok THEN t ELSE IF t.v = "End" THEN Ok(<<>>, t.pos) ELSE d2
  BY DEF decode_entry, Then
<1>2. s = IF ~ t.ok THEN t ELSE IF t.v = "End" THEN Ok(<<>>, t.pos) ELSE s2
  BY DEF skip_entry, Then
<1>3. N \in Nat /\ p \in 0 .. N /\ Offsets(in) = 0 .. N
  BY DEF Offsets
<1>4. Yields(t, p, N) /\ (t.ok => t.v = "End" \/ t.v \in Kinds)
  BY TagByteYields
<1>5. ASSUME t.ok, t.v # "End"
      PROVE  Same(f, d2, s2, t.pos, N) /\ (d2.ok => d2.v # <<>> /\ s2.v # <<>>)
  <2>1. t.pos \in Offsets(in) /\ t.v \in Kinds
    <3> HIDE DEF t, N
    <3> QED
      BY <1>3, <1>4, <1>5 DEF Yields
  <2>2. Same(f, nm, sk, t.pos, N)
    <3> HIDE DEF t
    <3> QED
      BY <2>1, StringSkipped
  <2>3. ASSUME NEW q \in Offsets(in) PROVE Same(f, I[t.v][q], J[t.v][q], q, N)
    <3> HIDE DEF t
    <3> QED
      BY <2>1 DEF Agree
  <2> HIDE DEF nm, sk, t
  <2>4. (nm.ok => nm.pos \in Offsets(in)) /\ (sk.ok => sk.pos \in Offsets(in))
    <3> HIDE DEF N
    <3> QED
      BY <1>3, <2>1, <2>2 DEF Same, Yields
  <2>5. nm.ok => sk.ok /\ sk.pos = nm.pos
    BY <2>2 DEF Same
  <2>6. nm.ok => Same(f, x, y, nm.pos, N)
    BY <2>3, <2>4, <2>5
  <2>7. sk.ok => Yields(y, sk.pos, N)
    BY <2>3, <2>4 DEF Same
  <2> HIDE DEF x, y, N
  <2>8. Keeps(d3, x) /\ Keeps(s3, y)
    BY DEF Keeps, Ok
  <2>9. (d3.ok => x.ok /\ d3.v # <<>>) /\ (y.ok => s3.v # <<>>)
    BY DEF Ok
  <2> HIDE DEF d3, s3
  <2>10. nm.ok => Same(f, d2, s2, nm.pos, N)
    BY <2>5, <2>6, <2>8, KeepsSame
  <2>11. sk.ok => Yields(s2, sk.pos, N)
    BY <2>7, <2>8, KeepsYields
  <2>12. Same(f, d2, s2, t.pos, N)
    <3> HIDE DEF d2, s2
    <3>1. (~ nm.ok => d2 = nm) /\ (~ sk.ok => s2 = sk)
      BY DEF d2, s2
    <3> QED
      BY <1>3, <2>1, <2>2, <2>10, <2>11, <3>1, Chain
  <2>13. ASSUME d2.ok PROVE d2.v # <<>> /\ s2.v # <<>>
    <3>1. nm.ok
      BY <2>13
    <3>2. d2 = d3 /\ s2 = s3
      BY <2>5, <3>1
    <3>3. x.ok /\ d2.v # <<>>
      BY <2>9, <2>13, <3>2
    <3>4. y.ok
      BY <2>6, <3>1, <3>3 DEF Same
    <3> QED
      BY <2>9, <3>2, <3>3, <3>4
  <2> QED
    BY <2>12, <2>13
<1> HIDE DEF t, d2, s2, d, s, N
<1>6. Same(f, t, t, p, N)
  BY <1>4, SameCall
<1>7. ASSUME t.ok
      PROVE  Same(f, d, s, t.pos, N) /\ (d.ok => (d.v = <<>> <=> s.v = <<>>))
  <2>1. CASE t.v = "End"
    <3>1. d = Ok(<<>>, t.pos) /\ s = Ok(<<>>, t.pos)
      BY <1>1, <1>2, <1>7, <2>1
    <3>2. t.pos \in t.pos .. N
      BY <1>3, <1>4 DEF Yields
    <3> QED
      BY <3>1, <3>2 DEF Same, Yields, Ok
  <2>2. CASE t.v # "End"
    <3>1. d = d2 /\ s = s2
      BY <1>1, <1>2, <1>7, <2>2
    <3> QED
      BY <1>5, <1>7, <2>2, <3>1
  <2> QED
    BY <2>1, <2>2
<1>8. t.ok => Yields(s, t.pos, N)
  BY <1>7 DEF Same
<1>9. ~ t.ok => d = t /\ s = t
  BY <1>1, <1>2
<1>10. Same(f, d, s, p, N)
  BY <1>3, <1>6, <1>7, <1>8, <1>9, Chain
<1>11. d.ok => (d.v = <<>> <=> s.v = <<>>)
  BY <1>7, <1>9
<1> QED
  BY <1>10, <1>11 DEF d, s, N

\* A compound.
LEMMA CompoundSkipped ==
  ASSUME NEW f \in Formats, NEW in \in Seq(Byte), NEW p \in Offsets(in),
         NEW I, NEW J, Agree(f, in, I, J)
  PROVE  Same(f, decode_compound(f, in, p, I), skip_compound(f, in, p, J),
              p, Len(in))
<1> DEFINE D == [q \in Offsets(in) |-> decode_entry(f, in, q, I)]
           S == [q \in Offsets(in) |-> skip_entry(f, in, q, J)]
           N == Len(in)
<1>1. decode_compound(f, in, p, I) = Rounds(D, N + 1, p)
  BY Zenon DEF decode_compound
<1>2. skip_compound(f, in, p, J) = Rounds(S, N + 1, p)
  BY Zenon DEF skip_compound
<1>3. N \in Nat /\ N + 1 \in Nat /\ Offsets(in) = 0 .. N
  BY DEF Offsets
<1>4. ASSUME NEW q \in Offsets(in)
      PROVE  Same(f, D[q], S[q], q, N) /\ (D[q].ok => (D[q].v = <<>> <=> S[q].v = <<>>))
  BY EntrySkipped
<1>5. DOMAIN D = Offsets(in) /\ DOMAIN S = Offsets(in)
  OBVIOUS
<1> HIDE DEF D, S, N
<1>6. \A q \in 0 .. N : Same(f, Rounds(D, N + 1, q), Rounds(S, N + 1, q), q, N)
  BY <1>3, <1>4, <1>5, LoopsAgree
<1> QED
  BY <1>1, <1>2, <1>3, <1>6 DEF N

\* Every kind has one arm of the switch.
LEMMA KindCases ==
  \A kind \in Kinds :
    \/ kind \in DOMAIN Size
    \/ kind \notin DOMAIN Size /\ kind \in DOMAIN Elem
    \/ kind \notin DOMAIN Size /\ kind \notin DOMAIN Elem /\ kind = "String"
    \/ /\ kind \notin DOMAIN Size /\ kind \notin DOMAIN Elem /\ kind # "String"
       /\ kind = "List"
    \/ /\ kind \notin DOMAIN Size /\ kind \notin DOMAIN Elem /\ kind # "String"
       /\ kind # "List" /\ kind = "Compound"
BY DEF Kinds, TagIds, Size, Elem

\* A payload of any kind, when those one level down agree.
LEMMA PayloadSkipped ==
  ASSUME NEW f \in Formats, NEW in \in Seq(Byte), NEW p \in Offsets(in),
         NEW kind \in Kinds, NEW left \in Nat, NEW I, NEW J,
         left # 0 => Agree(f, in, I, J)
  PROVE  LET d == decode_payload(f, in, p, kind, left, I)
             s == skip_payload(f, in, p, kind, left, J)
         IN  Same(f, d, s, p, Len(in)) /\ (d.ok => d.v[1] = kind)
<1> DEFINE d == decode_payload(f, in, p, kind, left, I)
           s == skip_payload(f, in, p, kind, left, J)
           N == Len(in)
<1>1. N \in Nat /\ p \in p .. N
  BY DEF Offsets
<1>2. CASE left = 0
  <2>1. d = Err("LimitExceeded", p) /\ s = Err("LimitExceeded", p)
    BY <1>2 DEF decode_payload, skip_payload
  <2> HIDE DEF d, s, N
  <2>2. Yields(d, p, N) /\ d.ok = FALSE
    BY <1>1, <2>1 DEF Yields, Err, ErrorCodes
  <2>3. Same(f, d, d, p, N)
    BY <2>2, SameCall
  <2>4. Same(f, d, s, p, N) /\ (d.ok => d.v[1] = kind)
    BY <2>1, <2>2, <2>3
  <2> QED
    BY <2>4 DEF d, s, N
<1>3. CASE left # 0
  <2>1. CASE kind \in DOMAIN Size
    <3> DEFINE x == read_number(f, in, p, kind)
               y == skip_number(f, in, p, kind)
    <3>1. d = IF x.ok THEN Ok(<<kind, x.v>>, x.pos) ELSE x
      BY <1>3, <2>1 DEF decode_payload, Then
    <3>2. s = y
      BY <1>3, <2>1 DEF skip_payload
    <3>3. Same(f, x, y, p, N)
      BY <2>1, NumberSkipped
    <3> HIDE DEF x, y, d, s, N
    <3>4. Keeps(d, x) /\ Keeps(s, y) /\ (d.ok => d.v[1] = kind)
      BY <3>1, <3>2 DEF Keeps, Ok
    <3>5. Same(f, d, s, p, N)
      BY <3>3, <3>4, KeepsSame
    <3> QED
      BY <3>4, <3>5 DEF d, s, N
  <2>2. CASE kind \notin DOMAIN Size /\ kind \in DOMAIN Elem
    <3>1. d = decode_array_payload(f, in, p, kind)
      BY <1>3, <2>2 DEF decode_payload
    <3>2. s = skip_array(f, in, p, kind)
      BY <1>3, <2>2 DEF skip_payload
    <3>3. d.ok => d.v[1] = kind
      <4> DEFINE a == read_array_length(f, in, p)
                 t == IF kind = "ByteArray" THEN take(in, a.pos, a.v, 1)
                      ELSE Ok(<<>>, a.pos)
                 arr == decode_array(f, in, a.pos, Elem[kind], a.v)
      <4>1. d = IF ~ a.ok THEN a ELSE IF ~ t.ok THEN t
                ELSE IF arr.ok THEN Ok(<<kind, arr.v>>, arr.pos) ELSE arr
        BY <3>1 DEF decode_array_payload, Then
      <4> HIDE DEF a, t, arr, d
      <4> QED
        BY <4>1 DEF Ok
    <3>4. Same(f, d, s, p, N)
      BY <2>2, <3>1, <3>2, ArrayPayloadSkipped
    <3> QED
      BY <3>3, <3>4
  <2>3. CASE kind \notin DOMAIN Size /\ kind \notin DOMAIN Elem /\ kind = "String"
    <3> DEFINE x == read_string(f, in, p)
               y == skip_string(f, in, p)
    <3>1. d = IF x.ok THEN Ok(<<"String", x.v>>, x.pos) ELSE x
      BY <1>3, <2>3 DEF decode_payload, Then
    <3>2. s = y
      BY <1>3, <2>3 DEF skip_payload
    <3>3. Same(f, x, y, p, N)
      BY StringSkipped
    <3> HIDE DEF x, y, d, s, N
    <3>4. Keeps(d, x) /\ Keeps(s, y) /\ (d.ok => d.v[1] = kind)
      BY <2>3, <3>1, <3>2 DEF Keeps, Ok
    <3>5. Same(f, d, s, p, N)
      BY <3>3, <3>4, KeepsSame
    <3> QED
      BY <3>4, <3>5 DEF d, s, N
  <2>4. CASE /\ kind \notin DOMAIN Size /\ kind \notin DOMAIN Elem /\ kind # "String"
             /\ kind = "List"
    <3>1. d = decode_list_payload(f, in, p, I)
      BY <1>3, <2>4 DEF decode_payload
    <3>2. s = skip_list(f, in, p, J)
      BY <1>3, <2>4 DEF skip_payload
    <3>3. d.ok => d.v[1] = kind
      <4> DEFINE t == read_tag_byte(in, p)
                 a == read_array_length(f, in, t.pos)
                 xs == IF t.v = "End" THEN Ok(<<>>, a.pos)
                       ELSE decode_list(in, a.pos, a.v, I[t.v])
      <4>1. d = IF ~ t.ok THEN t ELSE IF ~ a.ok THEN a
                ELSE IF xs.ok THEN Ok(<<"List", xs.v>>, xs.pos) ELSE xs
        BY <3>1 DEF decode_list_payload, Then
      <4> HIDE DEF a, t, xs, d
      <4> QED
        BY <2>4, <4>1 DEF Ok
    <3>4. Same(f, d, s, p, N)
      BY <1>3, <3>1, <3>2, ListSkipped
    <3> QED
      BY <3>3, <3>4
  <2>5. CASE /\ kind \notin DOMAIN Size /\ kind \notin DOMAIN Elem /\ kind # "String"
             /\ kind # "List" /\ kind = "Compound"
    <3> DEFINE x == decode_compound(f, in, p, I)
               y == skip_compound(f, in, p, J)
    <3>1. d = IF x.ok THEN Ok(<<"Compound", x.v>>, x.pos) ELSE x
      BY <1>3, <2>5 DEF decode_payload, Then
    <3>2. s = y
      BY <1>3, <2>5 DEF skip_payload
    <3>3. Same(f, x, y, p, N)
      BY <1>3, CompoundSkipped
    <3> HIDE DEF x, y, d, s, N
    <3>4. Keeps(d, x) /\ Keeps(s, y) /\ (d.ok => d.v[1] = kind)
      BY <2>5, <3>1, <3>2 DEF Keeps, Ok
    <3>5. Same(f, d, s, p, N)
      BY <3>3, <3>4, KeepsSame
    <3> QED
      BY <3>4, <3>5 DEF d, s, N
  <2> HIDE DEF d, s
  <2> QED
    BY <2>1, <2>2, <2>3, <2>4, <2>5, KindCases
<1> QED
  BY <1>2, <1>3

-----------------------------------------------------------------------------
(* All levels, and the root.                                               *)

\* The payloads of one level, by what those one level down are.
DecodeLevel(f, in, left, inner) ==
  [kind \in Kinds |-> [p \in Offsets(in) |->
     decode_payload(f, in, p, kind, left, inner)]]
SkipLevel(f, in, left, inner) ==
  [kind \in Kinds |-> [p \in Offsets(in) |->
     skip_payload(f, in, p, kind, left, inner)]]

\* The levels of decode or of skip.
Level(skips, f, in, left, inner) ==
  IF skips THEN SkipLevel(f, in, left, inner) ELSE DecodeLevel(f, in, left, inner)

Levels(skips, f, in, n, at) ==
  [left \in 0 .. n |-> Level(skips, f, in, left, at[left - 1])]

\* With no level left, nothing below is looked at ...
LEMMA NoLevelsDown ==
  ASSUME NEW skips, NEW f, NEW in, NEW g, NEW h
  PROVE  Level(skips, f, in, 0, g) = Level(skips, f, in, 0, h)
BY DEF Level, DecodeLevel, SkipLevel, decode_payload, skip_payload

\* ... so the recursion over the levels defines a function.
LEMMA LevelsExist ==
  ASSUME NEW skips, NEW f, NEW in, NEW n \in Nat
  PROVE  \E at : at = Levels(skips, f, in, n, at)
<1> DEFINE L(left, inner) == Level(skips, f, in, left, inner)
           Good(g, k) == \A j \in 0 .. k : g[j] = L(j, g[j - 1])
           S == {k \in Nat : \E g : Good(g, k)}
<1>0. \A g, h : L(0, g) = L(0, h)
  BY NoLevelsDown
<1> HIDE DEF L
<1>1. 0 \in S
  <2> DEFINE g == [j \in {0} |-> L(0, 0)]
  <2>1. g[0] = L(0, 0)
    OBVIOUS
  <2> HIDE DEF g
  <2>2. \A j \in 0 .. 0 : j = 0
    OBVIOUS
  <2>3. Good(g, 0)
    BY <1>0, <2>1, <2>2
  <2> QED
    BY <2>3
<1>2. \A k \in Nat : k \in S => k + 1 \in S
  <2> SUFFICES ASSUME NEW k \in Nat, k \in S PROVE \E g : Good(g, k + 1)
    <3> HIDE DEF Good
    <3> QED
      OBVIOUS
  <2>0. PICK g : Good(g, k)
    OBVIOUS
  <2> DEFINE h == [j \in 0 .. k + 1 |-> IF j = k + 1 THEN L(k + 1, g[k]) ELSE g[j]]
  <2>1. \A j \in 0 .. k : h[j] = g[j]
    OBVIOUS
  <2>2. h[k + 1] = L(k + 1, g[k])
    OBVIOUS
  <2> HIDE DEF h
  <2>3. ASSUME NEW j \in 0 .. k + 1 PROVE h[j] = L(j, h[j - 1])
    <3>1. CASE j = k + 1
      <4>1. j - 1 = k /\ k \in 0 .. k
        BY <3>1
      <4> QED
        BY <2>1, <2>2, <3>1, <4>1
    <3>2. CASE j # k + 1 /\ j # 0
      <4>1. j \in 0 .. k /\ j - 1 \in 0 .. k
        BY <3>2
      <4> QED
        BY <2>0, <2>1, <4>1
    <3>3. CASE j = 0
      <4>1. h[0] = L(0, g[0 - 1])
        BY <2>0, <2>1
      <4> QED
        BY <1>0, <3>3, <4>1
    <3> QED
      BY <3>1, <3>2, <3>3
  <2> QED
    BY <2>3
<1>3. n \in S
  <2> HIDE DEF S
  <2>1. \A k \in Nat : k \in S
    BY <1>1, <1>2, Upward
  <2> QED
    BY <2>1
<1>4. PICK g : Good(g, n)
  BY <1>3
<1> DEFINE h == [j \in 0 .. n |-> g[j]]
<1>5. ASSUME NEW j \in 0 .. n PROVE h[j] = L(j, h[j - 1])
  <2>1. h[j] = L(j, g[j - 1])
    BY <1>4
  <2>2. CASE j = 0
    BY <1>0, <2>1, <2>2
  <2>3. CASE j # 0
    <3>1. j - 1 \in 0 .. n
      BY <2>3
    <3>2. h[j - 1] = g[j - 1]
      BY <3>1
    <3> QED
      BY <2>1, <3>2
  <2> QED
    BY <2>2, <2>3
<1>6. h = [left \in 0 .. n |-> L(left, h[left - 1])]
  <2> DEFINE hh == [left \in 0 .. n |-> L(left, h[left - 1])]
  <2>1. ASSUME NEW j \in 0 .. n PROVE h[j] = hh[j]
    BY <1>5
  <2> QED
    BY <2>1
<1> QED
  BY <1>6 DEF L, Levels

\* The levels of decode and of skip, which agree at each.
Leveled(f, in, D, S, k) ==
  /\ Agree(f, in, D[k], S[k])
  /\ \A kind \in Kinds : \A p \in Offsets(in) :
       /\ D[k][kind][p] = decode_payload(f, in, p, kind, k, D[k - 1])
       /\ S[k][kind][p] = skip_payload(f, in, p, kind, k, S[k - 1])

LEMMA LevelsAgreeTo ==
  ASSUME NEW f \in Formats, NEW in \in Seq(Byte), NEW n \in Nat
  PROVE  \E D, S : /\ \A k \in 0 .. n : Leveled(f, in, D, S, k)
                   /\ n = kMaxDecodeDepth => decode_payloads(f, in) = D[n]
                   /\ skip_payloads(f, in, n) = S[n]
<1> DEFINE d == CHOOSE at : at = Levels(FALSE, f, in, n, at)
           s == CHOOSE at : at = Levels(TRUE, f, in, n, at)
<1>1. n \in Nat
  OBVIOUS
<1>2. d = Levels(FALSE, f, in, n, d)
  BY <1>1, LevelsExist
<1>3. s = Levels(TRUE, f, in, n, s)
  BY <1>1, LevelsExist
<1>4. ASSUME n = kMaxDecodeDepth PROVE decode_payloads(f, in) = d[n]
  BY <1>4, Zenon DEF decode_payloads, Levels, Level, DecodeLevel
<1>5. skip_payloads(f, in, n) = s[n]
  BY Zenon DEF skip_payloads, Levels, Level, SkipLevel
<1> HIDE DEF d, s
<1>6. ASSUME NEW k \in 0 .. n, NEW kind \in Kinds, NEW p \in Offsets(in)
      PROVE  /\ d[k][kind][p] = decode_payload(f, in, p, kind, k, d[k - 1])
             /\ s[k][kind][p] = skip_payload(f, in, p, kind, k, s[k - 1])
  <2>1. d[k][kind][p] = decode_payload(f, in, p, kind, k, d[k - 1])
    <3>1. d[k] = Level(FALSE, f, in, k, d[k - 1])
      BY <1>2 DEF Levels
    <3> QED
      BY <3>1 DEF Level, DecodeLevel
  <2>2. s[k][kind][p] = skip_payload(f, in, p, kind, k, s[k - 1])
    <3>1. s[k] = Level(TRUE, f, in, k, s[k - 1])
      BY <1>3 DEF Levels
    <3> QED
      BY <3>1 DEF Level, SkipLevel
  <2> QED
    BY <2>1, <2>2
<1>7. ASSUME NEW k \in 0 .. n, k # 0 => Agree(f, in, d[k - 1], s[k - 1])
      PROVE  Agree(f, in, d[k], s[k])
  <2> SUFFICES ASSUME NEW kind \in Kinds, NEW p \in Offsets(in)
               PROVE  /\ Same(f, d[k][kind][p], s[k][kind][p], p, Len(in))
                      /\ d[k][kind][p].ok => d[k][kind][p].v[1] = kind
    BY DEF Agree
  <2>1. k \in Nat
    OBVIOUS
  <2> QED
    BY <1>6, <1>7, <2>1, PayloadSkipped
<1> DEFINE S == {k \in Nat : k <= n => Agree(f, in, d[k], s[k])}
<1>8. 0 \in S
  <2>1. 0 \in 0 .. n
    BY <1>1
  <2> QED
    BY <1>7, <2>1
<1>9. \A k \in Nat : k \in S => k + 1 \in S
  <2> SUFFICES ASSUME NEW k \in Nat, k <= n => Agree(f, in, d[k], s[k]), k + 1 <= n
               PROVE  Agree(f, in, d[k + 1], s[k + 1])
    OBVIOUS
  <2>1. k + 1 \in 0 .. n /\ (k + 1) - 1 = k /\ k <= n
    BY <1>1
  <2> QED
    BY <1>7, <2>1
<1>10. \A k \in 0 .. n : Agree(f, in, d[k], s[k])
  <2>1. \A k \in Nat : k \in S
    <3> HIDE DEF S
    <3> QED
      BY <1>8, <1>9, Upward
  <2> QED
    BY <1>1, <2>1
<1>11. \A k \in 0 .. n : Leveled(f, in, d, s, k)
  BY <1>6, <1>10 DEF Leveled
<1> QED
  BY <1>4, <1>5, <1>11

LEMMA LevelsAgree ==
  ASSUME NEW f \in Formats, NEW in \in Seq(Byte)
  PROVE  \E D, S : /\ \A k \in 0 .. kMaxDecodeDepth : Leveled(f, in, D, S, k)
                   /\ decode_payloads(f, in) = D[kMaxDecodeDepth]
                   /\ skip_payloads(f, in, kMaxDecodeDepth) = S[kMaxDecodeDepth]
<1>1. PICK n \in Nat : n = kMaxDecodeDepth
  BY DepthAssumption
<1>2. PICK D, S : /\ \A k \in 0 .. n : Leveled(f, in, D, S, k)
                  /\ n = kMaxDecodeDepth => decode_payloads(f, in) = D[n]
                  /\ skip_payloads(f, in, n) = S[n]
  BY LevelsAgreeTo
<1> QED
  BY <1>1, <1>2

\* However many levels skip is given, it leaves the cursor in the buffer.
LEMMA SkipsInside ==
  ASSUME NEW f \in Formats, NEW in \in Seq(Byte), NEW n \in Nat,
         NEW kind \in Kinds, NEW p \in Offsets(in)
  PROVE  Yields(skip_payloads(f, in, n)[kind][p], p, Len(in))
<1>1. PICK D, S : /\ \A k \in 0 .. n : Leveled(f, in, D, S, k)
                  /\ n = kMaxDecodeDepth => decode_payloads(f, in) = D[n]
                  /\ skip_payloads(f, in, n) = S[n]
  BY LevelsAgreeTo
<1>2. Agree(f, in, D[n], S[n])
  <2>1. n \in 0 .. n
    OBVIOUS
  <2> QED
    BY <1>1, <2>1 DEF Leveled
<1>3. Same(f, D[n][kind][p], S[n][kind][p], p, Len(in))
  BY <1>2 DEF Agree
<1> QED
  BY <1>1, <1>3 DEF Same

\* What both make of a payload, at every depth.
LEMMA PayloadsAgree ==
  ASSUME NEW f \in Formats, NEW in \in Seq(Byte)
  PROVE  Agree(f, in, decode_payloads(f, in), skip_payloads(f, in, kMaxDecodeDepth))
<1>1. PICK D, S : /\ \A k \in 0 .. kMaxDecodeDepth : Leveled(f, in, D, S, k)
                  /\ decode_payloads(f, in) = D[kMaxDecodeDepth]
                  /\ skip_payloads(f, in, kMaxDecodeDepth) = S[kMaxDecodeDepth]
  BY LevelsAgree
<1>2. kMaxDecodeDepth \in 0 .. kMaxDecodeDepth
  BY DepthAssumption
<1>3. Leveled(f, in, D, S, kMaxDecodeDepth)
  BY <1>1, <1>2
<1> QED
  BY <1>1, <1>3 DEF Leveled

\* What decode and skip make of a root.
RootAlike(f, d, s, p, n) == Same(f, d, s, p, n) /\ (d.ok => s.v = d.v[2][1])

\* One payload of a root.
LEMMA PayloadAt ==
  ASSUME NEW f \in Formats, NEW in \in Seq(Byte), NEW kind \in Kinds,
         NEW q \in Offsets(in)
  PROVE  LET x == decode_payloads(f, in)[kind][q]
             y == skip_payloads(f, in, kMaxDecodeDepth)[kind][q]
         IN  Same(f, x, y, q, Len(in)) /\ (x.ok => x.v[1] = kind)
BY PayloadsAgree DEF Agree

\* Decode wraps a root with its name; skip says its kind.
LEMMA RootIs ==
  ASSUME NEW f, NEW n, NEW q, NEW x, NEW y, NEW kind, NEW name,
         Same(f, x, y, q, n), x.ok => x.v[1] = kind
  PROVE  RootAlike(f, IF x.ok THEN Ok(<<name, x.v>>, x.pos) ELSE x,
                   IF y.ok THEN Ok(kind, y.pos) ELSE y, q, n)
<1> DEFINE d == IF x.ok THEN Ok(<<name, x.v>>, x.pos) ELSE x
           s == IF y.ok THEN Ok(kind, y.pos) ELSE y
<1>1. Keeps(d, x) /\ Keeps(s, y)
  BY DEF Keeps, Ok
<1>2. d.ok => x.ok /\ d.v[2][1] = kind
  BY DEF Ok
<1>3. y.ok => s.v = kind
  BY DEF Ok
<1>4. x.ok => y.ok
  BY DEF Same
<1> HIDE DEF d, s
<1>5. Same(f, d, s, q, n)
  BY <1>1, KeepsSame
<1>6. RootAlike(f, d, s, q, n)
  BY <1>2, <1>3, <1>4, <1>5 DEF RootAlike
<1> QED
  BY <1>6 DEF d, s

\* A named root.
LEMMA NamedAlike ==
  ASSUME NEW f \in Formats, NEW in \in Seq(Byte), NEW p \in Offsets(in)
  PROVE  RootAlike(f, decode_named(f, in, p), skip_named(f, in, p), p, Len(in))
<1> DEFINE t == read_tag_byte(in, p)
           nm == read_string(f, in, t.pos)
           sk == skip_string(f, in, t.pos)
           N == Len(in)
           x == decode_payloads(f, in)[t.v][nm.pos]
           y == skip_payloads(f, in, kMaxDecodeDepth)[t.v][sk.pos]
           d3 == IF x.ok THEN Ok(<<nm.v, x.v>>, x.pos) ELSE x
           s3 == IF y.ok THEN Ok(t.v, y.pos) ELSE y
           d2 == IF nm.ok THEN d3 ELSE nm
           s2 == IF sk.ok THEN s3 ELSE sk
           d == decode_named(f, in, p)
           s == skip_named(f, in, p)
<1>1. d = IF ~ t.ok THEN t ELSE IF t.v = "End" THEN Ok(NoRoot, t.pos) ELSE d2
  BY DEF decode_named, Then
<1>2. s = IF ~ t.ok THEN t ELSE IF t.v = "End" THEN Ok(t.v, t.pos) ELSE s2
  BY DEF skip_named, Then
<1>3. N \in Nat /\ p \in 0 .. N /\ Offsets(in) = 0 .. N
  BY DEF Offsets
<1>4. Yields(t, p, N) /\ (t.ok => t.v = "End" \/ t.v \in Kinds)
  BY TagByteYields
<1>5. ASSUME t.ok, t.v # "End"
      PROVE  RootAlike(f, d2, s2, t.pos, N)
  <2>1. t.pos \in Offsets(in) /\ t.v \in Kinds
    <3> HIDE DEF t, N
    <3> QED
      BY <1>3, <1>4, <1>5 DEF Yields
  <2>2. Same(f, nm, sk, t.pos, N)
    <3> HIDE DEF t
    <3> QED
      BY <2>1, StringSkipped
  <2> HIDE DEF nm, sk, t
  <2>4. (nm.ok => nm.pos \in Offsets(in)) /\ (sk.ok => sk.pos \in Offsets(in))
    <3> HIDE DEF N
    <3> QED
      BY <1>3, <2>1, <2>2 DEF Same, Yields
  <2>5. nm.ok => sk.ok /\ sk.pos = nm.pos
    BY <2>2 DEF Same
  <2>6. nm.ok => Same(f, x, y, nm.pos, N) /\ (x.ok => x.v[1] = t.v)
    BY <2>1, <2>4, <2>5, PayloadAt
  <2>7. sk.ok => Yields(y, sk.pos, N)
    BY <2>1, <2>4, PayloadAt DEF Same
  <2> HIDE DEF x, y, N
  <2>8. Keeps(s3, y)
    BY DEF Keeps, Ok
  <2>9. nm.ok => RootAlike(f, d3, s3, nm.pos, N)
    BY <2>6, RootIs
  <2> HIDE DEF d3, s3
  <2>10. nm.ok => RootAlike(f, d2, s2, nm.pos, N)
    BY <2>5, <2>9
  <2>11. sk.ok => Yields(s2, sk.pos, N)
    BY <2>7, <2>8, KeepsYields
  <2>12. Same(f, d2, s2, t.pos, N)
    <3> HIDE DEF d2, s2
    <3>1. (~ nm.ok => d2 = nm) /\ (~ sk.ok => s2 = sk)
      BY DEF d2, s2
    <3> QED
      BY <1>3, <2>1, <2>2, <2>10, <2>11, <3>1, Chain DEF RootAlike
  <2>13. d2.ok => nm.ok
    OBVIOUS
  <2> QED
    BY <2>10, <2>12, <2>13 DEF RootAlike
<1> HIDE DEF t, d2, s2, d, s, N
<1>6. Same(f, t, t, p, N)
  BY <1>4, SameCall
<1>7. t.ok => RootAlike(f, d, s, t.pos, N)
  <2>1. CASE t.ok /\ t.v = "End"
    <3>1. d = Ok(NoRoot, t.pos) /\ s = Ok("End", t.pos)
      BY <1>1, <1>2, <2>1
    <3>2. t.pos \in t.pos .. N
      BY <1>3, <1>4, <2>1 DEF Yields
    <3>3. NoRoot[2][1] = "End"
      BY DEF NoRoot, EndTag
    <3> QED
      BY <3>1, <3>2, <3>3 DEF RootAlike, Same, Yields, Ok
  <2>2. CASE t.ok /\ t.v # "End"
    <3>1. d = d2 /\ s = s2
      BY <1>1, <1>2, <2>2
    <3> QED
      BY <1>5, <2>2, <3>1
  <2> QED
    BY <2>1, <2>2
<1>8. t.ok => Yields(s, t.pos, N)
  BY <1>7 DEF RootAlike, Same
<1>9. ~ t.ok => d = t /\ s = t
  BY <1>1, <1>2
<1>10. Same(f, d, s, p, N)
  BY <1>3, <1>6, <1>7, <1>8, <1>9, Chain DEF RootAlike
<1>11. d.ok => t.ok
  BY <1>9
<1>12. RootAlike(f, d, s, p, N)
  BY <1>7, <1>10, <1>11 DEF RootAlike
<1> QED
  BY <1>12 DEF d, s, N

\* An anonymous root.
LEMMA AnonymousAlike ==
  ASSUME NEW in \in Seq(Byte), NEW p \in Offsets(in)
  PROVE  RootAlike("JavaAnonymousRoot", decode_java_anonymous(in, p),
                   skip_java_anonymous(in, p), p, Len(in))
<1> DEFINE f == "JavaAnonymousRoot"
           t == read_tag_byte(in, p)
           N == Len(in)
           x == decode_payloads(f, in)[t.v][t.pos]
           y == skip_payloads(f, in, kMaxDecodeDepth)[t.v][t.pos]
           d2 == IF x.ok THEN Ok(<< <<>>, x.v>>, x.pos) ELSE x
           s2 == IF y.ok THEN Ok(t.v, y.pos) ELSE y
           d == decode_java_anonymous(in, p)
           s == skip_java_anonymous(in, p)
<1>1. d = IF ~ t.ok THEN t ELSE IF t.v = "End" THEN Ok(NoRoot, t.pos) ELSE d2
  BY DEF decode_java_anonymous, Then
<1>2. s = IF ~ t.ok THEN t ELSE IF t.v = "End" THEN Ok(t.v, t.pos) ELSE s2
  BY DEF skip_java_anonymous, Then
<1>3. N \in Nat /\ p \in 0 .. N /\ Offsets(in) = 0 .. N /\ f \in Formats
  BY DEF Offsets, Formats, Java
<1>4. Yields(t, p, N) /\ (t.ok => t.v = "End" \/ t.v \in Kinds)
  BY TagByteYields
<1> HIDE DEF f
<1>5. ASSUME t.ok, t.v # "End"
      PROVE  RootAlike(f, d2, s2, t.pos, N)
  <2>1. t.pos \in Offsets(in) /\ t.v \in Kinds
    <3> HIDE DEF t, N
    <3> QED
      BY <1>3, <1>4, <1>5 DEF Yields
  <2> HIDE DEF t
  <2>2. Same(f, x, y, t.pos, N) /\ (x.ok => x.v[1] = t.v)
    BY <1>3, <2>1, PayloadAt
  <2> HIDE DEF x, y, N
  <2> QED
    BY <2>2, RootIs
<1> HIDE DEF t, d2, s2, d, s, N
<1>6. Same(f, t, t, p, N)
  BY <1>4, SameCall
<1>7. t.ok => RootAlike(f, d, s, t.pos, N)
  <2>1. CASE t.ok /\ t.v = "End"
    <3>1. d = Ok(NoRoot, t.pos) /\ s = Ok("End", t.pos)
      BY <1>1, <1>2, <2>1
    <3>2. t.pos \in t.pos .. N
      BY <1>3, <1>4, <2>1 DEF Yields
    <3>3. NoRoot[2][1] = "End"
      BY DEF NoRoot, EndTag
    <3> QED
      BY <3>1, <3>2, <3>3 DEF RootAlike, Same, Yields, Ok
  <2>2. CASE t.ok /\ t.v # "End"
    <3>1. d = d2 /\ s = s2
      BY <1>1, <1>2, <2>2
    <3> QED
      BY <1>5, <2>2, <3>1
  <2> QED
    BY <2>1, <2>2
<1>8. t.ok => Yields(s, t.pos, N)
  BY <1>7 DEF RootAlike, Same
<1>9. ~ t.ok => d = t /\ s = t
  BY <1>1, <1>2
<1>10. Same(f, d, s, p, N)
  BY <1>3, <1>6, <1>7, <1>8, <1>9, Chain DEF RootAlike
<1>11. d.ok => t.ok
  BY <1>9
<1>12. RootAlike(f, d, s, p, N)
  BY <1>7, <1>10, <1>11 DEF RootAlike
<1> QED
  BY <1>12 DEF d, s, N, f

\* A root of any dialect.
LEMMA RootsAlike ==
  ASSUME NEW f \in Formats, NEW in \in Seq(Byte), NEW p \in Offsets(in)
  PROVE  RootAlike(f, decode(f, in, p), skip(f, in, p), p, Len(in))
<1>1. CASE f = "JavaNamedRoot"
  <2>1. decode(f, in, p) = decode_named(f, in, p) /\ skip(f, in, p) = skip_named(f, in, p)
    BY <1>1 DEF decode, skip, decode_java_named, skip_java_named
  <2> QED
    BY <2>1, NamedAlike
<1>2. CASE f = "JavaAnonymousRoot"
  <2>1. /\ decode(f, in, p) = decode_java_anonymous(in, p)
        /\ skip(f, in, p) = skip_java_anonymous(in, p)
    BY <1>2 DEF decode, skip
  <2> QED
    BY <1>2, <2>1, AnonymousAlike
<1>3. CASE f = "BedrockLittleEndian"
  <2>1. decode(f, in, p) = decode_named(f, in, p) /\ skip(f, in, p) = skip_named(f, in, p)
    BY <1>3 DEF decode, skip, decode_bedrock_le, skip_bedrock_le
  <2> QED
    BY <2>1, NamedAlike
<1>4. CASE f = "BedrockVarInt"
  <2>1. decode(f, in, p) = decode_named(f, in, p) /\ skip(f, in, p) = skip_named(f, in, p)
    BY <1>4 DEF decode, skip, decode_bedrock_varint, skip_bedrock_varint
  <2> QED
    BY <2>1, NamedAlike
<1> QED
  BY <1>1, <1>2, <1>3, <1>4 DEF Formats, Java, Bedrock

\* Whatever the bytes are and wherever the cursor stands in them, decode and
\* skip take the same bytes for a root and fail alike, both with one of the
\* decoder's error codes, and neither leaves its cursor outside the buffer.
THEOREM SkipsWhatDecodes ==
  ASSUME NEW f \in Formats, NEW in \in Seq(Byte), NEW p \in Offsets(in)
  PROVE  /\ Yields(decode(f, in, p), p, Len(in))
         /\ Yields(skip(f, in, p), p, Len(in))
         /\ Alike(f, decode(f, in, p), skip(f, in, p))
<1>1. RootAlike(f, decode(f, in, p), skip(f, in, p), p, Len(in))
  BY RootsAlike
<1> QED
  BY <1>1 DEF RootAlike, Same, FailsLike, Bad, Alike

-----------------------------------------------------------------------------
(* What the smallest parts are written as.                                 *)

\* What a writer returns: the bytes it appended, and whether that was all.
Writes == [ok : BOOLEAN, out : Seq(Byte)]

\* What a byte is.
LEMMA ByteRange == \A x \in Int : 0 <= x /\ x <= 255 => x \in Byte
BY DEF Byte

\* A byte on its own.
LEMMA OneByte ==
  ASSUME NEW x \in Byte
  PROVE  <<x>> \in Seq(Byte)
OBVIOUS

\* How many bytes a VarInt takes.
LEMMA UvarintSize ==
  ASSUME NEW u \in Nat
  PROVE  LET n == uvarint_size(u) IN
         /\ n \in 1 .. 5
         /\ n = 5 \/ u < Weights[n + 1]
         /\ n = 1 \/ u >= Weights[n]
<1> DEFINE P(k) == (k = 5 \/ u < Weights[k + 1]) /\ (k = 1 \/ u >= Weights[k])
<1>1. \E k \in 1 .. 5 : P(k)
    <3>0. /\ Weights[1] \in Nat /\ Weights[2] \in Nat /\ Weights[3] \in Nat
          /\ Weights[4] \in Nat /\ Weights[5] \in Nat
      BY DEF Weights
    <3>1. CASE u < Weights[2]
      <4>1. P(1)
        BY <3>1
      <4> QED
        BY <4>1
    <3>2. CASE u >= Weights[2] /\ u < Weights[3]
      <4>1. P(2)
        BY <3>2
      <4> QED
        BY <4>1
    <3>3. CASE u >= Weights[3] /\ u < Weights[4]
      <4>1. P(3)
        BY <3>3
      <4> QED
        BY <4>1
    <3>4. CASE u >= Weights[4] /\ u < Weights[5]
      <4>1. P(4)
        BY <3>4
      <4> QED
        BY <4>1
    <3>5. CASE u >= Weights[5]
      <4>1. P(5)
        BY <3>5
      <4> QED
        BY <4>1
    <3> QED
      BY <3>0, <3>1, <3>2, <3>3, <3>4, <3>5
<1>2. uvarint_size(u) = CHOOSE k \in 1 .. 5 : P(k)
  BY DEF uvarint_size
<1> HIDE DEF P
<1>3. uvarint_size(u) \in 1 .. 5 /\ P(uvarint_size(u))
  BY <1>1, <1>2
<1> QED
  BY <1>3 DEF P

\* Numbers and strings are written as bytes: a VarInt ...
LEMMA UvarintBytes ==
  ASSUME NEW u \in Nat
  PROVE  write_uvarint(u) \in Seq(Byte)
<1> DEFINE n == uvarint_size(u)
           b(i) == ((u \div Weights[i]) % 128) + (IF i < n THEN 128 ELSE 0)
<1>1. n \in 1 .. 5
  BY UvarintSize
<1>2. write_uvarint(u) = [i \in 1 .. n |-> b(i)]
  BY DEF write_uvarint
<1> HIDE DEF n
<1>3. ASSUME NEW i \in 1 .. n PROVE b(i) \in Byte
  <2> DEFINE w == Weights[i]
  <2>1. w \in {1, 128, 16384, 2097152, 268435456}
    <3>1. i \in 1 .. 5
      BY <1>1
    <3> QED
      BY <3>1 DEF Weights
  <2>2. u \div w \in Int
    <3> HIDE DEF w
    <3> QED
      BY <2>1
  <2> DEFINE d == u \div w
  <2> HIDE DEF d
  <2>3. d % 128 \in Int /\ 0 <= d % 128 /\ d % 128 <= 127
    BY <2>2 DEF d
  <2>4. b(i) = (d % 128) + (IF i < n THEN 128 ELSE 0)
    BY DEF d
  <2>5. b(i) \in Int /\ 0 <= b(i) /\ b(i) <= 255
    <3> DEFINE m == d % 128
    <3> HIDE DEF m
    <3>1. m \in Int /\ 0 <= m /\ m <= 127 /\ b(i) = m + (IF i < n THEN 128 ELSE 0)
      BY <2>3, <2>4 DEF m
    <3> HIDE DEF b
    <3> QED
      BY <3>1
  <2> QED
    BY <2>5, ByteRange
<1> QED
  BY <1>1, <1>2, <1>3

\* ... with a sign ...
LEMMA ZigzagBytes ==
  ASSUME NEW v \in Int
  PROVE  write_zigzag(v) \in Seq(Byte)
<1> DEFINE m == IF v < 0 THEN - (v + 1) ELSE v
           low == m % 64
           high == m \div 64
           d == 2 * low + (IF v < 0 THEN 1 ELSE 0)
<1>1. m \in Nat
  OBVIOUS
<1>2. write_zigzag(v) = IF m < 64 THEN <<d>> ELSE <<128 + d>> \o write_uvarint(high)
  BY DEF write_zigzag
<1> HIDE DEF m
<1>3. low \in Int /\ 0 <= low /\ low <= 63 /\ high \in Nat
  BY <1>1
<1> HIDE DEF low, high
<1>4. d \in Int /\ 0 <= d /\ d <= 127
  BY <1>3
<1> HIDE DEF d
<1>5. d \in Byte /\ 128 + d \in Byte
  <2>1. 128 + d \in Int /\ 0 <= 128 + d /\ 128 + d <= 255 /\ d <= 255
    BY <1>4
  <2> QED
    BY <1>4, <2>1, ByteRange
<1>6. write_uvarint(high) \in Seq(Byte) /\ <<d>> \in Seq(Byte) /\ <<128 + d>> \in Seq(Byte)
  BY <1>3, <1>5, UvarintBytes
<1> QED
  BY <1>2, <1>6

\* ... a number of one size ...
LEMMA BigEndianBytes ==
  ASSUME NEW x \in Int, NEW n \in {1, 2, 4, 8}
  PROVE  big_endian_bytes(x, n) \in Seq(Byte)
<1> DEFINE b(i) == IF n - i >= 4 THEN (IF x < 0 THEN 255 ELSE 0)
                   ELSE (x \div Scale[n - i + 1]) % 256
<1>1. big_endian_bytes(x, n) = [i \in 1 .. n |-> b(i)]
  BY DEF big_endian_bytes
<1>2. ASSUME NEW i \in 1 .. n PROVE b(i) \in Byte
  <2>1. CASE n - i >= 4
    <3>1. b(i) \in Int /\ 0 <= b(i) /\ b(i) <= 255
      BY <2>1
    <3> QED
      BY <3>1, ByteRange
  <2>2. CASE ~ (n - i >= 4)
    <3> DEFINE w == Scale[n - i + 1]
               q == x \div w
    <3>1. w \in {1, 256, 65536, 16777216}
      <4>1. n - i + 1 \in 1 .. 4
        BY <2>2
      <4> QED
        BY <4>1 DEF Scale
    <3>2. b(i) = q % 256
      BY <2>2
    <3>3. q \in Int
      <4> HIDE DEF w
      <4> QED
        BY <3>1
    <3> HIDE DEF q, b
    <3>4. b(i) \in Int /\ 0 <= b(i) /\ b(i) <= 255
      BY <3>2, <3>3
    <3> QED
      BY <3>4, ByteRange
  <2> QED
    BY <2>1, <2>2
<1> HIDE DEF b
<1> QED
  BY <1>1, <1>2

\* ... either, by dialect ...
LEMMA NumberBytes ==
  ASSUME NEW f, NEW x \in Int, NEW kind \in DOMAIN Size
  PROVE  write_number(f, x, kind) \in Seq(Byte)
<1>1. CASE IsVarInt(f, kind)
  BY <1>1, ZigzagBytes DEF write_number
<1>2. CASE ~ IsVarInt(f, kind)
  <2>1. Size[kind] \in {1, 2, 4, 8}
    BY DEF Size
  <2>2. big_endian_bytes(x, Size[kind]) \in Seq(Byte)
    BY <2>1, BigEndianBytes
  <2> QED
    BY <1>2, <2>2, ReverseBytes DEF write_number
<1> QED
  BY <1>1, <1>2

\* ... a string ...
LEMMA StringBytes ==
  ASSUME NEW f, NEW s \in Seq(Byte)
  PROVE  write_string(f, s) \in Writes
<1>0. Len(s) \in Nat
  OBVIOUS
<1>1. CASE f = "BedrockVarInt"
  <2>1. write_string(f, s) = Wrote(write_uvarint(Len(s)) \o s)
    BY <1>1 DEF write_string
  <2>2. write_uvarint(Len(s)) \in Seq(Byte)
    BY <1>0, UvarintBytes
  <2>3. write_uvarint(Len(s)) \o s \in Seq(Byte)
    BY <2>2
  <2> QED
    BY <2>1, <2>3 DEF Writes, Wrote
<1>2. CASE f # "BedrockVarInt"
  <2> DEFINE m == IF f \in Bedrock \/ is_pure_ascii(s) THEN Ok(s, Len(s))
                  ELSE utf8_to_mutf8(s)
             h == big_endian(f, big_endian_bytes(Len(m.v), 2))
  <2>1. m.ok => m.v \in Seq(Byte)
    <3>1. utf8_to_mutf8(s).ok => utf8_to_mutf8(s).v \in Seq(Byte)
      BY Transcoded, SeqNonZero, Zenon
    <3>2. Ok(s, Len(s)).v = s
      BY DEF Ok
    <3> QED
      BY <3>1, <3>2
  <2>2. write_string(f, s) = IF ~ m.ok \/ Len(m.v) > kMaxString THEN Failed(<<>>)
                             ELSE Wrote(h \o m.v)
    BY <1>2 DEF write_string
  <2>3. m.ok => h \in Seq(Byte)
    <3> HIDE DEF m
    <3> SUFFICES ASSUME m.ok PROVE h \in Seq(Byte)
      OBVIOUS
    <3>1. Len(m.v) \in Int /\ 2 \in {1, 2, 4, 8}
      BY <2>1
    <3>2. big_endian_bytes(Len(m.v), 2) \in Seq(Byte)
      BY <3>1, BigEndianBytes
    <3> QED
      BY <3>2, ReverseBytes
  <2> HIDE DEF m, h
  <2>4. CASE ~ m.ok \/ Len(m.v) > kMaxString
    <3>1. write_string(f, s) = Failed(<<>>)
      BY <2>2, <2>4
    <3> QED
      BY <3>1 DEF Writes, Failed
  <2>5. CASE ~ (~ m.ok \/ Len(m.v) > kMaxString)
    <3>1. write_string(f, s) = Wrote(h \o m.v) /\ h \o m.v \in Seq(Byte)
      BY <2>1, <2>2, <2>3, <2>5
    <3> QED
      BY <3>1 DEF Writes, Wrote
  <2> QED
    BY <2>4, <2>5
<1> QED
  BY <1>1, <1>2

\* ... and a tag.
LEMMA TagBytes ==
  ASSUME NEW kind \in Kinds \cup {"End"}
  PROVE  tag_byte(kind) \in Byte /\ <<tag_byte(kind)>> \in Seq(Byte)
<1>1. DOMAIN TagIds = 1 .. 12
  BY DEF TagIds
<1>2. tag_byte(kind) \in 0 .. 12
  <2>1. CASE kind = "End"
    BY <2>1 DEF tag_byte
  <2>2. CASE kind # "End"
    <3>1. \E i \in DOMAIN TagIds : TagIds[i] = kind
      BY <2>2 DEF Kinds
    <3>2. tag_byte(kind) = CHOOSE i \in DOMAIN TagIds : TagIds[i] = kind
      BY <2>2 DEF tag_byte
    <3>3. tag_byte(kind) \in DOMAIN TagIds
      BY <3>1, <3>2
    <3> QED
      BY <1>1, <3>3
  <2> QED
    BY <2>1, <2>2
<1>3. tag_byte(kind) \in Byte
  BY <1>2 DEF Byte
<1> QED
  BY <1>3

-----------------------------------------------------------------------------
(* Loops of writes.                                                        *)

\* One write after another.
LEMMA AndThenWrites ==
  ASSUME NEW w \in Writes, NEW rest \in Writes
  PROVE  AndThen(w, rest) \in Writes
BY DEF AndThen, Writes

\* A write of bytes.
LEMMA WroteBytes ==
  ASSUME NEW b \in Seq(Byte)
  PROVE  Wrote(b) \in Writes /\ Failed(b) \in Writes
BY DEF Wrote, Failed, Writes

\* The number of elements in front of them.
LEMMA ArrayLengthBytes ==
  ASSUME NEW f, NEW n \in Nat
  PROVE  write_array_length(f, n) \in Writes
<1>1. "Int" \in DOMAIN Size
  BY DEF Size
<1>2. write_number(f, n, "Int") \in Seq(Byte)
  BY <1>1, NumberBytes
<1>3. <<>> \in Seq(Byte)
  OBVIOUS
<1>4. Wrote(write_number(f, n, "Int")) \in Writes /\ Failed(<<>>) \in Writes
  BY <1>2, <1>3, WroteBytes
<1> QED
  BY <1>4 DEF write_array_length

\* A write of nothing.
LEMMA NoBytes == <<>> \in Seq(Byte) /\ Wrote(<<>>) \in Writes /\ Failed(<<>>) \in Writes
<1>1. <<>> \in Seq(Byte)
  OBVIOUS
<1> QED
  BY <1>1, WroteBytes

\* Round i of a loop of writes, by what the rounds after it write.
WriteRound(writes, n, f, i) ==
  IF i > n THEN Wrote(<<>>) ELSE AndThen(writes[i], f[i + 1])

WriteLoop(writes, n, f) == [i \in 1 .. n + 1 |-> WriteRound(writes, n, f, i)]

\* Round n + 1 looks at no later one, so the loop defines a function.
LEMMA WriteLoopExists ==
  ASSUME NEW n \in Nat, NEW writes
  PROVE  \E f : f = WriteLoop(writes, n, f)
<1> DEFINE R(i, g) == WriteRound(writes, n, g, i)
           Good(g, k) == \A i \in k + 1 .. n + 1 : g[i] = R(i, g)
           S == {k \in 0 .. n : \E g : Good(g, k)}
<1>0. /\ \A g, h, i : g[i + 1] = h[i + 1] => R(i, g) = R(i, h)
      /\ \A g, h : R(n + 1, g) = R(n + 1, h)
  BY DEF WriteRound
<1> HIDE DEF R
<1>1. n \in S
  <2> DEFINE g == [i \in {n + 1} |-> R(n + 1, 0)]
  <2>1. g[n + 1] = R(n + 1, 0)
    OBVIOUS
  <2> HIDE DEF g
  <2>2. \A i \in n + 1 .. n + 1 : i = n + 1
    OBVIOUS
  <2>3. Good(g, n)
    BY <1>0, <2>1, <2>2
  <2> QED
    BY <2>3
<1>2. \A k \in 0 .. n : k # n /\ k + 1 \in S => k \in S
  <2> SUFFICES ASSUME NEW k \in 0 .. n, k # n, k + 1 \in S PROVE \E g : Good(g, k)
    <3> HIDE DEF Good
    <3> QED
      OBVIOUS
  <2>0. PICK g : Good(g, k + 1)
    OBVIOUS
  <2> DEFINE h == [i \in k + 1 .. n + 1 |-> IF i = k + 1 THEN R(k + 1, g) ELSE g[i]]
  <2>1. \A i \in k + 2 .. n + 1 : h[i] = g[i]
    OBVIOUS
  <2>2. h[k + 1] = R(k + 1, g)
    OBVIOUS
  <2> HIDE DEF h
  <2>3. ASSUME NEW i \in k + 1 .. n + 1 PROVE h[i] = R(i, h)
    <3>1. CASE i = k + 1
      <4>1. h[i + 1] = g[i + 1]
        <5>1. i + 1 \in k + 2 .. n + 1
          BY <3>1
        <5> QED
          BY <2>1, <5>1
      <4>2. R(i, h) = R(i, g)
        BY <1>0, <4>1
      <4> QED
        BY <2>2, <3>1, <4>2
    <3>2. CASE i # k + 1 /\ i # n + 1
      <4>1. i \in k + 2 .. n + 1 /\ i + 1 \in k + 2 .. n + 1 /\ i \in (k + 1) + 1 .. n + 1
        BY <3>2
      <4>2. g[i] = R(i, g) /\ h[i] = g[i] /\ h[i + 1] = g[i + 1]
        BY <2>0, <2>1, <4>1
      <4> QED
        BY <1>0, <4>2
    <3>3. CASE i = n + 1 /\ i # k + 1
      <4>1. i \in k + 2 .. n + 1 /\ i \in (k + 1) + 1 .. n + 1
        BY <3>3
      <4>2. g[i] = R(i, g) /\ h[i] = g[i]
        BY <2>0, <2>1, <4>1
      <4> QED
        BY <1>0, <3>3, <4>2
    <3> QED
      BY <3>1, <3>2, <3>3
  <2> QED
    BY <2>3
<1>3. 0 \in S
  <2> HIDE DEF S
  <2>1. \A k \in 0 .. n : k \in S
    BY <1>1, <1>2, Downward
  <2> QED
    BY <2>1
<1>4. PICK g : Good(g, 0)
  BY <1>3
<1> DEFINE h == [i \in 1 .. n + 1 |-> g[i]]
<1>5. ASSUME NEW i \in 1 .. n + 1 PROVE h[i] = R(i, h)
  <2>1. g[i] = R(i, g) /\ h[i] = g[i]
    BY <1>4
  <2>2. CASE i = n + 1
    BY <1>0, <2>1, <2>2
  <2>3. CASE i # n + 1
    <3>1. i + 1 \in 1 .. n + 1
      BY <2>3
    <3>2. h[i + 1] = g[i + 1]
      BY <3>1
    <3> HIDE DEF h
    <3> QED
      BY <1>0, <2>1, <3>2
  <2> QED
    BY <2>2, <2>3
<1>6. h = [i \in 1 .. n + 1 |-> R(i, h)]
  <2> DEFINE hh == [i \in 1 .. n + 1 |-> R(i, h)]
  <2>1. ASSUME NEW i \in 1 .. n + 1 PROVE h[i] = hh[i]
    BY <1>5
  <2> QED
    BY <2>1
<1> QED
  BY <1>6 DEF R, WriteLoop

\* What InOrder does.
LEMMA WriteLoopIs ==
  ASSUME NEW writes, Len(writes) \in Nat
  PROVE  \E f : /\ \A i \in 1 .. Len(writes) + 1 :
                      f[i] = WriteRound(writes, Len(writes), f, i)
                /\ InOrder(writes) = f[1]
<1> DEFINE n == Len(writes)
           f == CHOOSE g : g = WriteLoop(writes, n, g)
<1>1. f = WriteLoop(writes, n, f)
  <2> HIDE DEF n
  <2>1. n \in Nat
    BY DEF n
  <2> QED
    BY <2>1, WriteLoopExists
<1>2. InOrder(writes) = f[1]
  BY Zenon DEF InOrder, WriteLoop, WriteRound
<1> HIDE DEF f
<1>3. \A i \in 1 .. n + 1 : f[i] = WriteRound(writes, n, f, i)
  <2> HIDE DEF n
  <2> QED
    BY <1>1 DEF WriteLoop
<1> QED
  BY <1>2, <1>3

\* A loop of writes is a write.
LEMMA InOrderWrites ==
  ASSUME NEW writes \in Seq(Writes)
  PROVE  InOrder(writes) \in Writes
<1> DEFINE n == Len(writes)
<1>1. n \in Nat /\ \A i \in 1 .. n : writes[i] \in Writes
  OBVIOUS
<1>2. PICK f : /\ \A i \in 1 .. n + 1 : f[i] = WriteRound(writes, n, f, i)
               /\ InOrder(writes) = f[1]
  BY WriteLoopIs
<1> HIDE DEF n
<1> DEFINE S == {k \in 0 .. n : f[k + 1] \in Writes}
<1>3. n \in S
  <2>1. n + 1 \in 1 .. n + 1 /\ n + 1 > n
    BY <1>1
  <2>2. f[n + 1] = Wrote(<<>>)
    BY <1>2, <2>1 DEF WriteRound
  <2> QED
    BY <1>1, <2>2, NoBytes
<1>4. \A k \in 0 .. n : k # n /\ k + 1 \in S => k \in S
  <2> SUFFICES ASSUME NEW k \in 0 .. n, k # n, f[(k + 1) + 1] \in Writes
               PROVE  f[k + 1] \in Writes
    OBVIOUS
  <2>1. k + 1 \in 1 .. n + 1 /\ ~ (k + 1 > n) /\ k + 1 \in 1 .. n
    BY <1>1
  <2>2. f[k + 1] = AndThen(writes[k + 1], f[(k + 1) + 1])
    BY <1>2, <2>1 DEF WriteRound
  <2> QED
    BY <1>1, <2>1, <2>2, AndThenWrites
<1>5. 0 \in S
  <2> HIDE DEF S
  <2>1. \A k \in 0 .. n : k \in S
    BY <1>1, <1>3, <1>4, Downward
  <2> QED
    BY <1>1, <2>1
<1> QED
  BY <1>2, <1>5

-----------------------------------------------------------------------------
(* Values and their parts.                                                 *)

\* The Values of one level, by those one level down.
ValueLevel(d, below) ==
  IF d = 0 THEN Leaves
  ELSE Leaves \cup ({"List"} \X Seq(below))
              \cup ({"Compound"} \X Seq(ByteStrings \X below))

ValueLevels(n, at) == [d \in 0 .. n |-> ValueLevel(d, at[d - 1])]

\* Level 0 looks at none below it, so the levels define a function.
LEMMA ValueLevelsExist ==
  ASSUME NEW n \in Nat
  PROVE  \E at : at = ValueLevels(n, at)
<1> DEFINE L(d, below) == ValueLevel(d, below)
           Good(g, k) == \A j \in 0 .. k : g[j] = L(j, g[j - 1])
           S == {k \in Nat : \E g : Good(g, k)}
<1>0. \A g, h : L(0, g) = L(0, h)
  BY DEF ValueLevel
<1> HIDE DEF L
<1>1. 0 \in S
  <2> DEFINE g == [j \in {0} |-> L(0, 0)]
  <2>1. g[0] = L(0, 0)
    OBVIOUS
  <2> HIDE DEF g
  <2>2. \A j \in 0 .. 0 : j = 0
    OBVIOUS
  <2>3. Good(g, 0)
    BY <1>0, <2>1, <2>2
  <2> QED
    BY <2>3
<1>2. \A k \in Nat : k \in S => k + 1 \in S
  <2> SUFFICES ASSUME NEW k \in Nat, k \in S PROVE \E g : Good(g, k + 1)
    <3> HIDE DEF Good
    <3> QED
      OBVIOUS
  <2>0. PICK g : Good(g, k)
    OBVIOUS
  <2> DEFINE h == [j \in 0 .. k + 1 |-> IF j = k + 1 THEN L(k + 1, g[k]) ELSE g[j]]
  <2>1. \A j \in 0 .. k : h[j] = g[j]
    OBVIOUS
  <2>2. h[k + 1] = L(k + 1, g[k])
    OBVIOUS
  <2> HIDE DEF h
  <2>3. ASSUME NEW j \in 0 .. k + 1 PROVE h[j] = L(j, h[j - 1])
    <3>1. CASE j = k + 1
      <4>1. j - 1 = k /\ k \in 0 .. k
        BY <3>1
      <4> QED
        BY <2>1, <2>2, <3>1, <4>1
    <3>2. CASE j # k + 1 /\ j # 0
      <4>1. j \in 0 .. k /\ j - 1 \in 0 .. k
        BY <3>2
      <4> QED
        BY <2>0, <2>1, <4>1
    <3>3. CASE j = 0
      <4>1. h[0] = L(0, g[0 - 1])
        BY <2>0, <2>1
      <4> QED
        BY <1>0, <3>3, <4>1
    <3> QED
      BY <3>1, <3>2, <3>3
  <2> QED
    BY <2>3
<1>3. n \in S
  <2> HIDE DEF S
  <2>1. \A k \in Nat : k \in S
    BY <1>1, <1>2, Upward
  <2> QED
    BY <2>1
<1>4. PICK g : Good(g, n)
  BY <1>3
<1> DEFINE h == [j \in 0 .. n |-> g[j]]
<1>5. ASSUME NEW j \in 0 .. n PROVE h[j] = L(j, h[j - 1])
  <2>1. h[j] = L(j, g[j - 1])
    BY <1>4
  <2>2. CASE j = 0
    BY <1>0, <2>1, <2>2
  <2>3. CASE j # 0
    <3>1. j - 1 \in 0 .. n
      BY <2>3
    <3>2. h[j - 1] = g[j - 1]
      BY <3>1
    <3> QED
      BY <2>1, <3>2
  <2> QED
    BY <2>2, <2>3
<1>6. h = [d \in 0 .. n |-> L(d, h[d - 1])]
  <2> DEFINE hh == [d \in 0 .. n |-> L(d, h[d - 1])]
  <2>1. ASSUME NEW j \in 0 .. n PROVE h[j] = hh[j]
    BY <1>5
  <2> QED
    BY <2>1
<1> QED
  BY <1>6 DEF L, ValueLevels

\* The Values of every number of levels up to n.
LEMMA ValuesAre ==
  ASSUME NEW n \in Nat
  PROVE  \E at : /\ \A d \in 0 .. n : at[d] = ValueLevel(d, at[d - 1])
                 /\ Values(n) = at[n]
<1> DEFINE at == CHOOSE g : g = ValueLevels(n, g)
<1>1. at = ValueLevels(n, at)
  BY ValueLevelsExist
<1>2. Values(n) = at[n]
  BY Zenon DEF Values, ValueLevels, ValueLevel
<1> HIDE DEF at
<1>3. \A d \in 0 .. n : at[d] = ValueLevel(d, at[d - 1])
  BY <1>1 DEF ValueLevels
<1> QED
  BY <1>2, <1>3

\* The numbers of a Value.
LEMMA IntRanges ==
  /\ \A y : y \in Int32 <=> y \in Int /\ -INT32_MAX - 1 <= y /\ y <= INT32_MAX
  /\ \A y \in Int8 \cup Int16 : y \in Int32
  /\ \A y \in Int32 : y \in Int
<1>1. INT32_MAX \in Int /\ INT16_MAX \in Int /\ INT8_MAX \in Int
  BY SMT DEF INT8_MAX, INT16_MAX, INT32_MAX
<1>2. INT8_MAX <= INT32_MAX /\ INT16_MAX <= INT32_MAX
  BY SMT DEF INT8_MAX, INT16_MAX, INT32_MAX
<1>3. \A y : y \in Int32 <=> y \in Int /\ -INT32_MAX - 1 <= y /\ y <= INT32_MAX
  BY <1>1 DEF Int32
<1>4. \A y \in Int8 \cup Int16 : y \in Int32
  BY <1>1, <1>2 DEF Int8, Int16, Int32
<1> QED
  BY <1>3, <1>4

\* A number fits its kind.
InRange(x, kind) ==
  /\ x \in Int32
  /\ kind = "Byte" => x \in Int8
  /\ kind = "Short" => x \in Int16

\* What a Value is: a leaf, or its parts are those one level down.
ValueIs(x, d, below) ==
  \/ x[1] \in DOMAIN Size /\ InRange(x[2], x[1])
  \/ /\ x[1] \in DOMAIN Elem /\ x[2] \in Seq(Int)
     /\ \A i \in DOMAIN x[2] : InRange(x[2][i], Elem[x[1]])
  \/ x[1] = "String" /\ x[2] \in ByteStrings
  \/ x = EndTag
  \/ d # 0 /\ x[1] = "List" /\ x[2] \in Seq(below)
  \/ d # 0 /\ x[1] = "Compound" /\ x[2] \in Seq(ByteStrings \X below)

\* Every Value is one of these.
LEMMA ValueCases ==
  ASSUME NEW d, NEW below, NEW x \in ValueLevel(d, below)
  PROVE  ValueIs(x, d, below) /\ x = <<x[1], x[2]>>
<1>1. \/ x \in Leaves
      \/ d # 0 /\ x \in {"List"} \X Seq(below)
      \/ d # 0 /\ x \in {"Compound"} \X Seq(ByteStrings \X below)
  BY DEF ValueLevel
<1>2. \A y \in Int8 \cup Int16 : y \in Int32
  BY IntRanges
<1>3. \A y \in Int32 : y \in Int
  BY IntRanges
<1>4. CASE x \in Leaves
  <2>1. CASE x \in {"Byte"} \X Int8
    BY <2>1, <1>2 DEF ValueIs, InRange, Size
  <2>2. CASE x \in {"Short"} \X Int16
    BY <2>2, <1>2 DEF ValueIs, InRange, Size
  <2>3. CASE x \in {"Int", "Long", "Float", "Double"} \X Int32
    BY <2>3 DEF ValueIs, InRange, Size
  <2>4. CASE x \in {"ByteArray"} \X Seq(Int8)
    <3>1. x[1] = "ByteArray" /\ x[2] \in Seq(Int8) /\ x = <<x[1], x[2]>>
      BY <2>4
    <3>2. \A i \in DOMAIN x[2] : x[2][i] \in Int8
      BY <3>1
    <3>3. x[2] \in Seq(Int)
      <4>1. \A i \in DOMAIN x[2] : x[2][i] \in Int
        BY <1>2, <1>3, <3>2
      <4> QED
        BY <3>1, <4>1
    <3>4. x[1] \in DOMAIN Elem /\ Elem[x[1]] = "Byte"
      BY <3>1 DEF Elem
    <3> QED
      BY <1>2, <3>1, <3>2, <3>3, <3>4 DEF ValueIs, InRange
  <2>5. CASE x \in {"IntArray", "LongArray"} \X Seq(Int32)
    <3>1. x[1] \in {"IntArray", "LongArray"} /\ x[2] \in Seq(Int32) /\ x = <<x[1], x[2]>>
      BY <2>5
    <3>2. \A i \in DOMAIN x[2] : x[2][i] \in Int32
      BY <3>1
    <3>3. x[2] \in Seq(Int)
      <4>1. \A i \in DOMAIN x[2] : x[2][i] \in Int
        BY <1>3, <3>2
      <4> QED
        BY <3>1, <4>1
    <3>4. x[1] \in DOMAIN Elem /\ Elem[x[1]] \in {"Int", "Long"}
      BY <3>1 DEF Elem
    <3> QED
      BY <3>1, <3>2, <3>3, <3>4 DEF ValueIs, InRange
  <2>6. CASE x \in {"String"} \X ByteStrings
    BY <2>6 DEF ValueIs
  <2>7. CASE x = EndTag
    BY <2>7 DEF ValueIs, EndTag
  <2> QED
    BY <1>4, <2>1, <2>2, <2>3, <2>4, <2>5, <2>6, <2>7 DEF Leaves
<1>5. CASE d # 0 /\ x \in {"List"} \X Seq(below)
  BY <1>5 DEF ValueIs
<1>6. CASE d # 0 /\ x \in {"Compound"} \X Seq(ByteStrings \X below)
  BY <1>6 DEF ValueIs
<1> QED
  BY <1>1, <1>4, <1>5, <1>6

\* The kinds that have a size, and the arrays.
LEMMA SizesAre ==
  /\ DOMAIN Size = {"Byte", "Short", "Int", "Long", "Float", "Double"}
  /\ DOMAIN Elem = {"ByteArray", "IntArray", "LongArray"}
BY DEF Size, Elem

\* The kind of a Value.
LEMMA ValueKind ==
  ASSUME NEW d, NEW below, NEW x \in ValueLevel(d, below)
  PROVE  x[1] \in Kinds \cup {"End"}
<1>1. Kinds = {"Byte", "Short", "Int", "Long", "Float", "Double", "ByteArray",
               "String", "List", "Compound", "IntArray", "LongArray"}
  <2>1. DOMAIN TagIds = 1 .. 12
    BY DEF TagIds
  <2> QED
    BY <2>1 DEF Kinds, TagIds
<1>2. DOMAIN Size \subseteq Kinds /\ DOMAIN Elem \subseteq Kinds
  BY <1>1, SizesAre
<1>3. ValueIs(x, d, below)
  BY ValueCases
<1> QED
  BY <1>1, <1>2, <1>3 DEF ValueIs, EndTag

\* The Values right inside a Value are one level down.
LEMMA ChildrenBelow ==
  ASSUME NEW d, NEW below, NEW x \in ValueLevel(d, below), NEW i \in DOMAIN Children(x)
  PROVE  d # 0 /\ Children(x)[i] \in below
<1>1. CASE d # 0 /\ x[1] = "List" /\ x[2] \in Seq(below)
  <2>1. Children(x) = x[2]
    BY <1>1 DEF Children
  <2> QED
    BY <1>1, <2>1
<1>2. CASE d # 0 /\ x[1] = "Compound" /\ x[2] \in Seq(ByteStrings \X below)
  <2>1. Children(x) = [j \in DOMAIN x[2] |-> x[2][j][2]]
    BY <1>2 DEF Children
  <2>2. x[2][i] \in ByteStrings \X below
    BY <1>2, <2>1
  <2> QED
    BY <1>2, <2>1, <2>2
<1>3. CASE x[1] \notin {"List", "Compound"}
  <2>1. Children(x) = <<>>
    BY <1>3 DEF Children
  <2> QED
    BY <2>1
<1>4. \/ d # 0 /\ x[1] = "List" /\ x[2] \in Seq(below)
      \/ d # 0 /\ x[1] = "Compound" /\ x[2] \in Seq(ByteStrings \X below)
      \/ x[1] \notin {"List", "Compound"}
  <2>1. ValueIs(x, d, below)
    BY ValueCases
  <2> QED
    BY <2>1, SizesAre DEF ValueIs, EndTag
<1> QED
  BY <1>1, <1>2, <1>3, <1>4

\* The Values right inside x.
Below(x) == {Children(x)[i] : i \in DOMAIN Children(x)}

\* The parts of v at depth d, by those above them.
NestedLevel(v, d, above) ==
  IF d = 0 THEN {v} ELSE UNION {Below(x) : x \in above}

NestedLevels(v, at) == [d \in Nat |-> NestedLevel(v, d, at[d - 1])]

\* Depth 0 looks at none above it: the depths up to any k define a function,
\* two such functions agree, and one for all depths is made of them.
LEMMA NestedLevelsExist ==
  ASSUME NEW v
  PROVE  \E at : at = NestedLevels(v, at)
<1> DEFINE L(d, above) == NestedLevel(v, d, above)
           Good(g, k) == \A j \in 0 .. k : g[j] = L(j, g[j - 1])
           S == {k \in Nat : \E g : Good(g, k)}
<1>0. \A g, h : L(0, g) = L(0, h)
  BY DEF NestedLevel
<1> HIDE DEF L
<1>1. 0 \in S
  <2> DEFINE g == [j \in {0} |-> L(0, 0)]
  <2>1. g[0] = L(0, 0)
    OBVIOUS
  <2> HIDE DEF g
  <2>2. \A j \in 0 .. 0 : j = 0
    OBVIOUS
  <2>3. Good(g, 0)
    BY <1>0, <2>1, <2>2
  <2> QED
    BY <2>3
<1>2. \A k \in Nat : k \in S => k + 1 \in S
  <2> SUFFICES ASSUME NEW k \in Nat, k \in S PROVE \E g : Good(g, k + 1)
    <3> HIDE DEF Good
    <3> QED
      OBVIOUS
  <2>0. PICK g : Good(g, k)
    OBVIOUS
  <2> DEFINE h == [j \in 0 .. k + 1 |-> IF j = k + 1 THEN L(k + 1, g[k]) ELSE g[j]]
  <2>1. \A j \in 0 .. k : h[j] = g[j]
    OBVIOUS
  <2>2. h[k + 1] = L(k + 1, g[k])
    OBVIOUS
  <2> HIDE DEF h
  <2>3. ASSUME NEW j \in 0 .. k + 1 PROVE h[j] = L(j, h[j - 1])
    <3>1. CASE j = k + 1
      <4>1. j - 1 = k /\ k \in 0 .. k
        BY <3>1
      <4> QED
        BY <2>1, <2>2, <3>1, <4>1
    <3>2. CASE j # k + 1 /\ j # 0
      <4>1. j \in 0 .. k /\ j - 1 \in 0 .. k
        BY <3>2
      <4> QED
        BY <2>0, <2>1, <4>1
    <3>3. CASE j = 0
      <4>1. h[0] = L(0, g[0 - 1])
        BY <2>0, <2>1
      <4> QED
        BY <1>0, <3>3, <4>1
    <3> QED
      BY <3>1, <3>2, <3>3
  <2> QED
    BY <2>3
<1>3. \A k \in Nat : \E g : Good(g, k)
  <2> HIDE DEF Good
  <2>1. \A k \in Nat : k \in S
    <3> HIDE DEF S
    <3> QED
      BY <1>1, <1>2, Upward
  <2> QED
    BY <2>1
<1>4. ASSUME NEW k \in Nat, NEW g, NEW h, Good(g, k), Good(h, k + 1)
      PROVE  g[k] = h[k]
  <2> DEFINE T == {j \in Nat : j <= k => g[j] = h[j]}
  <2>1. 0 \in T
    <3>1. g[0] = L(0, g[0 - 1]) /\ h[0] = L(0, h[0 - 1])
      BY <1>4
    <3> QED
      BY <1>0, <3>1
  <2>2. \A j \in Nat : j \in T => j + 1 \in T
    <3> SUFFICES ASSUME NEW j \in Nat, j <= k => g[j] = h[j], j + 1 <= k
                 PROVE  g[j + 1] = h[j + 1]
      OBVIOUS
    <3>1. j + 1 \in 0 .. k /\ j + 1 \in 0 .. k + 1 /\ (j + 1) - 1 = j /\ j <= k
      OBVIOUS
    <3>2. g[j + 1] = L(j + 1, g[j]) /\ h[j + 1] = L(j + 1, h[j])
      BY <1>4, <3>1
    <3> QED
      BY <3>1, <3>2
  <2>3. k \in T
    <3> HIDE DEF T
    <3>1. \A j \in Nat : j \in T
      BY <2>1, <2>2, Upward
    <3> QED
      BY <3>1
  <2> QED
    BY <2>3
<1> DEFINE G(k) == CHOOSE g : Good(g, k)
<1>5. \A k \in Nat : Good(G(k), k)
  <2> HIDE DEF Good
  <2> QED
    BY <1>3
<1> HIDE DEF G
<1> DEFINE at == [d \in Nat |-> G(d)[d]]
<1>6. ASSUME NEW d \in Nat PROVE at[d] = L(d, at[d - 1])
  <2>1. at[d] = L(d, G(d)[d - 1])
    <3>1. d \in 0 .. d
      OBVIOUS
    <3> QED
      BY <1>5, <3>1
  <2>2. CASE d = 0
    BY <1>0, <2>1, <2>2
  <2>3. CASE d # 0
    <3>1. d - 1 \in Nat /\ (d - 1) + 1 = d
      BY <2>3
    <3>2. Good(G(d - 1), d - 1) /\ Good(G(d), (d - 1) + 1)
      <4> HIDE DEF Good
      <4> QED
        BY <1>5, <3>1
    <3>3. G(d - 1)[d - 1] = G(d)[d - 1]
      <4> HIDE DEF Good
      <4> QED
        BY <1>4, <3>1, <3>2
    <3>4. at[d - 1] = G(d - 1)[d - 1]
      BY <3>1
    <3> HIDE DEF at
    <3> QED
      BY <2>1, <3>3, <3>4
  <2> QED
    BY <2>2, <2>3
<1>7. at = [d \in Nat |-> L(d, at[d - 1])]
  <2> DEFINE hh == [d \in Nat |-> L(d, at[d - 1])]
  <2>1. ASSUME NEW j \in Nat PROVE at[j] = hh[j]
    BY <1>6
  <2> QED
    BY <2>1
<1> QED
  BY <1>7 DEF L, NestedLevels

\* What Nested is.
LEMMA NestedAre ==
  ASSUME NEW v
  PROVE  /\ Nested(v)[0] = {v}
         /\ \A d \in Nat : Nested(v)[d + 1] = UNION {Below(x) : x \in Nested(v)[d]}
<1> DEFINE at == CHOOSE g : g = NestedLevels(v, g)
<1>1. at = NestedLevels(v, at)
  BY NestedLevelsExist
<1>2. Nested(v) = at
  BY Zenon DEF Nested, NestedLevels, NestedLevel, Below
<1> HIDE DEF at
<1>3. \A d \in Nat : at[d] = NestedLevel(v, d, at[d - 1])
  BY <1>1 DEF NestedLevels
<1>4. at[0] = {v}
  BY <1>3 DEF NestedLevel
<1>5. ASSUME NEW d \in Nat PROVE at[d + 1] = UNION {Below(x) : x \in at[d]}
  <2>1. d + 1 \in Nat /\ d + 1 # 0 /\ (d + 1) - 1 = d
    OBVIOUS
  <2>2. at[d + 1] = NestedLevel(v, d + 1, at[d])
    BY <1>3, <2>1
  <2> QED
    BY <2>1, <2>2 DEF NestedLevel
<1> QED
  BY <1>2, <1>4, <1>5

\* What is right inside a part is a part one deeper.
LEMMA NestedChild ==
  ASSUME NEW v, NEW d \in Nat, NEW x \in Nested(v)[d], NEW i \in DOMAIN Children(x)
  PROVE  Children(x)[i] \in Nested(v)[d + 1]
<1>1. Children(x)[i] \in Below(x)
  BY DEF Below
<1> QED
  BY <1>1, NestedAre

\* The parts of a Value of n levels, by their depth.
LEMMA NestedTyped ==
  ASSUME NEW n \in Nat, NEW at, \A d \in 0 .. n : at[d] = ValueLevel(d, at[d - 1]),
         NEW v \in at[n]
  PROVE  /\ \A d \in 0 .. n : Nested(v)[d] \subseteq at[n - d]
         /\ Nested(v)[n + 1] = {}
<1> DEFINE N == Nested(v)
<1>0. N[0] = {v} /\ \A d \in Nat : N[d + 1] = UNION {Below(x) : x \in N[d]}
  BY NestedAre
<1> HIDE DEF N
<1>1. ASSUME NEW d \in 0 .. n, NEW x \in at[n - d], NEW y \in Below(x)
      PROVE  d # n /\ y \in at[n - (d + 1)]
  <2>1. n - d \in 0 .. n /\ (n - d) - 1 = n - (d + 1) /\ (n - d = 0 <=> d = n)
    OBVIOUS
  <2>2. x \in ValueLevel(n - d, at[n - (d + 1)])
    BY <2>1
  <2>3. PICK i \in DOMAIN Children(x) : y = Children(x)[i]
    BY DEF Below
  <2>4. n - d # 0 /\ Children(x)[i] \in at[n - (d + 1)]
    BY <2>2, ChildrenBelow
  <2> QED
    BY <2>1, <2>3, <2>4
<1> DEFINE S == {d \in Nat : d <= n => N[d] \subseteq at[n - d]}
<1>2. 0 \in S
  <2>1. n - 0 = n
    OBVIOUS
  <2> QED
    BY <1>0, <2>1
<1>3. \A d \in Nat : d \in S => d + 1 \in S
  <2> SUFFICES ASSUME NEW d \in Nat, d <= n => N[d] \subseteq at[n - d], d + 1 <= n,
                      NEW y \in N[d + 1]
               PROVE  y \in at[n - (d + 1)]
    OBVIOUS
  <2>1. d \in 0 .. n /\ N[d] \subseteq at[n - d]
    OBVIOUS
  <2>2. PICK x \in N[d] : y \in Below(x)
    BY <1>0
  <2> QED
    BY <1>1, <2>1, <2>2
<1>4. \A d \in 0 .. n : N[d] \subseteq at[n - d]
  <2>1. \A d \in Nat : d \in S
    <3> HIDE DEF S
    <3> QED
      BY <1>2, <1>3, Upward
  <2> QED
    BY <2>1
<1>5. N[n + 1] = {}
  <2> SUFFICES ASSUME NEW y \in N[n + 1] PROVE FALSE
    OBVIOUS
  <2>1. PICK x \in N[n] : y \in Below(x)
    BY <1>0
  <2>2. n \in 0 .. n
    OBVIOUS
  <2>3. x \in at[n - n]
    BY <1>4, <2>2
  <2> QED
    BY <1>1, <2>1, <2>2, <2>3
<1> QED
  BY <1>4, <1>5 DEF N

-----------------------------------------------------------------------------
(* What is written for a Value.                                            *)

\* What is written for the parts at depth d, by what is for those below them.
WriteLevel(f, v, d, below) == [x \in Nested(v)[d] |-> write_payload(f, x, below)]

WriteLevels(f, v, at) == [d \in Nat |-> WriteLevel(f, v, d, at[d + 1])]

\* Below the depth at which a Value has no parts there are none.
\* Below the last depth there is nothing.
LEMMA NestedEnds ==
  ASSUME NEW v, NEW n \in Nat, Nested(v)[n + 1] = {}
  PROVE  \A j \in Nat : j >= n + 1 => Nested(v)[j] = {}
<1> DEFINE T == {j \in Nat : Nested(v)[n + 1 + j] = {}}
<1>1. 0 \in T
  <2>1. n + 1 + 0 = n + 1
    OBVIOUS
  <2> QED
    BY <2>1
<1>2. \A j \in Nat : j \in T => j + 1 \in T
  <2> SUFFICES ASSUME NEW j \in Nat, Nested(v)[n + 1 + j] = {}
               PROVE  Nested(v)[n + 1 + (j + 1)] = {}
    OBVIOUS
  <2>1. n + 1 + j \in Nat /\ n + 1 + (j + 1) = (n + 1 + j) + 1
    OBVIOUS
  <2>2. Nested(v)[(n + 1 + j) + 1] = UNION {Below(x) : x \in Nested(v)[n + 1 + j]}
    BY <2>1, NestedAre
  <2> QED
    BY <2>1, <2>2
<1>3. \A j \in Nat : j \in T
  <2> HIDE DEF T
  <2> QED
    BY <1>1, <1>2, Upward
<1> SUFFICES ASSUME NEW j \in Nat, j >= n + 1 PROVE Nested(v)[j] = {}
  OBVIOUS
<1>4. j - (n + 1) \in Nat /\ n + 1 + (j - (n + 1)) = j
  OBVIOUS
<1>5. Nested(v)[n + 1 + (j - (n + 1))] = {}
  BY <1>3, <1>4
<1> QED
  BY <1>4, <1>5

\* A Value ends at some depth, below which nothing is written.
LEMMA WriteLevelsExist ==
  ASSUME NEW f, NEW v, NEW n \in Nat, Nested(v)[n + 1] = {}
  PROVE  \E at : at = WriteLevels(f, v, at)
<1> DEFINE L(d, below) == WriteLevel(f, v, d, below)
           Good(g, k) == \A j \in Nat : j >= k => g[j] = L(j, g[j + 1])
           S == {k \in 0 .. n + 1 : \E g : Good(g, k)}
<1>1. \A j \in Nat : j >= n + 1 => Nested(v)[j] = {}
  BY NestedEnds
<1>2. \A j \in Nat : j >= n + 1 => \A g, h : L(j, g) = L(j, h)
  BY <1>1 DEF WriteLevel
<1> HIDE DEF L
<1>3. n + 1 \in S
  <2> DEFINE g == [j \in Nat |-> L(j, 0)]
  <2>1. \A j \in Nat : g[j] = L(j, 0)
    OBVIOUS
  <2> HIDE DEF g
  <2>2. Good(g, n + 1)
    BY <1>2, <2>1
  <2> QED
    BY <2>2
<1>4. \A k \in 0 .. n + 1 : k # n + 1 /\ k + 1 \in S => k \in S
  <2> SUFFICES ASSUME NEW k \in 0 .. n + 1, k # n + 1, k + 1 \in S PROVE \E g : Good(g, k)
    <3> HIDE DEF Good
    <3> QED
      OBVIOUS
  <2>0. PICK g : Good(g, k + 1)
    OBVIOUS
  <2> DEFINE h == [j \in Nat |-> IF j = k THEN L(k, g[k + 1]) ELSE g[j]]
  <2>1. \A j \in Nat : j # k => h[j] = g[j]
    OBVIOUS
  <2>2. h[k] = L(k, g[k + 1])
    OBVIOUS
  <2> HIDE DEF h
  <2>3. ASSUME NEW j \in Nat, j >= k PROVE h[j] = L(j, h[j + 1])
    <3>1. j + 1 \in Nat /\ j + 1 # k
      BY <2>3
    <3>2. h[j + 1] = g[j + 1]
      BY <2>1, <3>1
    <3>3. CASE j = k
      BY <2>2, <3>2, <3>3
    <3>4. CASE j # k
      <4>1. j >= k + 1
        BY <2>3, <3>4
      <4>2. g[j] = L(j, g[j + 1]) /\ h[j] = g[j]
        BY <2>0, <2>1, <3>4, <4>1
      <4> QED
        BY <3>2, <4>2
    <3> QED
      BY <3>3, <3>4
  <2> QED
    BY <2>3
<1>5. PICK g : Good(g, 0)
  <2> HIDE DEF S
  <2>1. \A k \in 0 .. n + 1 : k \in S
    BY <1>3, <1>4, Downward
  <2>2. 0 \in S
    BY <2>1
  <2> QED
    BY <2>2 DEF S
<1> DEFINE h == [j \in Nat |-> g[j]]
<1>6. ASSUME NEW j \in Nat PROVE h[j] = L(j, h[j + 1])
  <2>1. h[j] = g[j] /\ h[j + 1] = g[j + 1] /\ g[j] = L(j, g[j + 1])
    BY <1>5
  <2> QED
    BY <2>1
<1>7. h = [d \in Nat |-> L(d, h[d + 1])]
  <2> DEFINE hh == [d \in Nat |-> L(d, h[d + 1])]
  <2>1. ASSUME NEW j \in Nat PROVE h[j] = hh[j]
    BY <1>6
  <2> QED
    BY <2>1
<1> QED
  BY <1>7 DEF L, WriteLevels

\* What write_value does.
LEMMA WrittenAre ==
  ASSUME NEW f, NEW v, NEW n \in Nat, Nested(v)[n + 1] = {}
  PROVE  \E at : /\ \A d \in Nat : \A x \in Nested(v)[d] :
                      at[d][x] = write_payload(f, x, at[d + 1])
                 /\ write_value(f, v) = at[0][v]
<1> DEFINE at == CHOOSE g : g = WriteLevels(f, v, g)
<1>1. at = WriteLevels(f, v, at)
  BY WriteLevelsExist
<1>2. write_value(f, v) = at[0][v]
  BY Zenon DEF write_value, WriteLevels, WriteLevel
<1> HIDE DEF at
<1>3. ASSUME NEW d \in Nat, NEW x \in Nested(v)[d]
      PROVE  at[d][x] = write_payload(f, x, at[d + 1])
  <2>1. at[d] = WriteLevel(f, v, d, at[d + 1])
    BY <1>1 DEF WriteLevels
  <2> QED
    BY <2>1 DEF WriteLevel
<1> QED
  BY <1>2, <1>3

\* What is written for a Value is bytes if what is for its parts is.
LEMMA PayloadWrites ==
  ASSUME NEW f, NEW d, NEW below, NEW x \in ValueLevel(d, below), NEW inner,
         \A i \in DOMAIN Children(x) : inner[Children(x)[i]] \in Writes,
         d # 0 => \A y \in below : y[1] \in Kinds \cup {"End"}
  PROVE  write_payload(f, x, inner) \in Writes
<1>0. ValueIs(x, d, below)
  BY ValueCases
<1>1. CASE x[1] \in DOMAIN Size /\ InRange(x[2], x[1])
  <2>1. write_payload(f, x, inner) = Wrote(write_number(f, x[2], x[1]))
    BY <1>1, SizesAre DEF write_payload
  <2>2. write_number(f, x[2], x[1]) \in Seq(Byte)
    BY <1>1, IntRanges, NumberBytes DEF InRange
  <2> QED
    BY <2>1, <2>2, WroteBytes
<1>2. CASE x[1] \in DOMAIN Elem /\ x[2] \in Seq(Int)
  <2> DEFINE xs == x[2]
             kind == Elem[x[1]]
             each == [i \in DOMAIN xs |-> Wrote(write_number(f, xs[i], kind))]
             n == Len(xs)
  <2>1. write_payload(f, x, inner)
          = AndThen(write_array_length(f, n), InOrder(each))
    BY <1>2, SizesAre DEF write_payload, write_array
  <2>2. kind \in DOMAIN Size
    <3>1. kind \in {"Byte", "Int", "Long"}
      BY <1>2, SizesAre DEF Elem
    <3> QED
      BY <3>1, SizesAre
  <2>3. ASSUME NEW i \in DOMAIN xs PROVE Wrote(write_number(f, xs[i], kind)) \in Writes
    <3> HIDE DEF kind
    <3>1. xs[i] \in Int
      BY <1>2
    <3>2. write_number(f, xs[i], kind) \in Seq(Byte)
      BY <2>2, <3>1, NumberBytes
    <3> QED
      BY <3>2, WroteBytes
  <2>4. n \in Int /\ DOMAIN xs = 1 .. n /\ n \in Nat
    BY <1>2
  <2> HIDE DEF xs, kind, n
  <2>5. each \in Seq(Writes)
    BY <2>3, <2>4
  <2>6. write_array_length(f, n) \in Writes
    BY <2>4, ArrayLengthBytes
  <2> HIDE DEF each
  <2>7. InOrder(each) \in Writes
    BY <2>5, InOrderWrites
  <2> QED
    BY <2>1, <2>6, <2>7, AndThenWrites
<1>3. CASE x[1] = "String" /\ x[2] \in ByteStrings
  <2>1. write_payload(f, x, inner) = write_string(f, x[2])
    BY <1>3, SizesAre DEF write_payload
  <2> QED
    BY <1>3, <2>1, StringBytes DEF ByteStrings
<1>4. CASE x = EndTag
  <2>1. write_payload(f, x, inner) = Wrote(<<>>)
    BY <1>4 DEF write_payload, EndTag
  <2> QED
    BY <2>1, NoBytes
<1>5. CASE d # 0 /\ x[1] = "List" /\ x[2] \in Seq(below)
  <2> DEFINE xs == x[2]
             n == Len(xs)
             arm == IF xs = <<>> THEN "End" ELSE xs[1][1]
             each == [i \in DOMAIN xs |-> write_element(xs[i], arm, inner)]
  <2>1. write_payload(f, x, inner)
          = AndThen(Wrote(<<tag_byte(arm)>>),
                    AndThen(write_array_length(f, n), InOrder(each)))
    BY <1>5, SizesAre DEF write_payload, write_list
  <2>2. Children(x) = xs
    BY <1>5 DEF Children
  <2>3. n \in Nat /\ n \in Int /\ DOMAIN xs = 1 .. n
    BY <1>5
  <2>4. arm \in Kinds \cup {"End"}
    <3>1. CASE xs = <<>>
      BY <3>1
    <3>2. CASE xs # <<>>
      <4>1. xs[1] \in below
        BY <1>5, <3>2
      <4> QED
        BY <1>5, <3>2, <4>1
    <3> QED
      BY <3>1, <3>2
  <2> HIDE DEF xs, arm, n
  <2>5. ASSUME NEW i \in DOMAIN xs PROVE write_element(xs[i], arm, inner) \in Writes
    <3>1. inner[xs[i]] \in Writes
      BY <2>2
    <3> QED
      BY <3>1, NoBytes DEF write_element
  <2>6. each \in Seq(Writes)
    BY <2>3, <2>5
  <2>7. Wrote(<<tag_byte(arm)>>) \in Writes /\ write_array_length(f, n) \in Writes
    BY <2>3, <2>4, TagBytes, WroteBytes, ArrayLengthBytes
  <2> HIDE DEF each
  <2>8. InOrder(each) \in Writes
    BY <2>6, InOrderWrites
  <2> QED
    BY <2>1, <2>7, <2>8, AndThenWrites
<1>6. CASE d # 0 /\ x[1] = "Compound" /\ x[2] \in Seq(ByteStrings \X below)
  <2> DEFINE cs == x[2]
             n == Len(cs)
             each == [i \in DOMAIN cs |-> write_child(f, cs[i][1], cs[i][2], inner)]
  <2>1. write_payload(f, x, inner) = AndThen(InOrder(each), Wrote(<<0>>))
    BY <1>6, SizesAre DEF write_payload, write_compound
  <2>2. Children(x) = [j \in DOMAIN cs |-> cs[j][2]]
    BY <1>6 DEF Children
  <2>3. n \in Nat /\ DOMAIN cs = 1 .. n
    BY <1>6
  <2>4. ASSUME NEW i \in DOMAIN cs
        PROVE  write_child(f, cs[i][1], cs[i][2], inner) \in Writes
    <3> DEFINE name == cs[i][1]
               c == cs[i][2]
    <3>1. name \in Seq(Byte) /\ c \in below
      <4>1. cs[i] \in ByteStrings \X below
        BY <1>6
      <4> QED
        BY <4>1 DEF ByteStrings
    <3>2. inner[c] \in Writes
      BY <2>2
    <3>3. c[1] \in Kinds \cup {"End"}
      BY <1>6, <3>1
    <3> HIDE DEF name, c
    <3>4. Wrote(<<tag_byte(c[1])>>) \in Writes
      BY <3>3, TagBytes, WroteBytes
    <3>5. write_string(f, name) \in Writes
      BY <3>1, StringBytes
    <3>6. AndThen(write_string(f, name), inner[c]) \in Writes
      BY <3>2, <3>5, AndThenWrites
    <3>7. write_child(f, name, c, inner) \in Writes
      BY <3>4, <3>6, AndThenWrites DEF write_child
    <3> QED
      BY <3>7 DEF name, c
  <2> HIDE DEF cs, n
  <2>5. each \in Seq(Writes)
    BY <2>3, <2>4
  <2>6. Wrote(<<0>>) \in Writes
    <3>1. 0 \in Byte
      BY DEF Byte
    <3> QED
      BY <3>1, OneByte, WroteBytes
  <2> HIDE DEF each
  <2>7. InOrder(each) \in Writes
    BY <2>5, InOrderWrites
  <2> QED
    BY <2>1, <2>6, <2>7, AndThenWrites
<1> QED
  BY <1>0, <1>1, <1>2, <1>3, <1>4, <1>5, <1>6 DEF ValueIs

\* The parts of a Value at each depth, and what is written for them.
WrittenAs(f, v, w) ==
  \A d \in Nat : \A x \in Nested(v)[d] : w[d][x] = write_payload(f, x, w[d + 1])

LEMMA WrittenIs ==
  ASSUME NEW f, NEW v, NEW n \in Nat, Nested(v)[n + 1] = {}
  PROVE  \E w : WrittenAs(f, v, w) /\ write_value(f, v) = w[0][v]
BY WrittenAre DEF WrittenAs

\* The parts of a Value, by depth: what they are, and that their writes are bytes.
LEMMA PartsWritten ==
  ASSUME NEW f, NEW n \in Nat, NEW v \in Values(n), NEW w, WrittenAs(f, v, w)
  PROVE  \A d \in Nat : \A x \in Nested(v)[d] :
           /\ w[d][x] \in Writes /\ x[1] \in Kinds \cup {"End"}
           /\ \E l, levels : x \in ValueLevel(l, levels)
<1>1. PICK at : /\ \A d \in 0 .. n : at[d] = ValueLevel(d, at[d - 1])
                /\ Values(n) = at[n]
  BY ValuesAre
<1>2. v \in at[n] /\ n \in 0 .. n
  BY <1>1
<1>3. /\ \A d \in 0 .. n : Nested(v)[d] \subseteq at[n - d]
      /\ Nested(v)[n + 1] = {}
  BY <1>1, <1>2, NestedTyped
<1>5. \A d \in 0 .. n : \A y \in at[d] : y[1] \in Kinds \cup {"End"}
  BY <1>1, ValueKind
<1> DEFINE S == {d \in 0 .. n + 1 : \A x \in Nested(v)[d] : w[d][x] \in Writes}
<1>6. n + 1 \in S
  BY <1>3
<1>7. \A d \in 0 .. n + 1 : d # n + 1 /\ d + 1 \in S => d \in S
  <2> SUFFICES ASSUME NEW d \in 0 .. n + 1, d # n + 1,
                      \A x \in Nested(v)[d + 1] : w[d + 1][x] \in Writes,
                      NEW x \in Nested(v)[d]
               PROVE  w[d][x] \in Writes
    OBVIOUS
  <2>1. d \in Nat /\ d \in 0 .. n /\ n - d \in 0 .. n
    OBVIOUS
  <2> DEFINE below == at[(n - d) - 1]
  <2>2. x \in ValueLevel(n - d, below)
    BY <1>1, <1>3, <2>1
  <2>3. \A i \in DOMAIN Children(x) : w[d + 1][Children(x)[i]] \in Writes
    BY <2>1, NestedChild
  <2>4. n - d # 0 => \A y \in below : y[1] \in Kinds \cup {"End"}
    <3>1. n - d # 0 => (n - d) - 1 \in 0 .. n
      BY <2>1
    <3> QED
      BY <1>5, <3>1
  <2> HIDE DEF below
  <2>5. write_payload(f, x, w[d + 1]) \in Writes
    BY <2>2, <2>3, <2>4, PayloadWrites
  <2> QED
    BY <2>1, <2>5 DEF WrittenAs
<1>8. \A d \in 0 .. n + 1 : d \in S
  <2> HIDE DEF S
  <2> QED
    BY <1>6, <1>7, Downward
<1> SUFFICES ASSUME NEW d \in Nat, NEW x \in Nested(v)[d]
             PROVE  /\ w[d][x] \in Writes /\ x[1] \in Kinds \cup {"End"}
                    /\ \E l, levels : x \in ValueLevel(l, levels)
  OBVIOUS
<1>9. d \in 0 .. n /\ d \in 0 .. n + 1 /\ n - d \in 0 .. n
  <2>1. d >= n + 1 => Nested(v)[d] = {}
    BY <1>3, NestedEnds
  <2>2. ~ (d >= n + 1)
    BY <2>1
  <2> QED
    BY <2>2
<1>10. x \in at[n - d] /\ x \in ValueLevel(n - d, at[(n - d) - 1])
  BY <1>1, <1>3, <1>9
<1> QED
  BY <1>5, <1>8, <1>9, <1>10

\* What write_value appends is bytes.
LEMMA ValueWrites ==
  ASSUME NEW f, NEW n \in Nat, NEW v \in Values(n)
  PROVE  write_value(f, v) \in Writes /\ v[1] \in Kinds \cup {"End"}
<1>1. PICK at : /\ \A d \in 0 .. n : at[d] = ValueLevel(d, at[d - 1])
                /\ Values(n) = at[n]
  BY ValuesAre
<1>2. Nested(v)[n + 1] = {}
  BY <1>1, NestedTyped
<1>3. PICK w : WrittenAs(f, v, w) /\ write_value(f, v) = w[0][v]
  BY <1>2, WrittenIs
<1>4. v \in Nested(v)[0]
  BY NestedAre
<1> QED
  BY <1>3, <1>4, PartsWritten

\* A named root.
LEMMA NamedWrites ==
  ASSUME NEW f, NEW n \in Nat, NEW name \in Seq(Byte), NEW v \in Values(n)
  PROVE  encode_named(f, <<name, v>>) \in Writes
<1>1. write_value(f, v) \in Writes /\ v[1] \in Kinds \cup {"End"}
  BY ValueWrites
<1>2. encode_named(f, <<name, v>>) =
        IF v = EndTag THEN Wrote(<<0>>)
        ELSE AndThen(Wrote(<<tag_byte(v[1])>>),
             AndThen(write_string(f, name), write_value(f, v)))
  BY DEF encode_named
<1>3. Wrote(<<0>>) \in Writes
  <2>1. 0 \in Byte
    BY DEF Byte
  <2> QED
    BY <2>1, OneByte, WroteBytes
<1>4. Wrote(<<tag_byte(v[1])>>) \in Writes
  BY <1>1, TagBytes, WroteBytes
<1>5. AndThen(write_string(f, name), write_value(f, v)) \in Writes
  BY <1>1, StringBytes, AndThenWrites
<1> QED
  BY <1>2, <1>3, <1>4, <1>5, AndThenWrites

\* An anonymous root.
LEMMA AnonymousWrites ==
  ASSUME NEW n \in Nat, NEW v \in Values(n)
  PROVE  encode_java_anonymous(v) \in Writes
<1> DEFINE w == write_value("JavaAnonymousRoot", v)
<1>1. w \in Writes /\ v[1] \in Kinds \cup {"End"}
  BY ValueWrites
<1>2. encode_java_anonymous(v) =
        IF v = EndTag THEN Wrote(<<0>>) ELSE AndThen(Wrote(<<tag_byte(v[1])>>), w)
  BY DEF encode_java_anonymous
<1> HIDE DEF w
<1>3. Wrote(<<0>>) \in Writes
  <2>1. 0 \in Byte
    BY DEF Byte
  <2> QED
    BY <2>1, OneByte, WroteBytes
<1>4. Wrote(<<tag_byte(v[1])>>) \in Writes
  BY <1>1, TagBytes, WroteBytes
<1> QED
  BY <1>1, <1>2, <1>3, <1>4, AndThenWrites

\* What encode appends is bytes, for every root of Values of any depth, whether
\* or not it fails half way.
THEOREM EncodesBytes ==
  ASSUME NEW f \in Formats, NEW n \in Nat, NEW nv \in Seq(Byte) \X Values(n)
  PROVE  encode(f, nv).ok \in BOOLEAN /\ encode(f, nv).out \in Seq(Byte)
<1>1. PICK name \in Seq(Byte), v \in Values(n) : nv = <<name, v>>
  OBVIOUS
<1>2. encode(f, nv) \in Writes
  <2>1. CASE f = "JavaAnonymousRoot"
    <3>1. encode(f, nv) = encode_java_anonymous(v)
      BY <1>1, <2>1 DEF encode
    <3> QED
      BY <3>1, AnonymousWrites
  <2>2. CASE f # "JavaAnonymousRoot"
    <3>1. encode(f, nv) = encode_named(f, <<name, v>>)
      BY <1>1, <2>2 DEF encode, encode_java_named, encode_bedrock_le,
                        encode_bedrock_varint, Formats, Java, Bedrock
    <3> QED
      BY <3>1, NamedWrites
  <2> QED
    BY <2>1, <2>2
<1> QED
  BY <1>2 DEF Writes

-----------------------------------------------------------------------------
(* Reading back what was written.                                          *)

\* The buffer has `out` at p, as far as it goes: it may end within.
Stand(in, p, out) ==
  \A i \in 1 .. Len(out) : p + i <= Len(in) => in[p + i] = out[i]

\* What a reader at p makes of m bytes that x was written as: x, or the end of
\* the input if they are not all there; or it is past its depth, if it may be.
Gets(r, x, p, m, n, deep) ==
  /\ r.ok \in BOOLEAN
  /\ r.ok => r.v = x /\ r.pos = p + m /\ p + m <= n
  /\ ~ r.ok => \/ r.v = "UnexpectedEndOfInput" /\ p + m > n
               \/ r.v = "LimitExceeded" /\ deep

\* Two pieces that stand as one stand each.
LEMMA StandBoth ==
  ASSUME NEW in, NEW p \in Nat, NEW x \in Seq(Byte), NEW y \in Seq(Byte),
         Stand(in, p, x \o y)
  PROVE  Stand(in, p, x) /\ Stand(in, p + Len(x), y)
<1>0. /\ Len(x) \in Nat /\ Len(y) \in Nat /\ Len(x \o y) = Len(x) + Len(y)
      /\ \A i \in 1 .. Len(x) : (x \o y)[i] = x[i]
      /\ \A i \in 1 .. Len(y) : (x \o y)[Len(x) + i] = y[i]
  OBVIOUS
<1>1. Stand(in, p, x)
  <2> SUFFICES ASSUME NEW i \in 1 .. Len(x), p + i <= Len(in)
               PROVE  in[p + i] = x[i]
    BY DEF Stand
  <2>1. i \in 1 .. Len(x \o y)
    BY <1>0
  <2> QED
    BY <1>0, <2>1 DEF Stand
<1>2. Stand(in, p + Len(x), y)
  <2> SUFFICES ASSUME NEW i \in 1 .. Len(y), (p + Len(x)) + i <= Len(in)
               PROVE  in[(p + Len(x)) + i] = y[i]
    BY DEF Stand
  <2> DEFINE j == Len(x) + i
  <2>1. j \in 1 .. Len(x \o y) /\ (p + Len(x)) + i = p + j
    BY <1>0
  <2> HIDE DEF j
  <2>2. in[p + j] = (x \o y)[j]
    BY <2>1 DEF Stand
  <2>3. (x \o y)[j] = y[i]
    BY <1>0 DEF j
  <2> QED
    BY <2>1, <2>2, <2>3
<1> QED
  BY <1>1, <1>2

\* One call after another: where the first leaves off the second begins.
LEMMA GetsChain ==
  ASSUME NEW p \in Nat, NEW m \in Nat, NEW k \in Nat, NEW n \in Nat, NEW deep,
         NEW r, NEW a, NEW t, NEW x,
         Gets(r, a, p, m, n, deep),
         r.ok => Gets(t, x, p + m, k, n, deep),
         ~ r.ok => t = r
  PROVE  Gets(t, x, p, m + k, n, deep)
BY DEF Gets

\* A call whose result is only put in another form.
LEMMA GetsAs ==
  ASSUME NEW p, NEW m, NEW n, NEW deep, NEW r, NEW a, NEW t, NEW x,
         Gets(r, a, p, m, n, deep),
         t = IF r.ok THEN Ok(x, r.pos) ELSE r
  PROVE  Gets(t, x, p, m, n, deep)
BY DEF Gets, Ok

\* Nothing to read.
LEMMA GetsNothing ==
  ASSUME NEW n \in Nat, NEW p \in 0 .. n, NEW deep, NEW x
  PROVE  Gets(Ok(x, p), x, p, 0, n, deep)
BY DEF Gets, Ok

\* Sequences of one length and with the same elements are one.
LEMMA SameBytes ==
  ASSUME NEW s \in Seq(Byte), NEW t \in Seq(Byte), Len(s) = Len(t),
         \A i \in 1 .. Len(t) : s[i] = t[i]
  PROVE  s = t
OBVIOUS

\* take.
LEMMA TakeGets ==
  ASSUME NEW in \in Seq(Byte), NEW p \in Offsets(in), NEW n \in Nat,
         NEW size \in {1, 2, 4, 8}, NEW out \in Seq(Byte),
         Spans(Len(out), n, size), Stand(in, p, out), NEW deep
  PROVE  Gets(take(in, p, n, size), out, p, Len(out), Len(in), deep)
<1> DEFINE r == take(in, p, n, size)
<1>9. PICK m \in Nat : m = Len(out) /\ Spans(m, n, size)
  OBVIOUS
<1>0. m \in Nat /\ Len(in) \in Nat /\ p \in Nat
  BY DEF Offsets
<1>8. Spans(m, n, size)
  BY <1>9
<1>1. /\ Yields(r, p, Len(in))
      /\ r.ok <=> p + m <= Len(in)
      /\ r.ok => /\ r.v \in Seq(Byte) /\ Len(r.v) = m
                 /\ r.pos = p + m
                 /\ \A i \in 1 .. m : r.v[i] = in[p + i]
      /\ ~ r.ok => r.v = "UnexpectedEndOfInput" /\ r.pos = p
  BY <1>8, TakeYields
<1> HIDE DEF r
<1>2. r.ok => r.v = out
  <2> SUFFICES ASSUME r.ok PROVE r.v = out
    OBVIOUS
  <2>1. \A i \in 1 .. m : p + i <= Len(in)
    BY <1>0, <1>1
  <2>2. \A i \in 1 .. m : in[p + i] = out[i]
    BY <2>1, <1>9 DEF Stand
  <2>3. \A i \in 1 .. Len(out) : r.v[i] = out[i]
    BY <1>1, <1>9, <2>2
  <2> QED
    BY <1>1, <1>9, <2>3, SameBytes
<1>3. r.ok \in BOOLEAN
  BY <1>1 DEF Yields
<1> QED
  BY <1>0, <1>9, <1>1, <1>2, <1>3 DEF Gets, r

\* The number of a tag.
LEMMA TagNumber ==
  ASSUME NEW kind \in Kinds
  PROVE  LET b == tag_byte(kind) IN
         b \in DOMAIN TagIds /\ TagIds[b] = kind /\ b # 0
<1>1. kind # "End"
  BY DEF Kinds, TagIds
<1>2. \E i \in DOMAIN TagIds : TagIds[i] = kind
  BY DEF Kinds
<1>3. tag_byte(kind) = CHOOSE i \in DOMAIN TagIds : TagIds[i] = kind
  BY <1>1 DEF tag_byte
<1>4. tag_byte(kind) \in DOMAIN TagIds /\ TagIds[tag_byte(kind)] = kind
  BY <1>2, <1>3
<1>5. 0 \notin DOMAIN TagIds
  BY DEF TagIds
<1> QED
  BY <1>4, <1>5

\* read_tag_byte.
LEMMA TagGets ==
  ASSUME NEW in \in Seq(Byte), NEW p \in Offsets(in), NEW kind \in Kinds \cup {"End"},
         Stand(in, p, <<tag_byte(kind)>>), NEW deep
  PROVE  Gets(read_tag_byte(in, p), kind, p, 1, Len(in), deep)
<1> DEFINE b == tag_byte(kind)
           u == take(in, p, 1, 1)
           r == read_tag_byte(in, p)
<1>1. <<b>> \in Seq(Byte) /\ Len(<<b>>) = 1 /\ Spans(Len(<<b>>), 1, 1) /\ 1 \in Nat
  BY TagBytes DEF Spans
<1>2. Gets(u, <<b>>, p, 1, Len(in), deep)
  BY <1>1, TakeGets
<1>3. r = IF ~ u.ok THEN u
          ELSE IF u.v[1] = 0 THEN Ok("End", u.pos)
          ELSE IF u.v[1] \in DOMAIN TagIds THEN Ok(TagIds[u.v[1]], u.pos)
          ELSE Err("UnknownTagId", u.pos)
  BY DEF read_tag_byte, Then
<1> HIDE DEF u, r
<1>4. CASE ~ u.ok
  BY <1>2, <1>3, <1>4 DEF Gets, r
<1>5. CASE u.ok
  <2>1. u.v[1] = b
    BY <1>2, <1>5 DEF Gets
  <2>2. r = Ok(kind, u.pos)
    <3>1. CASE kind = "End"
      <4>1. b = 0
        BY <3>1 DEF tag_byte
      <4> HIDE DEF b
      <4> QED
        BY <1>3, <1>5, <2>1, <3>1, <4>1
    <3>2. CASE kind # "End"
      <4>1. b \in DOMAIN TagIds /\ TagIds[b] = kind /\ b # 0
        BY <3>2, TagNumber
      <4> HIDE DEF b
      <4> QED
        BY <1>3, <1>5, <2>1, <4>1
    <3> QED
      BY <3>1, <3>2
  <2>3. r = IF u.ok THEN Ok(kind, u.pos) ELSE u
    BY <1>5, <2>2
  <2> HIDE DEF b
  <2> QED
    BY <1>2, <2>3, GetsAs DEF r
<1> QED
  BY <1>4, <1>5

\* A VarInt of n bytes: all but the last have the 128 bit.
IsVar(out, n) ==
  /\ out \in Seq(Byte) /\ Len(out) = n /\ n \in Nat /\ n >= 1
  /\ \A i \in 1 .. n : i < n <=> out[i] >= 128

digits(out) == [i \in 1 .. Len(out) |-> out[i] % 128]

\* read_uvarint.
LEMMA UvarintGets ==
  ASSUME NEW in \in Seq(Byte), NEW p \in Offsets(in), NEW most \in {5, 10},
         NEW out, NEW n, IsVar(out, n), n <= most, Stand(in, p, out), NEW deep
  PROVE  Gets(read_uvarint(in, p, most), digits(out), p, n, Len(in), deep)
<1> DEFINE left == Len(in) - p
           last == {i \in 1 .. most : i <= left /\ in[p + i] < 128}
           r == read_uvarint(in, p, most)
           c == CHOOSE i \in last : \A j \in last : i <= j
<1>0. /\ n \in Nat /\ n >= 1 /\ Len(in) \in Nat /\ p \in Nat /\ p <= Len(in)
      /\ left \in Nat /\ most \in Nat
  BY DEF IsVar, Offsets
<1>1. r = IF last # {}
          THEN Ok([i \in 1 .. c |-> in[p + i] % 128], p + c)
          ELSE IF left < most THEN Err("UnexpectedEndOfInput", p + left)
          ELSE Err("InvalidVarInt", p + most)
  BY DEF read_uvarint
<1>2. \A i \in 1 .. n : i <= left => in[p + i] = out[i]
  BY <1>0 DEF IsVar, Stand
<1>3. \A i \in 1 .. n : out[i] \in Int
  <2> SUFFICES ASSUME NEW i \in 1 .. n PROVE out[i] \in Int
    OBVIOUS
  <2>1. out[i] \in Byte
    BY DEF IsVar
  <2> QED
    BY <2>1, ByteIs
<1>4. CASE n <= left
  <2>1. n \in last
    <3>1. out[n] < 128
      BY <1>0, <1>3 DEF IsVar
    <3> QED
      BY <1>0, <1>2, <1>4, <3>1
  <2>2. \A j \in last : n <= j
    <3> SUFFICES ASSUME NEW j \in last, j < n PROVE FALSE
      BY <1>0
    <3>1. j \in 1 .. n /\ in[p + j] < 128 /\ j <= left
      BY <1>0
    <3>2. out[j] >= 128 /\ in[p + j] = out[j] /\ out[j] \in Int
      BY <3>1, <1>2, <1>3, <1>0 DEF IsVar
    <3> QED
      BY <3>1, <3>2
  <2>3. c = n
    <3>1. c \in last /\ \A j \in last : c <= j
      <4> HIDE DEF last
      <4> QED
        BY <2>1, <2>2
    <3>2. c \in Nat
      BY <3>1
    <3> HIDE DEF c, last
    <3> QED
      BY <2>1, <2>2, <3>1, <3>2, <1>0
  <2>4. r = Ok([i \in 1 .. n |-> in[p + i] % 128], p + n)
    <3> HIDE DEF c, last, r
    <3> QED
      BY <1>1, <2>1, <2>3
  <2>5. [i \in 1 .. n |-> in[p + i] % 128] = digits(out)
    <3>1. Len(out) = n
      BY DEF IsVar
    <3>2. \A i \in 1 .. n : in[p + i] = out[i]
      BY <1>0, <1>2, <1>4
    <3> QED
      BY <3>1, <3>2 DEF digits
  <2>6. p + n <= Len(in)
    BY <1>0, <1>4
  <2> HIDE DEF r
  <2>7. r = Ok(digits(out), p + n)
    BY <2>4, <2>5
  <2> QED
    BY <2>6, <2>7 DEF Gets, Ok, r
<1>5. CASE ~ (n <= left)
  <2>1. last = {}
    <3> SUFFICES ASSUME NEW j \in last PROVE FALSE
      OBVIOUS
    <3>1. j \in 1 .. n /\ j < n /\ in[p + j] < 128 /\ j <= left
      BY <1>0, <1>5
    <3>2. out[j] >= 128 /\ in[p + j] = out[j] /\ out[j] \in Int
      BY <3>1, <1>2, <1>3, <1>0 DEF IsVar
    <3> QED
      BY <3>1, <3>2
  <2>2. left < most /\ p + n > Len(in)
    BY <1>0, <1>5
  <2>3. r = Err("UnexpectedEndOfInput", p + left)
    BY <1>1, <2>1, <2>2
  <2> HIDE DEF r, last, left
  <2> QED
    BY <2>2, <2>3 DEF Gets, Err, r
<1> QED
  BY <1>4, <1>5

-----------------------------------------------------------------------------
(* Numbers.                                                                *)

\* Turning bytes round twice.
LEMMA TwiceRound ==
  ASSUME NEW f, NEW b \in Seq(Byte)
  PROVE  big_endian(f, big_endian(f, b)) = b
<1>1. CASE f \in Java
  BY <1>1 DEF big_endian
<1>2. CASE f \notin Java
  <2> DEFINE t == Reverse(b)
  <2>1. /\ t \in Seq(Byte) /\ Len(t) = Len(b) /\ Len(b) \in Nat
        /\ \A i \in 1 .. Len(b) : t[i] = b[(Len(b) - i) + 1]
    BY DEF Reverse
  <2>2. big_endian(f, big_endian(f, b)) = Reverse(t)
    BY <1>2 DEF big_endian
  <2> HIDE DEF t
  <2>3. /\ Reverse(t) \in Seq(Byte) /\ Len(Reverse(t)) = Len(t)
        /\ \A i \in 1 .. Len(t) : Reverse(t)[i] = t[(Len(t) - i) + 1]
    BY <2>1 DEF Reverse
  <2>4. ASSUME NEW i \in 1 .. Len(b) PROVE Reverse(t)[i] = b[i]
    <3> DEFINE j == (Len(b) - i) + 1
    <3>1. j \in 1 .. Len(b) /\ (Len(b) - j) + 1 = i
      BY <2>1
    <3>2. Reverse(t)[i] = t[j]
      BY <2>1, <2>3
    <3> HIDE DEF j
    <3>3. t[j] = b[(Len(b) - j) + 1]
      BY <2>1, <3>1
    <3> QED
      BY <3>1, <3>2, <3>3
  <2> QED
    BY <2>1, <2>2, <2>3, <2>4, SameBytes
<1> QED
  BY <1>1, <1>2

\* A number by its bytes: the lower ones, and the rest of it.
LEMMA Div256 ==
  ASSUME NEW x \in Int
  PROVE  /\ x \div 256 \in Int /\ x % 256 \in 0 .. 255
         /\ x = 256 * (x \div 256) + (x % 256)
BY SMT

\* What `top` makes of the highest byte.
LEMMA TopBack ==
  ASSUME NEW x \in Int, -128 <= x, x <= 127
  PROVE  top(x % 256) = x
BY SMT DEF top

InInt32(x) == x \in Int /\ -INT32_MAX - 1 <= x /\ x <= INT32_MAX

\* x by what remains of it when one, two or three bytes are taken off.
Remains(x, e, g, h) ==
  /\ e \in Int /\ g \in Int /\ h \in Int
  /\ e = x \div 256 /\ g = e \div 256 /\ h = g \div 256
  /\ -128 <= h /\ h <= 127

LEMMA ScaleIs == Scale[1] = 1 /\ Scale[2] = 256
BY SMT DEF Scale

LEMMA RemainsOf ==
  ASSUME NEW x, InInt32(x)
  PROVE  /\ Remains(x, x \div Scale[2], x \div Scale[3], x \div Scale[4])
         /\ x \div Scale[1] = x
<1>1. x \in Int /\ -INT32_MAX - 1 <= x /\ x <= INT32_MAX
  BY DEF InInt32
<1>2. x \div Scale[2] = x \div 256
  BY ScaleIs
<1>3. x \div Scale[3] = (x \div 256) \div 256
  BY <1>1, SMT DEF Scale
<1>4. x \div Scale[4] = ((x \div 256) \div 256) \div 256
  BY <1>1, SMT DEF Scale
<1>5. x \div Scale[1] = x
  BY <1>1, SMT DEF Scale
<1>6. /\ x \div 256 \in Int /\ (x \div 256) \div 256 \in Int
      /\ ((x \div 256) \div 256) \div 256 \in Int
      /\ -128 <= ((x \div 256) \div 256) \div 256
      /\ ((x \div 256) \div 256) \div 256 <= 127
  BY <1>1, SMT DEF INT32_MAX
<1> QED
  BY <1>2, <1>3, <1>4, <1>5, <1>6, SMT DEF Remains

LEMMA WordBack ==
  ASSUME NEW x \in Int, NEW e, NEW g, NEW h, Remains(x, e, g, h), NEW b,
         b[1] = h % 256, b[2] = g % 256, b[3] = e % 256, b[4] = x % 256
  PROVE  word(b) = x
<1>1. x = 256 * e + (x % 256) /\ x % 256 \in Int
  BY Div256 DEF Remains
<1>2. e = 256 * g + (e % 256) /\ e % 256 \in Int
  BY Div256 DEF Remains
<1>3. g = 256 * h + (g % 256) /\ g % 256 \in Int
  BY Div256 DEF Remains
<1>4. top(h % 256) = h
  BY TopBack DEF Remains
<1>5. word(b) = ((top(h % 256) * 256 + (g % 256)) * 256 + (e % 256)) * 256 + (x % 256)
  <2>1. /\ top(b[1]) = top(h % 256) /\ b[2] = g % 256
        /\ b[3] = e % 256 /\ b[4] = x % 256
    BY Zenon
  <2> QED
    BY <2>1, Zenon DEF word
<1>6. e \in Int /\ g \in Int /\ h \in Int
  BY DEF Remains
<1> QED
  BY <1>1, <1>2, <1>3, <1>4, <1>5, <1>6, SMT

\* The bytes of a number.
LEMMA BytesOf ==
  ASSUME NEW x \in Int, NEW n \in {1, 2, 4, 8}
  PROVE  LET b == big_endian_bytes(x, n) IN
         /\ b \in Seq(Byte) /\ Len(b) = n
         /\ \A i \in 1 .. n :
              b[i] = IF n - i >= 4 THEN (IF x < 0 THEN 255 ELSE 0)
                     ELSE (x \div Scale[n - i + 1]) % 256
<1> DEFINE c(i) == IF n - i >= 4 THEN (IF x < 0 THEN 255 ELSE 0)
                   ELSE (x \div Scale[n - i + 1]) % 256
           b == big_endian_bytes(x, n)
<1>1. b = [i \in 1 .. n |-> c(i)]
  BY DEF big_endian_bytes
<1>2. b \in Seq(Byte)
  BY BigEndianBytes
<1> HIDE DEF b, c
<1>3. Len(b) = n /\ \A i \in 1 .. n : b[i] = c(i)
  BY <1>1
<1> QED
  BY <1>2, <1>3 DEF b, c

LEMMA DivOne ==
  ASSUME NEW x \in Int
  PROVE  x \div 1 = x
BY SMT

\* Reading the bytes of a number gives the number.
LEMMA SignedBack1 ==
  ASSUME NEW x \in Int, -128 <= x, x <= 127
  PROVE  signed(big_endian_bytes(x, 1)) = x
<1> DEFINE b == big_endian_bytes(x, 1)
<1>1. Len(b) = 1 /\ b[1] = (x \div Scale[1]) % 256
  <2>1. 1 \in 1 .. 1 /\ ~ (1 - 1 >= 4) /\ 1 - 1 + 1 = 1 /\ 1 \in {1, 2, 4, 8}
    OBVIOUS
  <2> QED
    BY <2>1, BytesOf
<1>2. signed(b) = top(b[1])
  BY <1>1 DEF signed
<1> HIDE DEF b
<1> QED
  BY <1>1, <1>2, ScaleIs, DivOne, TopBack DEF b

LEMMA SignedBack2 ==
  ASSUME NEW x \in Int, -32768 <= x, x <= 32767
  PROVE  signed(big_endian_bytes(x, 2)) = x
<1> DEFINE b == big_endian_bytes(x, 2)
           e == x \div 256
<1>1. /\ Len(b) = 2 /\ b[1] = (x \div Scale[2]) % 256
      /\ b[2] = (x \div Scale[1]) % 256
  <2>1. /\ 1 \in 1 .. 2 /\ ~ (2 - 1 >= 4) /\ 2 - 1 + 1 = 2 /\ 2 \in {1, 2, 4, 8}
        /\ 2 \in 1 .. 2 /\ ~ (2 - 2 >= 4) /\ 2 - 2 + 1 = 1
    OBVIOUS
  <2>2. /\ Len(b) = 2
        /\ \A i \in 1 .. 2 :
              b[i] = IF 2 - i >= 4 THEN (IF x < 0 THEN 255 ELSE 0)
                     ELSE (x \div Scale[2 - i + 1]) % 256
    BY <2>1, BytesOf
  <2> HIDE DEF b
  <2> QED
    BY <2>1, <2>2
<1>2. signed(b) = top(b[1]) * 256 + b[2]
  BY <1>1 DEF signed
<1>3. e \in Int /\ x = 256 * e + (x % 256) /\ x % 256 \in Int /\ -128 <= e /\ e <= 127
  BY SMT
<1>4. b[1] = e % 256 /\ b[2] = x % 256
  BY <1>1, ScaleIs, DivOne
<1> HIDE DEF b, e
<1>5. top(b[1]) = e
  BY <1>3, <1>4, TopBack
<1> QED
  BY <1>2, <1>3, <1>4, <1>5, SMT DEF b

LEMMA UnsignedBack ==
  ASSUME NEW x \in Nat, x <= 65535, NEW b, b = big_endian_bytes(x, 2)
  PROVE  unsigned(b) = x
<1> DEFINE e == x \div 256
<1>1. /\ Len(b) = 2 /\ b[1] = (x \div Scale[2]) % 256
      /\ b[2] = (x \div Scale[1]) % 256
  <2>1. /\ 1 \in 1 .. 2 /\ ~ (2 - 1 >= 4) /\ 2 - 1 + 1 = 2 /\ 2 \in {1, 2, 4, 8}
        /\ 2 \in 1 .. 2 /\ ~ (2 - 2 >= 4) /\ 2 - 2 + 1 = 1
    OBVIOUS
  <2>2. /\ Len(b) = 2
        /\ \A i \in 1 .. 2 :
              b[i] = IF 2 - i >= 4 THEN (IF x < 0 THEN 255 ELSE 0)
                     ELSE (x \div Scale[2 - i + 1]) % 256
    BY <2>1, BytesOf
  <2> QED
    BY <2>1, <2>2
<1>2. unsigned(b) = b[1] * 256 + b[2]
  BY DEF unsigned
<1>3. e \in Int /\ x = 256 * e + (x % 256) /\ x % 256 \in Int /\ 0 <= e /\ e <= 255
  BY SMT
<1>4. b[1] = e % 256 /\ b[2] = x % 256
  BY <1>1, ScaleIs, DivOne
<1> HIDE DEF e
<1>5. e % 256 = e
  BY <1>3, SMT
<1> QED
  BY <1>2, <1>3, <1>4, <1>5, SMT

LEMMA SignedBack4 ==
  ASSUME NEW x, InInt32(x)
  PROVE  signed(big_endian_bytes(x, 4)) = x
<1> DEFINE b == big_endian_bytes(x, 4)
<1>0. x \in Int
  BY DEF InInt32
<1>1. /\ Len(b) = 4 /\ b[1] = (x \div Scale[4]) % 256
      /\ b[2] = (x \div Scale[3]) % 256 /\ b[3] = (x \div Scale[2]) % 256
      /\ b[4] = (x \div Scale[1]) % 256
  <2>1. /\ 1 \in 1 .. 4 /\ ~ (4 - 1 >= 4) /\ 4 - 1 + 1 = 4 /\ 4 \in {1, 2, 4, 8}
        /\ 2 \in 1 .. 4 /\ ~ (4 - 2 >= 4) /\ 4 - 2 + 1 = 3
        /\ 3 \in 1 .. 4 /\ ~ (4 - 3 >= 4) /\ 4 - 3 + 1 = 2
        /\ 4 \in 1 .. 4 /\ ~ (4 - 4 >= 4) /\ 4 - 4 + 1 = 1
    OBVIOUS
  <2>2. /\ Len(b) = 4
        /\ \A i \in 1 .. 4 :
              b[i] = IF 4 - i >= 4 THEN (IF x < 0 THEN 255 ELSE 0)
                     ELSE (x \div Scale[4 - i + 1]) % 256
    BY <1>0, <2>1, BytesOf
  <2> HIDE DEF b
  <2> QED
    BY <2>1, <2>2
<1>2. signed(b) = word(b)
  BY <1>1 DEF signed
<1> HIDE DEF b
<1> QED
  BY <1>0, <1>1, <1>2, RemainsOf, WordBack DEF b

LEMMA SignedBack8 ==
  ASSUME NEW x, InInt32(x)
  PROVE  signed(big_endian_bytes(x, 8)) = x
<1> DEFINE b == big_endian_bytes(x, 8)
           t == SubSeq(b, 5, 8)
<1>0. x \in Int
  BY DEF InInt32
<1>1. /\ Len(b) = 8 /\ b \in Seq(Byte)
      /\ \A i \in 1 .. 4 : b[i] = IF x < 0 THEN 255 ELSE 0
      /\ b[5] = (x \div Scale[4]) % 256
      /\ b[6] = (x \div Scale[3]) % 256 /\ b[7] = (x \div Scale[2]) % 256
      /\ b[8] = (x \div Scale[1]) % 256
  <2>1. /\ 5 \in 1 .. 8 /\ ~ (8 - 5 >= 4) /\ 8 - 5 + 1 = 4 /\ 8 \in {1, 2, 4, 8}
        /\ 6 \in 1 .. 8 /\ ~ (8 - 6 >= 4) /\ 8 - 6 + 1 = 3
        /\ 7 \in 1 .. 8 /\ ~ (8 - 7 >= 4) /\ 8 - 7 + 1 = 2
        /\ 8 \in 1 .. 8 /\ ~ (8 - 8 >= 4) /\ 8 - 8 + 1 = 1
        /\ \A i \in 1 .. 4 : i \in 1 .. 8 /\ 8 - i >= 4
    OBVIOUS
  <2>2. /\ Len(b) = 8 /\ b \in Seq(Byte)
        /\ \A i \in 1 .. 8 :
              b[i] = IF 8 - i >= 4 THEN (IF x < 0 THEN 255 ELSE 0)
                     ELSE (x \div Scale[8 - i + 1]) % 256
    BY <1>0, <2>1, BytesOf
  <2> HIDE DEF b
  <2> QED
    BY <2>1, <2>2
<1>2. signed(b) = IF \A i \in 1 .. 4 : b[i] = (IF word(t) < 0 THEN 255 ELSE 0)
                  THEN word(t) ELSE Wide
  BY <1>1 DEF signed
<1> HIDE DEF b
<1>3. t[1] = b[5] /\ t[2] = b[6] /\ t[3] = b[7] /\ t[4] = b[8]
  BY <1>1
<1> HIDE DEF t
<1>4. word(t) = x
  BY <1>0, <1>1, <1>3, RemainsOf, WordBack
<1> QED
  BY <1>1, <1>2, <1>4 DEF b

\* A number in the range of its kind.
LEMMA RangeIs ==
  ASSUME NEW x, NEW kind \in DOMAIN Size, InRange(x, kind)
  PROVE  /\ x \in Int /\ InInt32(x)
         /\ Size[kind] = 1 => -128 <= x /\ x <= 127
         /\ Size[kind] = 2 => -32768 <= x /\ x <= 32767
<1>1. x \in Int /\ -INT32_MAX - 1 <= x /\ x <= INT32_MAX
  BY IntRanges DEF InRange
<1>2. InInt32(x)
  BY <1>1 DEF InInt32
<1>3. Size[kind] = 1 => kind = "Byte"
  BY DEF Size
<1>4. Size[kind] = 2 => kind = "Short"
  BY DEF Size
<1>5. x \in Int8 => -128 <= x /\ x <= 127
  BY SMT DEF Int8, INT8_MAX
<1>6. x \in Int16 => -32768 <= x /\ x <= 32767
  <2>1. INT16_MAX = 32767
    BY SMT DEF INT16_MAX
  <2>2. INT16_MAX \in Int
    BY <2>1, SMT
  <2>3. x \in Int16 => -INT16_MAX - 1 <= x /\ x <= INT16_MAX
    BY <2>2, SMT DEF Int16
  <2> QED
    BY <2>1, <2>3, SMT
<1>7. (kind = "Byte" => x \in Int8) /\ (kind = "Short" => x \in Int16)
  BY DEF InRange
<1> DEFINE size == Size[kind]
<1> HIDE DEF size
<1>8. size = 1 => -128 <= x /\ x <= 127
  BY <1>3, <1>5, <1>7 DEF size
<1>9. size = 2 => -32768 <= x /\ x <= 32767
  BY <1>4, <1>6, <1>7 DEF size
<1> QED
  BY <1>1, <1>2, <1>8, <1>9 DEF size

LEMMA SignedBack ==
  ASSUME NEW x, NEW kind \in DOMAIN Size, InRange(x, kind)
  PROVE  signed(big_endian_bytes(x, Size[kind])) = x
<1>1. Size[kind] \in {1, 2, 4, 8}
  BY DEF Size
<1> DEFINE n == Size[kind]
<1>2. CASE n = 1
  BY <1>2, RangeIs, SignedBack1
<1>3. CASE n = 2
  BY <1>3, RangeIs, SignedBack2
<1>4. CASE n = 4
  BY <1>4, RangeIs, SignedBack4
<1>5. CASE n = 8
  BY <1>5, RangeIs, SignedBack8
<1> QED
  BY <1>1, <1>2, <1>3, <1>4, <1>5

\* The weights grow, and 0 is left of a number below one of them.
LEMMA WeightsGrow ==
  /\ \A i \in 1 .. 5 : Weights[i] \in Nat /\ Weights[i] > 0
  /\ \A i, j \in 1 .. 5 : i <= j => Weights[i] <= Weights[j]
<1> DEFINE W(i) == Weights[i]
<1>1. /\ W(1) \in Nat /\ W(2) \in Nat /\ W(3) \in Nat /\ W(4) \in Nat /\ W(5) \in Nat
      /\ 0 < W(1) /\ W(1) < W(2) /\ W(2) < W(3) /\ W(3) < W(4) /\ W(4) < W(5)
  BY SMT DEF Weights
<1>2. \A i \in 1 .. 5 : i = 1 \/ i = 2 \/ i = 3 \/ i = 4 \/ i = 5
  OBVIOUS
<1> HIDE DEF W
<1>3. \A i \in 1 .. 5 : W(i) \in Nat /\ W(i) > 0
  BY <1>1, <1>2
<1>4. \A i, j \in 1 .. 5 : i <= j => W(i) <= W(j)
  BY <1>1, <1>2
<1> QED
  BY <1>3, <1>4 DEF W

LEMMA DivBelow ==
  ASSUME NEW u \in Nat, NEW w \in Nat, u < w
  PROVE  u \div w = 0
BY SMT

\* A byte of a VarInt is a digit and perhaps the 128 bit.
LEMMA DigitByte ==
  ASSUME NEW d \in Int
  PROVE  /\ (d % 128) \in Digit
         /\ ((d % 128) + 128) % 128 = d % 128 /\ ((d % 128) + 128) >= 128
         /\ ((d % 128) + 0) % 128 = d % 128 /\ ~ ((d % 128) + 0 >= 128)
BY SMT DEF Digit

\* The digits of a VarInt.
LEMMA UvarintDigits ==
  ASSUME NEW u \in Nat
  PROVE  LET out == write_uvarint(u) IN
         /\ IsVar(out, Len(out)) /\ Len(out) <= 5
         /\ Len(out) = uvarint_size(u)
         /\ \A i \in 1 .. 5 : digit(digits(out), i) = (u \div Weights[i]) % 128
<1> DEFINE n == uvarint_size(u)
           q(i) == u \div Weights[i]
           out == write_uvarint(u)
<1>1. n \in 1 .. 5 /\ (n = 5 \/ u < Weights[n + 1])
  BY UvarintSize
<1>2. out = [i \in 1 .. n |-> (q(i) % 128) + (IF i < n THEN 128 ELSE 0)]
  BY DEF write_uvarint
<1>3. \A i \in 1 .. 5 : q(i) \in Int
  <2> SUFFICES ASSUME NEW i \in 1 .. 5 PROVE q(i) \in Int
    OBVIOUS
  <2> DEFINE w == Weights[i]
  <2>1. w \in Nat /\ w > 0
    BY WeightsGrow
  <2> HIDE DEF w
  <2>2. u \div w \in Int
    BY <2>1, SMT
  <2> QED
    BY <2>2 DEF w
<1>4. ASSUME NEW i \in 1 .. 5, i > n PROVE q(i) = 0
  <2>1. n + 1 \in 1 .. 5 /\ n + 1 <= i
    BY <1>1, <1>4
  <2>2. u < Weights[n + 1] /\ Weights[n + 1] <= Weights[i] /\ Weights[i] \in Nat
        /\ Weights[n + 1] \in Nat
    BY <1>1, <1>4, <2>1, WeightsGrow
  <2> DEFINE w == Weights[i]
             z == Weights[n + 1]
  <2> HIDE DEF w, z
  <2>3. u < w
    BY <2>2 DEF w, z
  <2> QED
    BY <2>2, <2>3, DivBelow DEF w
<1>5. out \in Seq(Byte)
  BY UvarintBytes
<1> HIDE DEF n, q, out
<1>6. Len(out) = n /\ n \in Nat
  BY <1>1, <1>2
<1>7. \A i \in 1 .. n : out[i] = (q(i) % 128) + (IF i < n THEN 128 ELSE 0)
  BY <1>2
<1>8. \A i \in 1 .. n : i \in 1 .. 5
  BY <1>1
<1>9. \A i \in 1 .. n : (i < n <=> out[i] >= 128) /\ out[i] % 128 = q(i) % 128
  <2> SUFFICES ASSUME NEW i \in 1 .. n
               PROVE  (i < n <=> out[i] >= 128) /\ out[i] % 128 = q(i) % 128
    OBVIOUS
  <2>1. q(i) \in Int
    BY <1>3, <1>8
  <2>2. CASE i < n
    <3>1. out[i] = (q(i) % 128) + 128
      BY <1>7, <2>2
    <3> QED
      BY <2>1, <2>2, <3>1, DigitByte
  <2>3. CASE ~ (i < n)
    <3>1. out[i] = (q(i) % 128) + 0
      BY <1>7, <2>3
    <3> QED
      BY <2>1, <2>3, <3>1, DigitByte
  <2> QED
    BY <2>2, <2>3
<1>10. IsVar(out, Len(out)) /\ Len(out) <= 5
  BY <1>1, <1>5, <1>6, <1>9 DEF IsVar
<1>11. digits(out) = [i \in 1 .. n |-> out[i] % 128]
  BY <1>6 DEF digits
<1>12. ASSUME NEW i \in 1 .. 5 PROVE digit(digits(out), i) = q(i) % 128
  <2>1. Len(digits(out)) = n
    BY <1>6, <1>11
  <2>2. CASE i <= n
    <3>1. i \in 1 .. n
      BY <1>6, <2>2
    <3>2. digits(out)[i] = out[i] % 128
      BY <1>11, <3>1
    <3> QED
      BY <1>9, <2>1, <2>2, <3>1, <3>2 DEF digit
  <2>3. CASE ~ (i <= n)
    <3>1. q(i) = 0
      BY <1>4, <1>6, <2>3
    <3>2. 0 % 128 = 0
      BY SMT
    <3> QED
      BY <2>1, <2>3, <3>1, <3>2 DEF digit
  <2> QED
    BY <2>2, <2>3
<1> QED
  BY <1>6, <1>10, <1>12 DEF n, q, out

\* u by what remains of it when seven bits at a time are taken off.
Sevens(u, q2, q3, q4, q5) ==
  /\ u \in Nat /\ q2 \in Nat /\ q3 \in Nat /\ q4 \in Nat /\ q5 \in Nat
  /\ q2 = u \div 128 /\ q3 = q2 \div 128 /\ q4 = q3 \div 128 /\ q5 = q4 \div 128

LEMMA Div128 ==
  ASSUME NEW u \in Nat
  PROVE  /\ u \div 128 \in Nat /\ u % 128 \in 0 .. 127
         /\ u = 128 * (u \div 128) + (u % 128)
BY SMT

LEMMA SevensOf ==
  ASSUME NEW u \in Nat
  PROVE  /\ Sevens(u, u \div Weights[2], u \div Weights[3], u \div Weights[4],
                   u \div Weights[5])
         /\ u \div Weights[1] = u
<1> DEFINE p2 == u \div 128
           p3 == p2 \div 128
           p4 == p3 \div 128
           p5 == p4 \div 128
<1>1. p2 \in Nat /\ p3 \in Nat /\ p4 \in Nat /\ p5 \in Nat
  <2>1. p2 \in Nat
    BY Div128
  <2>2. p3 \in Nat
    BY <2>1, Div128
  <2>3. p4 \in Nat
    BY <2>2, Div128
  <2>4. p5 \in Nat
    BY <2>3, Div128
  <2> QED
    BY <2>1, <2>2, <2>3, <2>4
<1>2. u \div Weights[2] = p2 /\ u \div Weights[1] = u
  BY SMT DEF Weights
<1>3. u \div Weights[3] = p3
  BY SMT DEF Weights
<1>4. u \div Weights[4] = p4
  BY SMT DEF Weights
<1>5. u \div Weights[5] = p5
  BY SMT DEF Weights
<1> QED
  BY <1>1, <1>2, <1>3, <1>4, <1>5, SMT DEF Sevens

\* half, by its digits.
HasDigits(ds, q2, q3, q4, q5) ==
  /\ q2 \in Nat /\ q3 \in Nat /\ q4 \in Nat /\ q5 \in Nat /\ q5 < 16
  /\ digit(ds, 2) = q2 - 128 * q3 /\ digit(ds, 3) = q3 - 128 * q4
  /\ digit(ds, 4) = q4 - 128 * q5 /\ digit(ds, 5) = q5

LEMMA HalfIs ==
  ASSUME NEW ds, NEW q2, NEW q3, NEW q4, NEW q5,
         HasDigits(ds, q2, q3, q4, q5), digit(ds, 1) \in Nat
  PROVE  half(ds) = (digit(ds, 1) \div 2) + 64 * q2
<1>0. /\ q2 \in Nat /\ q3 \in Nat /\ q4 \in Nat /\ q5 \in Nat /\ q5 < 16
      /\ digit(ds, 2) = q2 - 128 * q3 /\ digit(ds, 3) = q3 - 128 * q4
      /\ digit(ds, 4) = q4 - 128 * q5 /\ digit(ds, 5) = q5
  BY DEF HasDigits
<1> DEFINE e == digit(ds, 1)
           h == e \div 2
<1>1. half(ds) = h + 64 * digit(ds, 2) + 8192 * digit(ds, 3)
                 + 1048576 * digit(ds, 4) + 134217728 * (digit(ds, 5) % 16)
  BY SMT DEF half
<1>2. q5 % 16 = q5
  BY <1>0, SMT
<1>3. h \in Int
  BY SMT
<1> HIDE DEF h
<1>4. half(ds) = h + 64 * (q2 - 128 * q3) + 8192 * (q3 - 128 * q4)
                 + 1048576 * (q4 - 128 * q5) + 134217728 * q5
  BY <1>0, <1>1, <1>2, SMT
<1>5. half(ds) = h + 64 * q2
  BY <1>0, <1>3, <1>4, SMT
<1> QED
  BY <1>5 DEF h

\* A length comes back.
LEMMA LengthBack ==
  ASSUME NEW u \in Nat, u <= INT32_MAX
  PROVE  as_length(digits(write_uvarint(u))) = u
<1> DEFINE ds == digits(write_uvarint(u))
<1>1. PICK q2, q3, q4, q5 :
        /\ Sevens(u, q2, q3, q4, q5)
        /\ digit(ds, 1) = u % 128 /\ digit(ds, 2) = q2 % 128
        /\ digit(ds, 3) = q3 % 128 /\ digit(ds, 4) = q4 % 128
        /\ digit(ds, 5) = q5 % 128
  <2>1. /\ 1 \in 1 .. 5 /\ 2 \in 1 .. 5 /\ 3 \in 1 .. 5 /\ 4 \in 1 .. 5 /\ 5 \in 1 .. 5
    OBVIOUS
  <2> DEFINE q(i) == u \div Weights[i]
  <2>2. \A i \in 1 .. 5 : digit(ds, i) = q(i) % 128
    BY UvarintDigits
  <2>3. Sevens(u, q(2), q(3), q(4), q(5)) /\ q(1) = u
    BY SevensOf
  <2> HIDE DEF q, ds
  <2> QED
    BY <2>1, <2>2, <2>3
<1>2. Len(ds) >= 1
  <2>1. IsVar(write_uvarint(u), Len(write_uvarint(u)))
    BY UvarintDigits
  <2> QED
    BY <2>1 DEF IsVar, digits
<1> HIDE DEF ds
<1>3. digit(ds, 1) = ds[1]
  BY <1>2 DEF digit
<1>4. /\ u = 128 * q2 + (u % 128) /\ u % 128 \in 0 .. 127
      /\ q2 = 128 * q3 + (q2 % 128) /\ q3 = 128 * q4 + (q3 % 128)
      /\ q4 = 128 * q5 + (q4 % 128)
      /\ q2 \in Nat /\ q3 \in Nat /\ q4 \in Nat /\ q5 \in Nat
      /\ q2 % 128 \in Nat /\ q3 % 128 \in Nat /\ q4 % 128 \in Nat
  BY <1>1, Div128 DEF Sevens
<1>5. q5 <= 7
  <2> DEFINE a == u % 128
             b == q2 % 128
             c == q3 % 128
             d == q4 % 128
  <2> HIDE DEF a, b, c, d
  <2>1. /\ u = 128 * q2 + a /\ q2 = 128 * q3 + b /\ q3 = 128 * q4 + c
        /\ q4 = 128 * q5 + d
        /\ a \in Nat /\ b \in Nat /\ c \in Nat /\ d \in Nat
    BY <1>4 DEF a, b, c, d
  <2>2. u <= 2147483647
    BY SMT DEF INT32_MAX
  <2> QED
    BY <1>4, <2>1, <2>2, SMT
<1>6. q5 % 128 = q5
  BY <1>4, <1>5, SMT
<1>7. half(ds) = (digit(ds, 1) \div 2) + 64 * q2
  <2>1. digit(ds, 1) \in Nat
    BY <1>1, <1>4
  <2>2. digit(ds, 2) = q2 - 128 * q3 /\ digit(ds, 3) = q3 - 128 * q4
        /\ digit(ds, 4) = q4 - 128 * q5
    BY <1>1, <1>4
  <2>3. digit(ds, 5) = q5 /\ q5 < 16
    BY <1>1, <1>4, <1>5, <1>6
  <2>4. q2 \in Nat /\ q3 \in Nat /\ q4 \in Nat /\ q5 \in Nat
    BY <1>4
  <2>5. HasDigits(ds, q2, q3, q4, q5)
    BY <2>2, <2>3, <2>4 DEF HasDigits
  <2> QED
    BY <2>1, <2>5, HalfIs, Zenon
<1> DEFINE e == u % 128
           h == half(ds)
<1>8. h = (e \div 2) + 64 * q2 /\ ds[1] = e /\ u = 128 * q2 + e /\ e \in 0 .. 127
  BY <1>1, <1>3, <1>4, <1>7
<1>9. as_length(ds) = IF h >= 1073741824 THEN 2147483647 ELSE 2 * h + (ds[1] % 2)
  BY SMT DEF as_length
<1> HIDE DEF e, h
<1>10. h \in Int /\ e = 2 * (e \div 2) + (e % 2) /\ e \div 2 \in Int /\ e % 2 \in Int
  BY <1>4, <1>8, SMT
<1>11. 2 * h + (e % 2) = u
  BY <1>4, <1>8, <1>10, SMT
<1>12. h < 1073741824
  <2>1. u <= 2147483647
    BY SMT DEF INT32_MAX
  <2>2. e % 2 >= 0
    BY <1>8, SMT
  <2> QED
    BY <1>10, <1>11, <2>1, <2>2, SMT
<1>13. as_length(ds) = u
  BY <1>8, <1>9, <1>10, <1>11, <1>12, SMT
<1> QED
  BY <1>13 DEF ds

\* A VarInt with one more byte before it.
LEMMA VarintCons ==
  ASSUME NEW w, NEW k, IsVar(w, k), NEW b \in Byte, b >= 128
  PROVE  LET out == <<b>> \o w IN
         /\ IsVar(out, k + 1) /\ Len(out) = k + 1
         /\ digits(out)[1] = b % 128 /\ digit(digits(out), 1) = b % 128
         /\ \A i \in Nat : i >= 1 => digit(digits(out), i + 1) = digit(digits(w), i)
<1> DEFINE out == <<b>> \o w
<1>0. w \in Seq(Byte) /\ Len(w) = k /\ k \in Nat /\ k >= 1
  BY DEF IsVar
<1>1. /\ out \in Seq(Byte) /\ Len(out) = k + 1 /\ out[1] = b
      /\ \A i \in 1 .. k : out[i + 1] = w[i]
  BY <1>0
<1> HIDE DEF out
<1>2. IsVar(out, k + 1)
  <2> SUFFICES ASSUME NEW i \in 1 .. k + 1 PROVE i < k + 1 <=> out[i] >= 128
    BY <1>0, <1>1 DEF IsVar
  <2>1. CASE i = 1
    BY <1>0, <1>1, <2>1
  <2>2. CASE i # 1
    <3> DEFINE j == i - 1
    <3>1. j \in 1 .. k /\ i = j + 1
      BY <1>0, <2>2
    <3> HIDE DEF j
    <3>2. out[i] = w[j]
      BY <1>1, <3>1
    <3>3. j < k <=> w[j] >= 128
      BY <3>1 DEF IsVar
    <3> QED
      BY <1>0, <3>1, <3>2, <3>3
  <2> QED
    BY <2>1, <2>2
<1>3. /\ Len(digits(out)) = k + 1 /\ Len(digits(w)) = k
      /\ \A i \in 1 .. k + 1 : digits(out)[i] = out[i] % 128
      /\ \A i \in 1 .. k : digits(w)[i] = w[i] % 128
  BY <1>0, <1>1 DEF digits
<1>4. ASSUME NEW i \in Nat, i >= 1
      PROVE  digit(digits(out), i + 1) = digit(digits(w), i)
  <2>1. CASE i <= k
    <3>1. i \in 1 .. k /\ i + 1 \in 1 .. k + 1 /\ i + 1 <= k + 1
      BY <1>0, <1>4, <2>1
    <3> QED
      BY <1>1, <1>3, <2>1, <3>1 DEF digit
  <2>2. CASE ~ (i <= k)
    <3>1. ~ (i + 1 <= k + 1)
      BY <1>0, <2>2
    <3> QED
      BY <1>3, <2>2, <3>1 DEF digit
  <2> QED
    BY <2>1, <2>2
<1>5. 1 <= k + 1 /\ 1 \in 1 .. k + 1
  BY <1>0
<1>6. digits(out)[1] = b % 128 /\ digit(digits(out), 1) = b % 128
  BY <1>1, <1>3, <1>5 DEF digit
<1> QED
  BY <1>1, <1>2, <1>4, <1>6 DEF out

\* The VarInt that a number is written as comes back, and so does the number.
Spells(out, x) ==
  /\ IsVar(out, Len(out)) /\ Len(out) <= 5
  /\ zigzag(digits(out)) = x /\ fits32(digits(out))

LEMMA SpellsOf ==
  ASSUME NEW x \in Int, NEW m, m = IF x < 0 THEN - (x + 1) ELSE x,
         NEW out, NEW d \in Nat, d % 2 = IF x < 0 THEN 1 ELSE 0,
         IsVar(out, Len(out)), Len(out) <= 5,
         digits(out)[1] = d, half(digits(out)) = m,
         digit(digits(out), 5) \in Nat, digit(digits(out), 5) < 16
  PROVE  Spells(out, x)
<1> DEFINE ds == digits(out)
<1>1. Len(ds) = Len(out) /\ Len(out) \in Nat
  BY DEF IsVar, digits
<1>2. zigzag(ds) = IF ds[1] % 2 = 1 THEN - half(ds) - 1 ELSE half(ds)
  BY DEF zigzag
<1> HIDE DEF ds
<1>3. zigzag(ds) = x
  <2>1. half(ds) = m /\ ds[1] = d
    BY DEF ds
  <2>2. CASE x < 0
    BY <1>2, <2>1, <2>2
  <2>3. CASE ~ (x < 0)
    BY <1>2, <2>1, <2>3
  <2> QED
    BY <2>2, <2>3
<1>4. \A i \in 6 .. 10 : digit(ds, i) = 0
  BY <1>1 DEF digit
<1>5. fits32(ds)
  <2>1. 10 \in 6 .. 10 /\ 0 % 2 = 0 /\ \A i \in 6 .. 9 : i \in 6 .. 10
    BY SMT
  <2>2. digit(ds, 5) < 16
    BY DEF ds
  <2>3. digit(ds, 10) % 2 = 0
    BY <1>4, <2>1
  <2> QED
    BY <1>4, <2>1, <2>2, <2>3 DEF fits32
<1> QED
  BY <1>3, <1>5 DEF Spells, ds

\* One byte is enough ...
LEMMA ZigzagShort ==
  ASSUME NEW d \in 0 .. 127
  PROVE  LET out == <<d>> IN
         /\ IsVar(out, 1) /\ Len(out) = 1 /\ digits(out)[1] = d
         /\ half(digits(out)) = d \div 2 /\ digit(digits(out), 5) = 0
<1> DEFINE out == <<d>>
           ds == digits(out)
<1>1. d \in Byte /\ ~ (d >= 128) /\ d \in Nat
  BY DEF Byte
<1>2. out \in Seq(Byte) /\ Len(out) = 1 /\ out[1] = d
  BY <1>1
<1> HIDE DEF out
<1>3. IsVar(out, 1)
  <2>1. \A i \in 1 .. 1 : i = 1 /\ ~ (i < 1)
    OBVIOUS
  <2> QED
    BY <1>1, <1>2, <2>1 DEF IsVar
<1>4. Len(ds) = 1 /\ ds[1] = d
  <2>1. d % 128 = d
    BY SMT
  <2> QED
    BY <1>2, <2>1 DEF digits
<1> HIDE DEF ds
<1>5. digit(ds, 1) = d /\ digit(ds, 2) = 0 /\ digit(ds, 3) = 0 /\ digit(ds, 4) = 0
      /\ digit(ds, 5) = 0
  BY <1>4 DEF digit
<1>6. half(ds) = (d \div 2) + 64 * 0
  <2>1. 0 = 0 - 128 * 0 /\ 0 < 16 /\ 0 \in Nat
    OBVIOUS
  <2>2. HasDigits(ds, 0, 0, 0, 0)
    BY <1>5, <2>1 DEF HasDigits
  <2>3. digit(ds, 1) \in Nat
    BY <1>1, <1>5
  <2>4. half(ds) = (digit(ds, 1) \div 2) + 64 * 0
    BY <2>2, <2>3, HalfIs, Zenon
  <2> QED
    BY <1>5, <2>4
<1>7. d \div 2 \in Int
  BY SMT
<1>8. half(ds) = d \div 2
  BY <1>6, <1>7
<1> QED
  BY <1>2, <1>3, <1>4, <1>5, <1>8 DEF out, ds

\* ... or more follow.
LEMMA ZigzagLong ==
  ASSUME NEW d \in 0 .. 127, NEW h \in Nat, 64 * h <= INT32_MAX
  PROVE  LET out == <<128 + d>> \o write_uvarint(h) IN
         /\ IsVar(out, Len(out)) /\ Len(out) <= 5 /\ digits(out)[1] = d
         /\ half(digits(out)) = (d \div 2) + 64 * h
         /\ digit(digits(out), 5) \in Nat /\ digit(digits(out), 5) < 16
<1> DEFINE w == write_uvarint(h)
           out == <<128 + d>> \o w
           ds == digits(out)
<1>1. 128 + d \in Byte /\ 128 + d >= 128 /\ (128 + d) % 128 = d /\ d \in Nat
  BY SMT DEF Byte
<1>2. IsVar(w, Len(w)) /\ Len(w) = uvarint_size(h)
      /\ \A i \in 1 .. 5 : digit(digits(w), i) = (h \div Weights[i]) % 128
  BY UvarintDigits
<1>3. Len(w) <= 4
  <2> DEFINE n == uvarint_size(h)
  <2>1. n \in 1 .. 5 /\ (n = 1 \/ h >= Weights[n])
    BY UvarintSize
  <2>2. ~ (h >= Weights[5])
    BY SMT DEF Weights, INT32_MAX
  <2>3. n # 5
    <3> SUFFICES ASSUME n = 5 PROVE FALSE
      OBVIOUS
    <3> QED
      BY <2>1, <2>2
  <2> HIDE DEF n
  <2> QED
    BY <1>2, <2>1, <2>3 DEF n
<1>4. PICK q2, q3, q4, q5 :
        /\ Sevens(h, q2, q3, q4, q5)
        /\ digit(digits(w), 1) = h % 128 /\ digit(digits(w), 2) = q2 % 128
        /\ digit(digits(w), 3) = q3 % 128 /\ digit(digits(w), 4) = q4 % 128
  <2>1. 1 \in 1 .. 5 /\ 2 \in 1 .. 5 /\ 3 \in 1 .. 5 /\ 4 \in 1 .. 5
    OBVIOUS
  <2> DEFINE q(i) == h \div Weights[i]
  <2>2. \A i \in 1 .. 5 : digit(digits(w), i) = q(i) % 128
    BY <1>2
  <2>3. Sevens(h, q(2), q(3), q(4), q(5)) /\ q(1) = h
    BY SevensOf
  <2> HIDE DEF q, w
  <2> QED
    BY <2>1, <2>2, <2>3
<1> HIDE DEF w
<1>5. /\ IsVar(out, Len(w) + 1) /\ Len(out) = Len(w) + 1
      /\ ds[1] = d /\ digit(ds, 1) = d
      /\ \A i \in Nat : i >= 1 => digit(ds, i + 1) = digit(digits(w), i)
  <2>1. PICK b \in Byte : b = 128 + d /\ b >= 128 /\ b % 128 = d
    BY <1>1
  <2>2. out = <<b>> \o w
    BY <2>1
  <2> HIDE DEF out
  <2>3. /\ IsVar(out, Len(w) + 1) /\ Len(out) = Len(w) + 1
        /\ digits(out)[1] = b % 128 /\ digit(digits(out), 1) = b % 128
        /\ \A i \in Nat : i >= 1 => digit(digits(out), i + 1) = digit(digits(w), i)
    BY <1>2, <2>1, <2>2, VarintCons
  <2> QED
    BY <2>1, <2>3
<1> HIDE DEF out, ds
<1>6. digit(ds, 2) = h % 128 /\ digit(ds, 3) = q2 % 128 /\ digit(ds, 4) = q3 % 128
      /\ digit(ds, 5) = q4 % 128
  <2>1. digit(ds, 1 + 1) = digit(digits(w), 1) /\ digit(ds, 2 + 1) = digit(digits(w), 2)
        /\ digit(ds, 3 + 1) = digit(digits(w), 3) /\ digit(ds, 4 + 1) = digit(digits(w), 4)
    BY <1>5
  <2>2. 1 + 1 = 2 /\ 2 + 1 = 3 /\ 3 + 1 = 4 /\ 4 + 1 = 5
    OBVIOUS
  <2> QED
    BY <1>4, <2>1, <2>2
<1>7. /\ h = 128 * q2 + (h % 128) /\ q2 = 128 * q3 + (q2 % 128)
      /\ q3 = 128 * q4 + (q3 % 128)
      /\ q2 \in Nat /\ q3 \in Nat /\ q4 \in Nat
      /\ h % 128 \in Nat /\ q2 % 128 \in Nat /\ q3 % 128 \in Nat
  BY <1>4, Div128 DEF Sevens
<1>8. q4 <= 15
  <2> DEFINE a == h % 128
             b == q2 % 128
             c == q3 % 128
  <2> HIDE DEF a, b, c
  <2>1. /\ h = 128 * q2 + a /\ q2 = 128 * q3 + b /\ q3 = 128 * q4 + c
        /\ a \in Nat /\ b \in Nat /\ c \in Nat
    BY <1>7 DEF a, b, c
  <2>2. 64 * h <= 2147483647
    BY SMT DEF INT32_MAX
  <2> QED
    BY <1>7, <2>1, <2>2, SMT
<1>9. q4 % 128 = q4
  BY <1>7, <1>8, SMT
<1>10. half(ds) = (digit(ds, 1) \div 2) + 64 * h
  <2>1. digit(ds, 1) \in Nat
    BY <1>1, <1>5
  <2>2. digit(ds, 2) = h - 128 * q2 /\ digit(ds, 3) = q2 - 128 * q3
        /\ digit(ds, 4) = q3 - 128 * q4
    BY <1>6, <1>7
  <2>3. digit(ds, 5) = q4 /\ q4 < 16
    BY <1>6, <1>7, <1>8, <1>9
  <2>4. q2 \in Nat /\ q3 \in Nat /\ q4 \in Nat
    BY <1>7
  <2>5. HasDigits(ds, h, q2, q3, q4)
    BY <2>2, <2>3, <2>4 DEF HasDigits
  <2> QED
    BY <2>1, <2>5, HalfIs, Zenon
<1>11. Len(out) <= 5 /\ IsVar(out, Len(out))
  <2>1. Len(w) \in Nat
    BY <1>2 DEF IsVar
  <2> QED
    BY <1>3, <1>5, <2>1
<1>12. digit(ds, 5) \in Nat /\ digit(ds, 5) < 16
  BY <1>6, <1>7, <1>8, <1>9
<1> QED
  BY <1>5, <1>10, <1>11, <1>12 DEF out, ds, w

LEMMA ZigzagBack ==
  ASSUME NEW x, InInt32(x)
  PROVE  Spells(write_zigzag(x), x)
<1> DEFINE m == IF x < 0 THEN - (x + 1) ELSE x
           s == IF x < 0 THEN 1 ELSE 0
           low == m % 64
           h == m \div 64
           d == 2 * low + s
           out == write_zigzag(x)
<1>1. x \in Int /\ m \in Nat /\ m <= INT32_MAX /\ INT32_MAX \in Int
  <2>1. x \in Int /\ -INT32_MAX - 1 <= x /\ x <= INT32_MAX
    BY DEF InInt32
  <2>2. INT32_MAX \in Int
    BY SMT DEF INT32_MAX
  <2> QED
    BY <2>1, <2>2
<1>2. out = IF m < 64 THEN <<d>> ELSE <<128 + d>> \o write_uvarint(h)
  BY DEF write_zigzag
<1>3. s \in {0, 1}
  OBVIOUS
<1> HIDE DEF m
<1>4. low \in 0 .. 63 /\ h \in Nat /\ m = 64 * h + low
  BY <1>1, SMT
<1>5. m < 64 => low = m
  BY <1>1, SMT
<1> HIDE DEF low, h
<1>6. 64 * h <= INT32_MAX
  BY <1>1, <1>4
<1> HIDE DEF s
<1>7. d \in 0 .. 127 /\ d \div 2 = low /\ d % 2 = s /\ d \in Nat
  BY <1>3, <1>4, SMT
<1> HIDE DEF d, out
<1>8. CASE m < 64
  <2>1. out = <<d>>
    BY <1>2, <1>8
  <2>2. /\ IsVar(out, 1) /\ Len(out) = 1 /\ digits(out)[1] = d
        /\ half(digits(out)) = d \div 2 /\ digit(digits(out), 5) = 0
    BY <1>7, <2>1, ZigzagShort
  <2>3. 1 <= 5 /\ 0 < 16 /\ 0 \in Nat
    OBVIOUS
  <2>4. half(digits(out)) = m
    BY <1>5, <1>7, <1>8, <2>2
  <2> QED
    BY <1>1, <1>7, <2>2, <2>3, <2>4, SpellsOf DEF m, s, out
<1>9. CASE ~ (m < 64)
  <2> DEFINE o == <<128 + d>> \o write_uvarint(h)
  <2>4. /\ IsVar(o, Len(o)) /\ Len(o) <= 5 /\ digits(o)[1] = d
        /\ half(digits(o)) = (d \div 2) + 64 * h
        /\ digit(digits(o), 5) \in Nat /\ digit(digits(o), 5) < 16
    BY <1>4, <1>6, <1>7, ZigzagLong
  <2>1. out = o
    BY <1>2, <1>9
  <2> HIDE DEF o
  <2>2. /\ IsVar(out, Len(out)) /\ Len(out) <= 5 /\ digits(out)[1] = d
        /\ half(digits(out)) = (d \div 2) + 64 * h
        /\ digit(digits(out), 5) \in Nat /\ digit(digits(out), 5) < 16
    BY <2>1, <2>4
  <2>3. half(digits(out)) = m
    BY <1>4, <1>7, <2>2
  <2> QED
    BY <1>1, <1>7, <2>2, <2>3, SpellsOf DEF m, s, out
<1> QED
  BY <1>8, <1>9

\* What was read is itself what a reader that keeps nothing returns.
LEMMA GetsAny ==
  ASSUME NEW r, NEW x, NEW p, NEW m, NEW n, NEW deep, Gets(r, x, p, m, n, deep)
  PROVE  Gets(r, r.v, p, m, n, deep)
BY DEF Gets

\* read_number and skip_number, where numbers of the kind have one size ...
LEMMA FixedGets ==
  ASSUME NEW f, NEW in \in Seq(Byte), NEW p \in Offsets(in),
         NEW kind \in DOMAIN Size, NEW x, InRange(x, kind), ~ IsVarInt(f, kind),
         NEW out, out = write_number(f, x, kind), Stand(in, p, out), NEW deep
  PROVE  LET s == skip_number(f, in, p, kind) IN
         /\ Gets(read_number(f, in, p, kind), x, p, Len(out), Len(in), deep)
         /\ Gets(s, s.v, p, Len(out), Len(in), deep)
         /\ Len(out) = Size[kind]
<1> DEFINE n == Size[kind]
           b == big_endian_bytes(x, n)
           u == take(in, p, n, 1)
           s == skip_number(f, in, p, kind)
           r == read_number(f, in, p, kind)
<1>0. n \in {1, 2, 4, 8} /\ n \in Nat /\ x \in Int
  <2>1. n \in {1, 2, 4, 8}
    BY DEF Size
  <2> QED
    BY <2>1, RangeIs
<1>1. out = big_endian(f, b)
  BY DEF write_number
<1>2. b \in Seq(Byte) /\ Len(b) = n
  <2>1. x \in Int /\ n \in {1, 2, 4, 8}
    BY <1>0
  <2> HIDE DEF n
  <2> QED
    BY <2>1, BytesOf
<1>3. signed(b) = x
  BY SignedBack
<1>4. r = IF u.ok THEN Ok(signed(big_endian(f, u.v)), u.pos) ELSE u
  BY DEF read_number, read_int, Then
<1>5. s = take(in, p, 1, n)
  BY DEF skip_number
<1> HIDE DEF b, r, n
<1>6. out \in Seq(Byte) /\ Len(out) = n /\ big_endian(f, out) = b
  BY <1>1, <1>2, ReverseBytes, TwiceRound
<1>7. Gets(u, out, p, Len(out), Len(in), deep)
  <2>1. Spans(Len(out), n, 1) /\ 1 \in {1, 2, 4, 8}
    BY <1>0, <1>6 DEF Spans
  <2> QED
    BY <1>0, <1>6, <2>1, TakeGets
<1>8. Gets(s, out, p, Len(out), Len(in), deep)
  <2>1. Spans(Len(out), 1, n) /\ 1 \in Nat
    BY <1>0, <1>6 DEF Spans
  <2> HIDE DEF s
  <2> QED
    BY <1>0, <1>5, <1>6, <2>1, TakeGets
<1> HIDE DEF u, s
<1>9. r = IF u.ok THEN Ok(x, u.pos) ELSE u
  <2>1. CASE u.ok
    <3>1. u.v = out
      BY <1>7, <2>1 DEF Gets
    <3> QED
      BY <1>3, <1>4, <1>6, <2>1, <3>1
  <2>2. CASE ~ u.ok
    BY <1>4, <2>2
  <2> QED
    BY <2>1, <2>2
<1>10. Gets(r, x, p, Len(out), Len(in), deep)
  BY <1>7, <1>9, GetsAs
<1>11. Gets(s, s.v, p, Len(out), Len(in), deep)
  BY <1>8, GetsAny
<1> QED
  BY <1>6, <1>10, <1>11 DEF r, s, n

\* ... and where they are VarInts.
LEMMA VarGets ==
  ASSUME NEW f, NEW in \in Seq(Byte), NEW p \in Offsets(in),
         NEW kind \in DOMAIN Size, NEW x, InRange(x, kind), IsVarInt(f, kind),
         NEW out, out = write_number(f, x, kind), Stand(in, p, out), NEW deep
  PROVE  LET s == skip_number(f, in, p, kind) IN
         /\ Gets(read_number(f, in, p, kind), x, p, Len(out), Len(in), deep)
         /\ Gets(s, s.v, p, Len(out), Len(in), deep)
<1> DEFINE most == IF kind = "Int" THEN 5 ELSE 10
           u == read_uvarint(in, p, most)
           ds == digits(out)
           s == skip_number(f, in, p, kind)
           r == read_number(f, in, p, kind)
<1>1. out = write_zigzag(x)
  BY DEF write_number
<1>2. IsVar(out, Len(out)) /\ Len(out) <= 5 /\ zigzag(ds) = x /\ fits32(ds)
  BY <1>1, RangeIs, ZigzagBack DEF Spells
<1>3. r = IF u.ok
          THEN Ok(IF kind = "Long" /\ ~ fits32(u.v) THEN Wide ELSE zigzag(u.v), u.pos)
          ELSE u
  BY Zenon DEF read_number, Then
<1>4. s = r
  BY DEF skip_number
<1>5. most \in {5, 10} /\ Len(out) <= most
  <2>1. Len(out) \in Nat
    BY <1>2 DEF IsVar
  <2> QED
    BY <1>2, <2>1
<1> HIDE DEF most, r, ds, s
<1>6. Gets(u, ds, p, Len(out), Len(in), deep)
  BY <1>2, <1>5, UvarintGets DEF ds
<1> HIDE DEF u
<1>7. r = IF u.ok THEN Ok(x, u.pos) ELSE u
  <2>1. CASE u.ok
    <3>1. u.v = ds
      BY <1>6, <2>1 DEF Gets
    <3> QED
      BY <1>2, <1>3, <2>1, <3>1, Zenon
  <2>2. CASE ~ u.ok
    BY <1>3, <2>2, Zenon
  <2> QED
    BY <2>1, <2>2
<1>8. Gets(r, x, p, Len(out), Len(in), deep)
  BY <1>6, <1>7, GetsAs
<1>9. Gets(s, s.v, p, Len(out), Len(in), deep)
  BY <1>4, <1>8, GetsAny
<1> QED
  BY <1>8, <1>9 DEF r, s

LEMMA NumberGets ==
  ASSUME NEW f, NEW in \in Seq(Byte), NEW p \in Offsets(in),
         NEW kind \in DOMAIN Size, NEW x, InRange(x, kind),
         NEW out, out = write_number(f, x, kind), Stand(in, p, out), NEW deep
  PROVE  LET s == skip_number(f, in, p, kind) IN
         /\ Gets(read_number(f, in, p, kind), x, p, Len(out), Len(in), deep)
         /\ Gets(s, s.v, p, Len(out), Len(in), deep)
<1>1. CASE IsVarInt(f, kind)
  BY <1>1, VarGets
<1>2. CASE ~ IsVarInt(f, kind)
  BY <1>2, FixedGets
<1> QED
  BY <1>1, <1>2

\* read_array_length.
LEMMA ArrayLengthGets ==
  ASSUME NEW f, NEW in \in Seq(Byte), NEW p \in Offsets(in), NEW n \in Nat,
         NEW w, w = write_array_length(f, n), w.ok, Stand(in, p, w.out), NEW deep
  PROVE  Gets(read_array_length(f, in, p), n, p, Len(w.out), Len(in), deep)
<1> DEFINE u == read_number(f, in, p, "Int")
           r == read_array_length(f, in, p)
           out == write_number(f, n, "Int")
<1>1. n <= INT32_MAX /\ w.out = out
  <2>1. w = IF n > INT32_MAX THEN Failed(<<>>) ELSE Wrote(out)
    BY Zenon DEF write_array_length
  <2>2. INT32_MAX \in Int
    BY SMT DEF INT32_MAX
  <2> HIDE DEF out
  <2> QED
    BY <2>1, <2>2 DEF Failed, Wrote
<1>2. "Int" \in DOMAIN Size /\ InRange(n, "Int")
  <2>1. INT32_MAX \in Nat
    BY SMT DEF INT32_MAX
  <2>2. n \in Int /\ -INT32_MAX - 1 <= n
    BY <2>1
  <2>3. n \in Int32
    BY <1>1, <2>2, IntRanges
  <2> QED
    BY <2>3 DEF InRange, Size
<1>3. Gets(u, n, p, Len(out), Len(in), deep)
  <2> HIDE DEF out
  <2>1. out = write_number(f, n, "Int")
    BY DEF out
  <2>2. Stand(in, p, out)
    BY <1>1
  <2> QED
    BY <1>2, <2>1, <2>2, NumberGets
<1>4. r = IF u.ok THEN (IF u.v < 0 THEN Err("NegativeLength", u.pos) ELSE Ok(u.v, u.pos))
          ELSE u
  BY DEF read_array_length, Then
<1> HIDE DEF u, r, out
<1>5. r = IF u.ok THEN Ok(n, u.pos) ELSE u
  <2>1. CASE u.ok
    <3>1. u.v = n /\ ~ (n < 0)
      BY <1>3, <2>1 DEF Gets
    <3> QED
      BY <1>4, <2>1, <3>1
  <2>2. CASE ~ u.ok
    BY <1>4, <2>2
  <2> QED
    BY <2>1, <2>2
<1> QED
  BY <1>1, <1>3, <1>5, GetsAs DEF r

-----------------------------------------------------------------------------
(* Strings.                                                                *)

\* What goes before the bytes of a string.
Header(f, n) ==
  IF f = "BedrockVarInt" THEN write_uvarint(n)
  ELSE big_endian(f, big_endian_bytes(n, 2))

Countable(f, n) ==
  n \in Nat /\ n <= INT32_MAX /\ (f # "BedrockVarInt" => n <= 65535)

LEMMA HeaderBytes ==
  ASSUME NEW f, NEW n \in Nat
  PROVE  Header(f, n) \in Seq(Byte)
<1>1. write_uvarint(n) \in Seq(Byte)
  BY UvarintBytes
<1>2. big_endian(f, big_endian_bytes(n, 2)) \in Seq(Byte)
  <2>1. n \in Int /\ 2 \in {1, 2, 4, 8}
    OBVIOUS
  <2>2. big_endian_bytes(n, 2) \in Seq(Byte)
    BY <2>1, BigEndianBytes
  <2> QED
    BY <2>2, ReverseBytes
<1> QED
  BY <1>1, <1>2 DEF Header

\* read_string_length.
LEMMA HeaderGets ==
  ASSUME NEW f, NEW in \in Seq(Byte), NEW p \in Offsets(in),
         NEW n, Countable(f, n), Stand(in, p, Header(f, n)), NEW deep
  PROVE  Gets(read_string_length(f, in, p), n, p, Len(Header(f, n)), Len(in), deep)
<1> DEFINE h == Header(f, n)
           r == read_string_length(f, in, p)
<1>0. n \in Nat /\ n <= INT32_MAX /\ h \in Seq(Byte)
  BY HeaderBytes DEF Countable
<1>1. CASE f = "BedrockVarInt"
  <2> DEFINE u == read_uvarint(in, p, 5)
  <2>1. h = write_uvarint(n)
    BY <1>1 DEF Header
  <2>2. r = IF u.ok THEN Ok(as_length(u.v), u.pos) ELSE u
    BY <1>1 DEF read_string_length, Then
  <2>3. IsVar(h, Len(h)) /\ Len(h) <= 5 /\ as_length(digits(h)) = n
    BY <1>0, <2>1, UvarintDigits, LengthBack
  <2>4. Stand(in, p, h) /\ 5 \in {5, 10}
    OBVIOUS
  <2> HIDE DEF h, r
  <2>5. Gets(u, digits(h), p, Len(h), Len(in), deep)
    BY <2>3, <2>4, UvarintGets
  <2> HIDE DEF u
  <2>6. r = IF u.ok THEN Ok(n, u.pos) ELSE u
    BY <2>2, <2>3, <2>5 DEF Gets
  <2>7. Gets(r, n, p, Len(h), Len(in), deep)
    BY <2>5, <2>6, GetsAs
  <2> QED
    BY <2>7 DEF r, h
<1>2. CASE f # "BedrockVarInt"
  <2> DEFINE u == take(in, p, 2, 1)
             b == big_endian_bytes(n, 2)
  <2>1. h = big_endian(f, b)
    BY <1>2 DEF Header
  <2>2. r = IF u.ok THEN Ok(unsigned(big_endian(f, u.v)), u.pos) ELSE u
    BY <1>2 DEF read_string_length, Then
  <2>3. n \in Int /\ 2 \in {1, 2, 4, 8} /\ n <= 65535
    BY <1>0, <1>2 DEF Countable
  <2>4. unsigned(b) = n
    BY <1>0, <2>3, UnsignedBack
  <2>5. b \in Seq(Byte) /\ Len(b) = 2
    BY <2>3, BytesOf
  <2>6. Stand(in, p, h)
    OBVIOUS
  <2> HIDE DEF h, r, b
  <2>7. Len(h) = 2 /\ big_endian(f, h) = b
    BY <2>1, <2>5, ReverseBytes, TwiceRound
  <2>8. Gets(u, h, p, Len(h), Len(in), deep)
    <3>1. Spans(Len(h), 2, 1) /\ 1 \in {1, 2, 4, 8} /\ 2 \in Nat
      BY <2>7 DEF Spans
    <3> QED
      BY <1>0, <2>6, <3>1, TakeGets
  <2> HIDE DEF u
  <2>9. r = IF u.ok THEN Ok(n, u.pos) ELSE u
    BY <2>2, <2>4, <2>7, <2>8 DEF Gets
  <2>10. Gets(r, n, p, Len(h), Len(in), deep)
    BY <2>8, <2>9, GetsAs
  <2> QED
    BY <2>10 DEF r, h
<1> QED
  BY <1>1, <1>2

\* skip_string takes the bytes as they are.
LEMMA RawGets ==
  ASSUME NEW f, NEW in \in Seq(Byte), NEW p \in Offsets(in),
         NEW t \in Seq(Byte), Countable(f, Len(t)),
         NEW out, out = Header(f, Len(t)) \o t, Stand(in, p, out), NEW deep
  PROVE  Gets(skip_string(f, in, p), t, p, Len(out), Len(in), deep)
<1> DEFINE h == Header(f, Len(t))
           u == read_string_length(f, in, p)
           w == take(in, u.pos, u.v, 1)
           r == skip_string(f, in, p)
<1>0. h \in Seq(Byte) /\ Len(t) \in Nat /\ p \in Nat /\ Len(in) \in Nat
  BY HeaderBytes DEF Offsets
<1>1. r = IF u.ok THEN w ELSE u
  BY DEF skip_string, Then
<1>2. Stand(in, p, h) /\ Stand(in, p + Len(h), t)
  BY <1>0, StandBoth
<1>3. Gets(u, Len(t), p, Len(h), Len(in), deep)
  BY <1>2, HeaderGets
<1>4. Len(out) = Len(h) + Len(t) /\ Len(h) \in Nat
  BY <1>0
<1> HIDE DEF h, u, r
<1>5. u.ok => Gets(w, t, p + Len(h), Len(t), Len(in), deep)
  <2> SUFFICES ASSUME u.ok PROVE Gets(w, t, p + Len(h), Len(t), Len(in), deep)
    OBVIOUS
  <2>1. u.v = Len(t) /\ u.pos = p + Len(h) /\ p + Len(h) <= Len(in)
    BY <1>3 DEF Gets
  <2> DEFINE q == p + Len(h)
  <2>2. q \in Offsets(in)
    BY <1>0, <1>4, <2>1 DEF Offsets
  <2>3. Spans(Len(t), Len(t), 1) /\ 1 \in {1, 2, 4, 8}
    BY <1>0 DEF Spans
  <2>4. w = take(in, q, Len(t), 1) /\ Stand(in, q, t)
    BY <1>2, <2>1
  <2> HIDE DEF q, w
  <2>5. Gets(w, t, q, Len(t), Len(in), deep)
    BY <1>0, <2>2, <2>3, <2>4, TakeGets
  <2> QED
    BY <2>5 DEF q
<1> HIDE DEF w
<1>6. (u.ok => r = w) /\ (~ u.ok => r = u)
  BY <1>1
<1>7. u.ok => Gets(r, t, p + Len(h), Len(t), Len(in), deep)
  BY <1>5, <1>6
<1>8. Gets(r, t, p, Len(h) + Len(t), Len(in), deep)
  BY <1>0, <1>3, <1>4, <1>6, <1>7, GetsChain
<1> QED
  BY <1>4, <1>8 DEF r

\* ASCII without NUL is the same in both spellings.
LEMMA AsciiAsIs ==
  ASSUME NEW b \in Seq(Byte), is_pure_ascii(b)
  PROVE  mutf8_to_utf8(b) = Ok(b, Len(b))
<1> DEFINE n == Len(b)
           step == decoding[b]
           tail(p) == SubSeq(b, p + 1, n)
<1>1. n \in Nat /\ Taking(step, n)
  BY DecodingChars, CharsTaking, Zenon
<1>2. /\ step[n] = Ok(<<>>, n)
      /\ \A p \in 0 .. n - 1 : step[p] = mutf8_char(b, p)
      /\ mutf8_to_utf8(b) = Rounds(step, n + 1, 0)
  BY CharAt, Zenon
<1>3. \A p \in 0 .. n - 1 : mutf8_char(b, p) = Ok(<<b[p + 1]>>, p + 1)
  <2> SUFFICES ASSUME NEW p \in 0 .. n - 1
               PROVE  mutf8_char(b, p) = Ok(<<b[p + 1]>>, p + 1)
    OBVIOUS
  <2>1. p + 1 \in DOMAIN b
    BY <1>1
  <2>2. Ascii(b, p)
    BY <2>1 DEF is_pure_ascii, Ascii
  <2> QED
    BY <2>2 DEF mutf8_char
<1> HIDE DEF step
<1>4. PICK rest : \A p \in 0 .. n :
        rest[p] = from(step, rest, p) /\ Rounds(step, n + 1, p) = rest[p]
  BY <1>1, WholeLoop
<1> DEFINE S == {p \in 0 .. n : rest[p] = Ok(tail(p), n)}
<1>5. ASSUME NEW p \in 0 .. n, \A q \in p + 1 .. n : q \in S
      PROVE  p \in S
  <2>1. rest[p] = IF ~ step[p].ok THEN step[p]
                  ELSE IF step[p].v = <<>> THEN Ok(<<>>, step[p].pos)
                  ELSE IF rest[step[p].pos].ok
                       THEN Ok(step[p].v \o rest[step[p].pos].v, rest[step[p].pos].pos)
                       ELSE rest[step[p].pos]
    BY <1>4 DEF from, Then
  <2>2. CASE p = n
    <3>1. step[p].ok = TRUE /\ step[p].v = <<>> /\ step[p].pos = n
      BY <1>2, <2>2, OkIs
    <3>2. tail(p) = <<>>
      BY <1>1, <2>2
    <3> HIDE DEF tail
    <3> QED
      BY <2>1, <3>1, <3>2
  <2>3. CASE p # n
    <3>1. p \in 0 .. n - 1 /\ p + 1 \in p + 1 .. n /\ p + 1 \in 1 .. n
      BY <1>1, <2>3
    <3>7. step[p] = Ok(<<b[p + 1]>>, p + 1)
      BY <1>2, <1>3, <3>1, Zenon
    <3>2. step[p].ok = TRUE /\ step[p].v = <<b[p + 1]>> /\ step[p].pos = p + 1
      BY <3>7 DEF Ok
    <3>3. rest[p + 1] = Ok(tail(p + 1), n)
      BY <1>5, <3>1
    <3>4. rest[p + 1].ok = TRUE /\ rest[p + 1].v = tail(p + 1) /\ rest[p + 1].pos = n
      <4> HIDE DEF tail, n
      <4> QED
        BY <3>3 DEF Ok
    <3>5. tail(p) = <<b[p + 1]>> \o tail(p + 1)
      BY <1>1, <3>1
    <3>6. <<b[p + 1]>> # <<>>
      OBVIOUS
    <3> HIDE DEF tail
    <3> QED
      BY <2>1, <3>2, <3>4, <3>5, <3>6
  <2> QED
    BY <2>2, <2>3
<1> HIDE DEF S
<1>6. \A p \in 0 .. n : p \in S
  BY <1>1, <1>5, FromLater
<1>7. 0 \in 0 .. n /\ tail(0) = b
  BY <1>1
<1>8. rest[0] = Ok(tail(0), n)
  BY <1>6, <1>7 DEF S
<1> QED
  BY <1>2, <1>4, <1>7, <1>8

LEMMA WroteIs == \A b : Wrote(b).ok = TRUE /\ Wrote(b).out = b
BY DEF Wrote

LEMMA PlacedAs ==
  ASSUME NEW x, NEW q, NEW p
  PROVE  Placed(Ok(x, q), p) = Ok(x, p)
<1> DEFINE o == Ok(x, q)
           t == Placed(o, p)
<1>1. o = [ok |-> TRUE, v |-> x, pos |-> q]
  BY DEF Ok
<1>2. t = [o EXCEPT !.pos = p]
  BY DEF Placed
<1>3. DOMAIN o = {"ok", "v", "pos"} /\ o.ok = TRUE /\ o.v = x
  BY <1>1
<1> HIDE DEF o, t
<1>4. DOMAIN t = {"ok", "v", "pos"} /\ t.ok = TRUE /\ t.v = x /\ t.pos = p
  BY <1>2, <1>3
<1>5. t = [k \in {"ok", "v", "pos"} |-> t[k]]
  BY <1>2, <1>3
<1>6. t = [ok |-> TRUE, v |-> x, pos |-> p]
  BY <1>4, <1>5
<1> QED
  BY <1>6 DEF t, o, Ok

\* What stands for a string in a dialect.
Text(f, s, t) ==
  /\ t \in Seq(Byte)
  /\ IF f \in Bedrock \/ is_pure_ascii(t) THEN t = s
     ELSE mutf8_to_utf8(t) = Ok(s, Len(t))

LEMMA WrittenText ==
  ASSUME NEW f \in Formats, NEW s \in ByteStrings, NEW w, w = write_string(f, s), w.ok
  PROVE  \E t : Text(f, s, t) /\ Countable(f, Len(t)) /\ w.out = Header(f, Len(t)) \o t
<1>0. s \in Seq(Byte) /\ Len(s) <= INT32_MAX /\ Len(s) \in Nat /\ INT32_MAX \in Int
      /\ 65535 <= INT32_MAX
  BY SMT DEF ByteStrings, INT32_MAX
<1>1. CASE f = "BedrockVarInt"
  <2>1. f \in Bedrock
    BY <1>1 DEF Bedrock
  <2>2. w.out = Header(f, Len(s)) \o s
    <3>1. w = Wrote(Header(f, Len(s)) \o s)
      BY <1>1 DEF write_string, Header
    <3> QED
      BY <3>1, WroteIs, Zenon
  <2>3. Text(f, s, s) /\ Countable(f, Len(s))
    BY <1>0, <1>1, <2>1 DEF Text, Countable
  <2> QED
    BY <2>2, <2>3
<1>2. CASE f # "BedrockVarInt"
  <2> DEFINE m == IF f \in Bedrock \/ is_pure_ascii(s) THEN Ok(s, Len(s))
                  ELSE utf8_to_mutf8(s)
  <2>1. w = IF ~ m.ok \/ Len(m.v) > kMaxString THEN Failed(<<>>)
            ELSE Wrote(big_endian(f, big_endian_bytes(Len(m.v), 2)) \o m.v)
    BY <1>2 DEF write_string
  <2>2. m.ok => Text(f, s, m.v)
    <3> SUFFICES ASSUME m.ok PROVE Text(f, s, m.v)
      OBVIOUS
    <3>1. CASE f \in Bedrock \/ is_pure_ascii(s)
      <4>1. m.v = s
        BY <3>1 DEF Ok
      <4> HIDE DEF m
      <4> QED
        BY <1>0, <3>1, <4>1 DEF Text
    <3>2. CASE ~ (f \in Bedrock \/ is_pure_ascii(s))
      <4>1. m = utf8_to_mutf8(s)
        BY <3>2
      <4> HIDE DEF m
      <4>2. m.v \in Seq(NonZero) /\ mutf8_to_utf8(m.v) = Ok(s, Len(m.v))
        BY <1>0, <4>1, Transcoded, EncoderInverted
      <4>3. m.v \in Seq(Byte)
        BY <4>2, SeqNonZero
      <4>4. is_pure_ascii(m.v) => m.v = s
        <5> SUFFICES ASSUME is_pure_ascii(m.v) PROVE m.v = s
          OBVIOUS
        <5>1. mutf8_to_utf8(m.v) = Ok(m.v, Len(m.v))
          BY <4>3, AsciiAsIs
        <5>2. Ok(m.v, Len(m.v)).v = Ok(s, Len(m.v)).v
          BY <4>2, <5>1
        <5> QED
          BY <5>2, OkIs
      <4> QED
        BY <3>2, <4>2, <4>3, <4>4 DEF Text
    <3> QED
      BY <3>1, <3>2
  <2> HIDE DEF m
  <2>3. m.ok /\ ~ (Len(m.v) > kMaxString)
    BY <2>1 DEF Failed
  <2>4. w.out = Header(f, Len(m.v)) \o m.v
    <3>2. Header(f, Len(m.v)) = big_endian(f, big_endian_bytes(Len(m.v), 2))
      BY <1>2 DEF Header
    <3>1. w = Wrote(Header(f, Len(m.v)) \o m.v)
      BY <2>1, <2>3, <3>2, Zenon
    <3> QED
      BY <3>1, WroteIs, Zenon
  <2>5. Countable(f, Len(m.v))
    <3>1. m.v \in Seq(Byte)
      BY <2>2, <2>3 DEF Text
    <3>2. Len(m.v) \in Nat
      BY <3>1
    <3> QED
      BY <1>0, <2>3, <3>2, SMT DEF Countable, kMaxString
  <2> QED
    BY <2>2, <2>3, <2>4, <2>5
<1> QED
  BY <1>1, <1>2

\* read_string and skip_string.
LEMMA StringGets ==
  ASSUME NEW f \in Formats, NEW in \in Seq(Byte), NEW p \in Offsets(in),
         NEW s \in ByteStrings, NEW w, w = write_string(f, s), w.ok,
         Stand(in, p, w.out), NEW deep
  PROVE  LET k == skip_string(f, in, p) IN
         /\ Gets(read_string(f, in, p), s, p, Len(w.out), Len(in), deep)
         /\ Gets(k, k.v, p, Len(w.out), Len(in), deep)
<1> DEFINE u == skip_string(f, in, p)
           r == read_string(f, in, p)
<1>1. PICK t : Text(f, s, t) /\ Countable(f, Len(t)) /\ w.out = Header(f, Len(t)) \o t
  BY WrittenText
<1> DEFINE out == w.out
<1>2. Gets(u, t, p, Len(out), Len(in), deep)
  <2>1. t \in Seq(Byte)
    BY <1>1 DEF Text
  <2>2. Stand(in, p, out) /\ out = Header(f, Len(t)) \o t
    BY <1>1
  <2> HIDE DEF out
  <2> QED
    BY <1>1, <2>1, <2>2, RawGets
<1>3. r = IF ~ u.ok THEN u
          ELSE IF f \in Bedrock \/ is_pure_ascii(u.v) THEN Ok(u.v, u.pos)
          ELSE Placed(mutf8_to_utf8(u.v), u.pos)
  BY DEF read_string, Then, Placed
<1> HIDE DEF u, r, out
<1>4. r = IF u.ok THEN Ok(s, u.pos) ELSE u
  <2>1. CASE ~ u.ok
    BY <1>3, <2>1
  <2>2. CASE u.ok
    <3>1. u.v = t
      BY <1>2, <2>2 DEF Gets
    <3>2. CASE f \in Bedrock \/ is_pure_ascii(t)
      BY <1>1, <1>3, <2>2, <3>1, <3>2 DEF Text
    <3>3. CASE ~ (f \in Bedrock \/ is_pure_ascii(t))
      <4>3. mutf8_to_utf8(t) = Ok(s, Len(t))
        BY <1>1, <3>3, Zenon DEF Text
      <4>4. r = Placed(mutf8_to_utf8(t), u.pos)
        BY <1>3, <2>2, <3>1, <3>3, Zenon
      <4>1. r = Placed(Ok(s, Len(t)), u.pos)
        BY <4>3, <4>4, Zenon
      <4>2. Placed(Ok(s, Len(t)), u.pos) = Ok(s, u.pos)
        BY PlacedAs, Zenon
      <4> QED
        BY <2>2, <4>1, <4>2
    <3> QED
      BY <3>2, <3>3
  <2> QED
    BY <2>1, <2>2
<1>5. Gets(r, s, p, Len(out), Len(in), deep)
  BY <1>2, <1>4, GetsAs
<1>6. Gets(u, u.v, p, Len(out), Len(in), deep)
  BY <1>2, GetsAny
<1> QED
  BY <1>5, <1>6 DEF u, r, out

-----------------------------------------------------------------------------
(* Loops.                                                                  *)

\* What a loop makes of a round and of the rounds that follow it.
Goes(r, one, later) ==
  IF ~ one.ok THEN r = one
  ELSE IF one.v = <<>> THEN r = Ok(<<>>, one.pos)
  ELSE IF later[one.pos].ok
    THEN r = Ok(one.v \o later[one.pos].v, later[one.pos].pos)
  ELSE r = later[one.pos]

\* One round.
LEMMA OneRound ==
  ASSUME NEW p \in Nat, NEW m \in Nat, NEW k \in Nat, NEW n \in Nat, NEW deep,
         NEW one, NEW later, NEW r, NEW x, NEW xs,
         Gets(one, x, p, m, n, deep), x # <<>>,
         one.ok => Gets(later[p + m], xs, p + m, k, n, deep),
         Goes(r, one, later)
  PROVE  Gets(r, x \o xs, p, m + k, n, deep)
<1> DEFINE t == later[p + m]
<1>1. ASSUME one.ok PROVE Gets(r, x \o xs, p + m, k, n, deep)
  <2>1. one.v = x /\ one.pos = p + m
    BY <1>1 DEF Gets
  <2>2. r = IF t.ok THEN Ok(x \o t.v, t.pos) ELSE t
    BY <1>1, <2>1 DEF Goes
  <2>3. Gets(t, xs, p + m, k, n, deep)
    BY <1>1
  <2> HIDE DEF t
  <2>4. r = IF t.ok THEN Ok(x \o xs, t.pos) ELSE t
    BY <2>2, <2>3 DEF Gets
  <2> QED
    BY <2>3, <2>4, GetsAs
<1>2. ~ one.ok => r = one
  BY DEF Goes
<1> QED
  BY <1>1, <1>2, GetsChain

\* Two writes that both worked.
LEMMA BothWritten ==
  ASSUME NEW w \in Writes, NEW l \in Writes, NEW o, o = AndThen(w, l), o.ok
  PROVE  w.ok /\ l.ok /\ o.out = w.out \o l.out
BY DEF AndThen, Writes

\* How long two pieces are.
LEMMA BothLong ==
  ASSUME NEW s \in Seq(Byte), NEW t \in Seq(Byte)
  PROVE  Len(s) \in Nat /\ Len(t) \in Nat /\ Len(s \o t) = Len(s) + Len(t)
OBVIOUS

\* Each write of a loop is what a round of another reads.
EachGets(in, W, step, xs, deep) ==
  \A i \in DOMAIN W : W[i].ok =>
    \A q \in Offsets(in) : Stand(in, q, W[i].out) =>
      Gets(step[q], <<xs[i]>>, q, Len(W[i].out), Len(in), deep)

\* The first n rounds of a loop: R[k] is what it returns from round k on.
Rounded(in, R, step, n) ==
  \A k \in 0 .. n - 1 : \A q \in Offsets(in) : Goes(R[k][q], step[q], R[k + 1])

\* A loop that reads its end where that stands.
EndsWith(in, last, tail, deep) ==
  \A q \in Offsets(in) : Stand(in, q, tail) =>
    Gets(last[q], <<>>, q, Len(tail), Len(in), deep)

\* A sequence from its k-th element on.
LEMMA TailFrom ==
  ASSUME NEW X, NEW xs \in Seq(X), NEW n, n = Len(xs), NEW k \in 0 .. n
  PROVE  /\ k = n => SubSeq(xs, k + 1, n) = <<>>
         /\ k # n => SubSeq(xs, k + 1, n) = <<xs[k + 1]>> \o SubSeq(xs, (k + 1) + 1, n)
         /\ SubSeq(xs, 1, n) = xs
  OBVIOUS

\* A loop that reads x, and its end, where that stands.
ReadsOn(in, later, out, tail, x, deep) ==
  \A q \in Offsets(in) : Stand(in, q, out) /\ Stand(in, q + Len(out), tail) =>
    Gets(later[q], x, q, Len(out) + Len(tail), Len(in), deep)

\* One round, and the loop from there on.
LEMMA LoopStep ==
  ASSUME NEW in \in Seq(Byte), NEW q \in Offsets(in), NEW deep,
         NEW w \in Writes, NEW l \in Writes, NEW o, o = AndThen(w, l), o.ok,
         NEW tail \in Seq(Byte), NEW one, NEW later, NEW r, NEW x, NEW xs,
         Stand(in, q, o.out), Stand(in, q + Len(o.out), tail),
         Stand(in, q, w.out) => Gets(one, x, q, Len(w.out), Len(in), deep), x # <<>>,
         ReadsOn(in, later, l.out, tail, xs, deep),
         Goes(r, one, later)
  PROVE  Gets(r, x \o xs, q, Len(o.out) + Len(tail), Len(in), deep)
<1>1. w.ok /\ l.ok /\ o.out = w.out \o l.out
  BY BothWritten
<1>2. w.out \in Seq(Byte) /\ l.out \in Seq(Byte)
  BY DEF Writes
<1>3. PICK a \in Nat, b \in Nat, z \in Nat, N \in Nat, m \in Nat :
        /\ a = Len(w.out) /\ b = Len(l.out) /\ z = Len(tail) /\ N = Len(in)
        /\ m = Len(o.out) /\ m = a + b
  <2>1. /\ Len(w.out) \in Nat /\ Len(l.out) \in Nat
        /\ Len(w.out \o l.out) = Len(w.out) + Len(l.out)
    BY <1>2, BothLong, Zenon
  <2>2. Len(o.out) = Len(w.out) + Len(l.out)
    BY <1>1, <2>1, Zenon
  <2>3. Len(tail) \in Nat /\ Len(in) \in Nat
    OBVIOUS
  <2> DEFINE a == Len(w.out)
             b == Len(l.out)
             m == Len(o.out)
             z == Len(tail)
             N == Len(in)
  <2>4. a \in Nat /\ b \in Nat /\ m = a + b /\ z \in Nat /\ N \in Nat
    BY <2>1, <2>2, <2>3, Zenon
  <2>5. a = Len(w.out) /\ b = Len(l.out) /\ m = Len(o.out) /\ z = Len(tail) /\ N = Len(in)
    OBVIOUS
  <2> HIDE DEF a, b, m, z, N
  <2>6. m \in Nat
    BY <2>4
  <2> QED
    BY <2>4, <2>5, <2>6, Zenon
<1>4. Offsets(in) = 0 .. N /\ q \in Nat /\ q + m = (q + a) + b /\ a + (b + z) = m + z
      /\ b + z \in Nat
  <2>1. Offsets(in) = 0 .. N /\ q \in Nat
    BY <1>3 DEF Offsets
  <2>2. m = a + b
    BY <1>3
  <2> QED
    BY <2>1, <2>2
<1>5. Stand(in, q, w.out) /\ Stand(in, q + Len(w.out), l.out)
  <2>1. Stand(in, q, w.out \o l.out)
    BY <1>1
  <2> QED
    BY <1>2, <1>4, <2>1, StandBoth
<1>6. Stand(in, (q + a) + Len(l.out), tail)
  BY <1>3, <1>4
<1>7. Gets(one, x, q, a, N, deep)
  BY <1>3, <1>5
<1>8. ASSUME one.ok PROVE Gets(later[q + a], xs, q + a, b + z, N, deep)
  <2>1. q + a \in Offsets(in)
    BY <1>3, <1>4, <1>7, <1>8 DEF Gets
  <2> QED
    BY <1>3, <1>5, <1>6, <2>1 DEF ReadsOn
<1>9. Gets(r, x \o xs, q, a + (b + z), N, deep)
  BY <1>3, <1>4, <1>7, <1>8, OneRound
<1> QED
  BY <1>3, <1>4, <1>9

\* A loop reads what a loop wrote.
LEMMA LoopGets ==
  ASSUME NEW in \in Seq(Byte), NEW p \in Offsets(in), NEW deep,
         NEW W \in Seq(Writes), NEW X, NEW xs \in Seq(X), Len(W) = Len(xs),
         NEW step, NEW R, NEW tail \in Seq(Byte),
         EachGets(in, W, step, xs, deep), Rounded(in, R, step, Len(xs)),
         EndsWith(in, R[Len(xs)], tail, deep),
         InOrder(W).ok, Stand(in, p, InOrder(W).out),
         Stand(in, p + Len(InOrder(W).out), tail)
  PROVE  Gets(R[0][p], xs, p, Len(InOrder(W).out) + Len(tail), Len(in), deep)
<1>0. PICK n \in Nat : n = Len(xs) /\ n = Len(W)
  OBVIOUS
<1>1. PICK f : /\ \A i \in 1 .. n + 1 : f[i] = WriteRound(W, n, f, i)
               /\ InOrder(W) = f[1]
  BY <1>0, WriteLoopIs
<1> DEFINE rest(k) == SubSeq(xs, k + 1, n)
           Reads(k) == ReadsOn(in, R[k], f[k + 1].out, tail, rest(k), deep)
           S == {k \in 0 .. n : f[k + 1] \in Writes /\ (f[k + 1].ok => Reads(k))}
<1>2. Len(tail) \in Nat
  OBVIOUS
<1>3. n \in S
  <2>1. n + 1 \in 1 .. n + 1 /\ n + 1 > n /\ n \in 0 .. n
    OBVIOUS
  <2>2. f[n + 1] = Wrote(<<>>)
    BY <1>1, <2>1 DEF WriteRound
  <2>3. f[n + 1] \in Writes /\ f[n + 1].out = <<>>
    BY <2>2, NoBytes DEF Wrote
  <2>4. rest(n) = <<>>
    BY <1>0, <2>1, TailFrom
  <2>5. Reads(n)
    <3> SUFFICES ASSUME NEW q \in Offsets(in), Stand(in, q + Len(<<>>), tail)
                 PROVE  Gets(R[n][q], <<>>, q, Len(<<>>) + Len(tail), Len(in), deep)
      BY <2>3, <2>4 DEF ReadsOn
    <3>1. q + Len(<<>>) = q /\ Len(<<>>) + Len(tail) = Len(tail)
      BY <1>2 DEF Offsets
    <3>2. Stand(in, q, tail)
      BY <3>1
    <3>3. Gets(R[n][q], <<>>, q, Len(tail), Len(in), deep)
      BY <1>0, <3>2 DEF EndsWith
    <3> QED
      BY <3>1, <3>3
  <2> HIDE DEF Reads
  <2> QED
    BY <2>1, <2>3, <2>5
<1>4. ASSUME NEW k \in 0 .. n, k # n, k + 1 \in S
      PROVE  k \in S
  <2>1. k + 1 \in 1 .. n + 1 /\ ~ (k + 1 > n) /\ k + 1 \in 1 .. n /\ k \in 0 .. n - 1
    BY <1>4
  <2>2. PICK w, l, o : w = W[k + 1] /\ l = f[(k + 1) + 1] /\ o = f[k + 1]
    OBVIOUS
  <2>3. l \in Writes /\ (l.ok => Reads(k + 1))
    BY <1>4, <2>2 DEF S
  <2>4. o = AndThen(w, l)
    BY <1>1, <2>1, <2>2 DEF WriteRound
  <2>5. w \in Writes /\ k + 1 \in DOMAIN W
    BY <1>0, <2>1, <2>2
  <2>6. o \in Writes
    BY <2>3, <2>4, <2>5, AndThenWrites
  <2>7. rest(k) = <<xs[k + 1]>> \o rest(k + 1)
    BY <1>0, <1>4, TailFrom
  <2> HIDE DEF rest
  <2>8. ASSUME o.ok PROVE Reads(k)
    <3>1. w.ok /\ l.ok
      BY <2>3, <2>4, <2>5, <2>8, BothWritten
    <3>2. ReadsOn(in, R[k + 1], l.out, tail, rest(k + 1), deep)
      BY <2>2, <2>3, <3>1
    <3> SUFFICES ASSUME NEW q \in Offsets(in),
                        Stand(in, q, o.out), Stand(in, q + Len(o.out), tail)
                 PROVE  Gets(R[k][q], rest(k), q, Len(o.out) + Len(tail), Len(in), deep)
      BY <2>2 DEF ReadsOn
    <3>3. Stand(in, q, w.out) => Gets(step[q], <<xs[k + 1]>>, q, Len(w.out), Len(in), deep)
      BY <2>2, <2>5, <3>1 DEF EachGets
    <3>4. Goes(R[k][q], step[q], R[k + 1])
      BY <1>0, <2>1 DEF Rounded
    <3>5. <<xs[k + 1]>> # <<>>
      OBVIOUS
    <3> HIDE DEF Reads, S
    <3>6. Gets(R[k][q], <<xs[k + 1]>> \o rest(k + 1), q, Len(o.out) + Len(tail), Len(in), deep)
      BY <2>3, <2>4, <2>5, <2>8, <3>2, <3>3, <3>4, <3>5, LoopStep
    <3> QED
      BY <2>7, <3>6
  <2> HIDE DEF Reads
  <2> QED
    BY <2>2, <2>6, <2>8
<1>5. 0 \in S
  <2> HIDE DEF S
  <2>1. \A k \in 0 .. n : k \in S
    BY <1>3, <1>4, Downward
  <2> QED
    BY <2>1
<1>6. f[0 + 1].ok => Reads(0)
  <2> HIDE DEF Reads
  <2> QED
    BY <1>5
<1>7. 0 + 1 = 1 /\ 0 \in 0 .. n
  OBVIOUS
<1>8. rest(0) = xs
  BY <1>0, <1>7, TailFrom
<1> QED
  BY <1>1, <1>6, <1>7, <1>8 DEF ReadsOn

\* A round makes of its step what Goes says.
LEMMA RoundGoes ==
  ASSUME NEW step, NEW n, NEW rest, NEW k, k # n, NEW p
  PROVE  Goes(round(step, n, rest, k, p), step[p], rest[k + 1])
BY Zenon DEF round, Then, Goes

LEMMA FromGoes ==
  ASSUME NEW step, NEW rest, NEW p
  PROVE  Goes(from(step, rest, p), step[p], rest)
BY Zenon DEF from, Then, Goes

\* A loop whose rounds are counted.
LEMMA CountedGets ==
  ASSUME NEW in \in Seq(Byte), NEW p \in Offsets(in), NEW deep,
         NEW W \in Seq(Writes), NEW X, NEW xs \in Seq(X), Len(W) = Len(xs),
         NEW step, DOMAIN step = Offsets(in), Closed(step),
         EachGets(in, W, step, xs, deep),
         NEW w, w = InOrder(W), w.ok, Stand(in, p, w.out)
  PROVE  Gets(Rounds(step, Len(xs), p), xs, p, Len(w.out), Len(in), deep)
<1>0. PICK n \in Nat : n = Len(xs)
  OBVIOUS
<1>1. PICK R : /\ \A k \in 0 .. n : \A q \in DOMAIN step :
                    R[k][q] = round(step, n, R, k, q)
               /\ \A q : Rounds(step, n, q) = R[0][q]
  BY RoundsAre
<1>2. Rounded(in, R, step, n)
  <2> SUFFICES ASSUME NEW k \in 0 .. n - 1, NEW q \in Offsets(in)
               PROVE  Goes(R[k][q], step[q], R[k + 1])
    BY DEF Rounded
  <2>1. k \in 0 .. n /\ k # n
    OBVIOUS
  <2>2. R[k][q] = round(step, n, R, k, q)
    BY <1>1, <2>1
  <2> QED
    BY <2>1, <2>2, RoundGoes
<1>3. EndsWith(in, R[n], <<>>, deep)
  <2> SUFFICES ASSUME NEW q \in Offsets(in)
               PROVE  Gets(R[n][q], <<>>, q, Len(<<>>), Len(in), deep)
    BY DEF EndsWith
  <2>1. R[n][q] = Ok(<<>>, q)
    <3>1. n \in 0 .. n
      OBVIOUS
    <3> QED
      BY <1>1, <3>1 DEF round
  <2>2. Len(in) \in Nat /\ q \in 0 .. Len(in) /\ Len(<<>>) = 0
    BY DEF Offsets
  <2>3. Gets(Ok(<<>>, q), <<>>, q, 0, Len(in), deep)
    BY <2>2, GetsNothing
  <2> QED
    BY <2>1, <2>2, <2>3
<1>4. w \in Writes /\ w.out \in Seq(Byte)
  <2>1. w \in Writes
    BY InOrderWrites
  <2> QED
    BY <2>1 DEF Writes
<1>5. Stand(in, p + Len(w.out), <<>>) /\ <<>> \in Seq(Byte) /\ Len(<<>>) = 0
  BY DEF Stand
<1>6. Gets(R[0][p], xs, p, Len(w.out) + Len(<<>>), Len(in), deep)
  BY <1>0, <1>2, <1>3, <1>5, LoopGets
<1>7. Len(w.out) + Len(<<>>) = Len(w.out)
  BY <1>4, <1>5
<1> QED
  BY <1>0, <1>1, <1>6, <1>7

\* A loop that ends where it reads nothing.
LEMMA WholeGets ==
  ASSUME NEW in \in Seq(Byte), NEW p \in Offsets(in), NEW deep,
         NEW W \in Seq(Writes), NEW X, NEW xs \in Seq(X), Len(W) = Len(xs),
         NEW step, Taking(step, Len(in)), EachGets(in, W, step, xs, deep),
         NEW tail \in Seq(Byte), EndsWith(in, step, tail, deep),
         NEW w, w = InOrder(W), w.ok,
         Stand(in, p, w.out), Stand(in, p + Len(w.out), tail)
  PROVE  Gets(Rounds(step, Len(in) + 1, p), xs, p, Len(w.out) + Len(tail), Len(in), deep)
<1>0. PICK n \in Nat : n = Len(xs)
  OBVIOUS
<1>1. PICK rest : \A q \in 0 .. Len(in) :
        rest[q] = from(step, rest, q) /\ Rounds(step, Len(in) + 1, q) = rest[q]
  <2>1. Len(in) \in Nat
    OBVIOUS
  <2> QED
    BY <2>1, WholeLoop
<1> DEFINE R == [k \in 0 .. n |-> rest]
<1>2. \A k \in 0 .. n : R[k] = rest
  OBVIOUS
<1> HIDE DEF R
<1>3. Rounded(in, R, step, n)
  <2> SUFFICES ASSUME NEW k \in 0 .. n - 1, NEW q \in Offsets(in)
               PROVE  Goes(R[k][q], step[q], R[k + 1])
    BY DEF Rounded
  <2>1. k \in 0 .. n /\ k + 1 \in 0 .. n
    OBVIOUS
  <2>2. R[k][q] = from(step, rest, q) /\ R[k + 1] = rest
    BY <1>1, <1>2, <2>1 DEF Offsets
  <2> QED
    BY <2>2, FromGoes
<1>4. EndsWith(in, R[n], tail, deep)
  <2> SUFFICES ASSUME NEW q \in Offsets(in), Stand(in, q, tail)
               PROVE  Gets(R[n][q], <<>>, q, Len(tail), Len(in), deep)
    BY DEF EndsWith
  <2>1. R[n][q] = from(step, rest, q)
    BY <1>1, <1>2 DEF Offsets
  <2>2. Gets(step[q], <<>>, q, Len(tail), Len(in), deep)
    BY DEF EndsWith
  <2>3. Goes(R[n][q], step[q], rest)
    BY <2>1, FromGoes
  <2>4. R[n][q] = IF step[q].ok THEN Ok(<<>>, step[q].pos) ELSE step[q]
    BY <2>2, <2>3 DEF Goes, Gets
  <2> QED
    BY <2>2, <2>4, GetsAs
<1>5. Gets(R[0][p], xs, p, Len(w.out) + Len(tail), Len(in), deep)
  BY <1>0, <1>3, <1>4, LoopGets
<1>6. R[0][p] = Rounds(step, Len(in) + 1, p)
  <2>1. 0 \in 0 .. n /\ p \in 0 .. Len(in)
    BY DEF Offsets
  <2> QED
    BY <1>1, <1>2, <2>1
<1> QED
  BY <1>5, <1>6

\* Each write is what one of `element` reads.
EachReads(in, W, element, xs, deep) ==
  \A i \in DOMAIN W : W[i].ok =>
    \A q \in Offsets(in) : Stand(in, q, W[i].out) =>
      Gets(element[q], xs[i], q, Len(W[i].out), Len(in), deep)

\* Each write is what one of `each` steps over.
EachPassed(in, W, each, deep) ==
  \A i \in DOMAIN W : W[i].ok =>
    \A q \in Offsets(in) : Stand(in, q, W[i].out) =>
      Gets(each[q], each[q].v, q, Len(W[i].out), Len(in), deep)

\* Calls that stay in the buffer.
Within(in, each) == \A q \in Offsets(in) : Yields(each[q], q, Len(in))

\* Calls that end where others do.
EndsAs(in, step, each) ==
  \A q \in Offsets(in) : step[q].ok => each[q].ok /\ step[q].pos = each[q].pos

\* A loop of calls that stay in the buffer does.
LEMMA WrappedClosed ==
  ASSUME NEW in \in Seq(Byte), NEW element, Within(in, element),
         NEW step, DOMAIN step = Offsets(in), EndsAs(in, step, element)
  PROVE  Closed(step)
<1> SUFFICES ASSUME NEW q \in Offsets(in), step[q].ok PROVE step[q].pos \in Offsets(in)
  BY DEF Closed
<1>1. element[q].pos \in q .. Len(in) /\ step[q].pos = element[q].pos
  BY DEF Yields, Within, EndsAs
<1>2. Len(in) \in Nat /\ q \in 0 .. Len(in)
  BY DEF Offsets
<1> QED
  BY <1>1, <1>2 DEF Offsets

\* The elements of a list, decoded ...
LEMMA DecodeListGets ==
  ASSUME NEW in \in Seq(Byte), NEW p \in Offsets(in), NEW deep,
         NEW W \in Seq(Writes), NEW X, NEW xs \in Seq(X), Len(W) = Len(xs),
         NEW element, Within(in, element),
         EachReads(in, W, element, xs, deep),
         NEW w, w = InOrder(W), w.ok, Stand(in, p, w.out)
  PROVE  Gets(decode_list(in, p, Len(xs), element), xs, p, Len(w.out), Len(in), deep)
<1> DEFINE step == [q \in Offsets(in) |-> Then(element[q], LAMBDA x, r : Ok(<<x>>, r))]
<1>1. decode_list(in, p, Len(xs), element) = Rounds(step, Len(xs), p)
  BY Zenon DEF decode_list
<1>2. \A q \in Offsets(in) : step[q] = IF element[q].ok THEN Ok(<<element[q].v>>, element[q].pos)
                                       ELSE element[q]
  BY DEF Then
<1>3. DOMAIN step = Offsets(in)
  OBVIOUS
<1> HIDE DEF step
<1>4. Closed(step)
  <2>1. EndsAs(in, step, element)
    <3> SUFFICES ASSUME NEW q \in Offsets(in), step[q].ok
                 PROVE  element[q].ok /\ step[q].pos = element[q].pos
      BY DEF EndsAs
    <3>1. element[q].ok
      BY <1>2
    <3>2. step[q] = Ok(<<element[q].v>>, element[q].pos)
      BY <1>2, <3>1
    <3>3. Ok(<<element[q].v>>, element[q].pos).pos = element[q].pos
      BY OkIs, Zenon
    <3>4. step[q].pos = element[q].pos
      BY <3>2, <3>3
    <3> QED
      BY <3>1, <3>4
  <2> QED
    BY <1>3, <2>1, WrappedClosed
<1>5. EachGets(in, W, step, xs, deep)
  <2> SUFFICES ASSUME NEW i \in DOMAIN W, W[i].ok, NEW q \in Offsets(in), Stand(in, q, W[i].out)
               PROVE  Gets(step[q], <<xs[i]>>, q, Len(W[i].out), Len(in), deep)
    BY DEF EachGets
  <2>1. Gets(element[q], xs[i], q, Len(W[i].out), Len(in), deep)
    BY DEF EachReads
  <2>2. step[q] = IF element[q].ok THEN Ok(<<xs[i]>>, element[q].pos) ELSE element[q]
    BY <1>2, <2>1 DEF Gets
  <2> QED
    BY <2>1, <2>2, GetsAs
<1> QED
  BY <1>1, <1>3, <1>4, <1>5, CountedGets

\* ... and skipped.
LEMMA SkipEachGets ==
  ASSUME NEW in \in Seq(Byte), NEW p \in Offsets(in), NEW deep,
         NEW W \in Seq(Writes), NEW each, Within(in, each),
         EachPassed(in, W, each, deep),
         NEW w, w = InOrder(W), w.ok, Stand(in, p, w.out)
  PROVE  LET s == skip_each(in, p, Len(W), each) IN
         Gets(s, s.v, p, Len(w.out), Len(in), deep)
<1> DEFINE step == [q \in Offsets(in) |-> Then(each[q], LAMBDA x, r : Ok(<<"skipped">>, r))]
           n == Len(W)
           xs == [i \in 1 .. n |-> "skipped"]
           s == skip_each(in, p, n, each)
<1>1. s = Rounds(step, n, p)
  BY Zenon DEF skip_each
<1>2. \A q \in Offsets(in) : step[q] = IF each[q].ok THEN Ok(<<"skipped">>, each[q].pos)
                                       ELSE each[q]
  BY DEF Then
<1>3. DOMAIN step = Offsets(in)
  OBVIOUS
<1>4. n \in Nat /\ DOMAIN W = 1 .. n
  OBVIOUS
<1> HIDE DEF n
<1>5. xs \in Seq({"skipped"}) /\ Len(xs) = n /\ \A i \in 1 .. n : xs[i] = "skipped"
  BY <1>4
<1> HIDE DEF step, xs, s
<1>6. Closed(step)
  <2>1. EndsAs(in, step, each)
    <3> SUFFICES ASSUME NEW q \in Offsets(in), step[q].ok
                 PROVE  each[q].ok /\ step[q].pos = each[q].pos
      BY DEF EndsAs
    <3>1. each[q].ok
      BY <1>2
    <3>2. step[q] = Ok(<<"skipped">>, each[q].pos)
      BY <1>2, <3>1
    <3>3. Ok(<<"skipped">>, each[q].pos).pos = each[q].pos
      BY OkIs, Zenon
    <3>4. step[q].pos = each[q].pos
      BY <3>2, <3>3
    <3> QED
      BY <3>1, <3>4
  <2> QED
    BY <1>3, <2>1, WrappedClosed
<1>7. EachGets(in, W, step, xs, deep)
  <2> SUFFICES ASSUME NEW i \in DOMAIN W, W[i].ok, NEW q \in Offsets(in), Stand(in, q, W[i].out)
               PROVE  Gets(step[q], <<xs[i]>>, q, Len(W[i].out), Len(in), deep)
    BY DEF EachGets
  <2>1. Gets(each[q], each[q].v, q, Len(W[i].out), Len(in), deep)
    BY DEF EachPassed
  <2>2. step[q] = IF each[q].ok THEN Ok(<<xs[i]>>, each[q].pos) ELSE each[q]
    BY <1>2, <1>4, <1>5
  <2> QED
    BY <2>1, <2>2, GetsAs
<1>8. Gets(Rounds(step, Len(xs), p), xs, p, Len(w.out), Len(in), deep)
  BY <1>3, <1>5, <1>6, <1>7, CountedGets DEF n
<1>9. Gets(s, s.v, p, Len(w.out), Len(in), deep)
  BY <1>1, <1>5, <1>8, GetsAny
<1> QED
  BY <1>9 DEF s, n

\* Numbers of a kind.
Numbers(xs, kind) == xs \in Seq(Int) /\ \A i \in DOMAIN xs : InRange(xs[i], kind)

\* What is written for them.
NumberWrites(f, xs, kind) == [i \in DOMAIN xs |-> Wrote(write_number(f, xs[i], kind))]

-----------------------------------------------------------------------------
(* Arrays.                                                                 *)

LEMMA NumberWritesAre ==
  ASSUME NEW f, NEW kind \in DOMAIN Size, NEW xs, Numbers(xs, kind)
  PROVE  /\ NumberWrites(f, xs, kind) \in Seq(Writes)
         /\ Len(NumberWrites(f, xs, kind)) = Len(xs)
         /\ \A i \in DOMAIN xs :
              NumberWrites(f, xs, kind)[i] = Wrote(write_number(f, xs[i], kind))
<1>1. PICK n \in Nat : n = Len(xs) /\ DOMAIN xs = 1 .. n
  BY DEF Numbers
<1>2. ASSUME NEW i \in DOMAIN xs PROVE Wrote(write_number(f, xs[i], kind)) \in Writes
  <2>1. xs[i] \in Int
    BY DEF Numbers
  <2>2. write_number(f, xs[i], kind) \in Seq(Byte)
    BY <2>1, NumberBytes
  <2> QED
    BY <2>2, WroteBytes
<1> QED
  BY <1>1, <1>2 DEF NumberWrites

\* decode_array and the loop of skip_array over VarInts.
LEMMA NumbersGets ==
  ASSUME NEW f, NEW in \in Seq(Byte), NEW p \in Offsets(in), NEW deep,
         NEW kind \in DOMAIN Size, NEW xs, Numbers(xs, kind),
         NEW w, w = InOrder(NumberWrites(f, xs, kind)), w.ok, Stand(in, p, w.out)
  PROVE  LET s == skip_each(in, p, Len(xs),
                            [q \in Offsets(in) |-> skip_number(f, in, q, kind)])
         IN  /\ Gets(decode_array(f, in, p, kind, Len(xs)), xs, p, Len(w.out), Len(in), deep)
             /\ Gets(s, s.v, p, Len(w.out), Len(in), deep)
<1> DEFINE W == NumberWrites(f, xs, kind)
           element == [q \in Offsets(in) |-> read_number(f, in, q, kind)]
           each == [q \in Offsets(in) |-> skip_number(f, in, q, kind)]
           n == Len(xs)
<1>1. /\ W \in Seq(Writes) /\ Len(W) = n
      /\ \A i \in DOMAIN xs : W[i] = Wrote(write_number(f, xs[i], kind))
  BY NumberWritesAre
<1>2. xs \in Seq(Int) /\ DOMAIN W = DOMAIN xs
  <2>1. xs \in Seq(Int)
    BY DEF Numbers
  <2> HIDE DEF W
  <2> QED
    BY <1>1, <2>1
<1>3. decode_array(f, in, p, kind, n) = decode_list(in, p, n, element)
  <2>1. \A q \in Offsets(in) : element[q] = read_number(f, in, q, kind)
    OBVIOUS
  <2> HIDE DEF element
  <2>2. [q \in Offsets(in) |-> Then(read_number(f, in, q, kind), LAMBDA x, r : Ok(<<x>>, r))]
        = [q \in Offsets(in) |-> Then(element[q], LAMBDA x, r : Ok(<<x>>, r))]
    BY <2>1, Zenon
  <2> QED
    BY <2>2, Zenon DEF decode_array, decode_list
<1>4. Within(in, element) /\ Within(in, each)
  <2>1. Within(in, element)
    BY NumberYields DEF Within
  <2>2. Within(in, each)
    BY NumberSkipped DEF Same, Within
  <2> QED
    BY <2>1, <2>2
<1>5. ASSUME NEW i \in DOMAIN W, NEW q \in Offsets(in), Stand(in, q, W[i].out)
      PROVE  /\ Gets(element[q], xs[i], q, Len(W[i].out), Len(in), deep)
             /\ Gets(each[q], each[q].v, q, Len(W[i].out), Len(in), deep)
  <2>1. element[q] = read_number(f, in, q, kind) /\ each[q] = skip_number(f, in, q, kind)
    OBVIOUS
  <2> HIDE DEF element, each
  <2> DEFINE out == write_number(f, xs[i], kind)
  <2>2. W[i].out = out /\ InRange(xs[i], kind)
    <3>1. i \in DOMAIN xs
      BY <1>2
    <3>2. InRange(xs[i], kind)
      BY <3>1 DEF Numbers
    <3>3. W[i] = Wrote(out)
      BY <1>1, <3>1
    <3> HIDE DEF W, out
    <3> QED
      BY <3>2, <3>3, WroteIs, Zenon
  <2>3. Stand(in, q, out)
    BY <1>5, <2>2
  <2> HIDE DEF W
  <2>4. /\ Gets(read_number(f, in, q, kind), xs[i], q, Len(out), Len(in), deep)
        /\ Gets(skip_number(f, in, q, kind), skip_number(f, in, q, kind).v, q, Len(out),
                Len(in), deep)
    <3>1. out = write_number(f, xs[i], kind)
      OBVIOUS
    <3> HIDE DEF out
    <3> QED
      BY <2>2, <2>3, <3>1, NumberGets
  <2> HIDE DEF out
  <2> QED
    BY <2>1, <2>2, <2>4
<1> HIDE DEF element
<1>6. EachReads(in, W, element, xs, deep) /\ EachPassed(in, W, each, deep)
  <2> HIDE DEF W, each
  <2> QED
    BY <1>5 DEF EachReads, EachPassed
<1>7. Gets(decode_array(f, in, p, kind, n), xs, p, Len(w.out), Len(in), deep)
  <2>1. w = InOrder(W)
    OBVIOUS
  <2> HIDE DEF W, each
  <2> QED
    BY <1>1, <1>2, <1>3, <1>4, <1>6, <2>1, DecodeListGets
<1>8. LET s == skip_each(in, p, n, each) IN Gets(s, s.v, p, Len(w.out), Len(in), deep)
  <2>1. w = InOrder(W)
    OBVIOUS
  <2> HIDE DEF W, each
  <2>2. LET s == skip_each(in, p, Len(W), each) IN Gets(s, s.v, p, Len(w.out), Len(in), deep)
    BY <1>1, <1>4, <1>6, <2>1, SkipEachGets
  <2> QED
    BY <1>1, <2>2
<1> QED
  BY <1>7, <1>8

\* Numbers of one size take as many bytes each: reading them back from nothing
\* but what was written shows it.
LEMMA NumbersSpan ==
  ASSUME NEW f, NEW kind \in DOMAIN Size, NEW xs, Numbers(xs, kind), ~ IsVarInt(f, kind),
         NEW w, w = InOrder(NumberWrites(f, xs, kind)), w.ok
  PROVE  Spans(Len(w.out), Len(xs), Size[kind])
<1>1. w.out \in Seq(Byte)
  <2>1. w \in Writes
    BY NumberWritesAre, InOrderWrites
  <2> QED
    BY <2>1 DEF Writes
<1>2. PICK in \in Seq(Byte), n \in Nat, m \in Nat :
        in = w.out /\ n = Len(xs) /\ m = Len(w.out) /\ m = Len(in)
  <2>1. xs \in Seq(Int)
    BY DEF Numbers
  <2>2. Len(xs) \in Nat /\ Len(w.out) \in Nat
    BY <1>1, <2>1
  <2> QED
    BY <1>1, <2>2
<1>3. 0 \in Offsets(in) /\ Stand(in, 0, w.out)
  <2>1. 0 \in Offsets(in)
    BY <1>2 DEF Offsets
  <2>2. Stand(in, 0, in)
    BY DEF Stand
  <2> QED
    BY <1>2, <2>1, <2>2
<1> DEFINE r == decode_array(f, in, 0, kind, n)
           size == Size[kind]
<1>4. Gets(r, xs, 0, m, m, FALSE)
  <2>1. Gets(decode_array(f, in, 0, kind, Len(xs)), xs, 0, Len(w.out), Len(in), FALSE)
    BY <1>3, NumbersGets
  <2> QED
    BY <1>2, <2>1
<1>5. ReadsAll(r, 0, n * size, m)
  BY <1>2, <1>3, ArrayRead
<1>6. n * size \in Nat
  <2>1. size \in {1, 2, 4, 8}
    BY DEF Size
  <2> HIDE DEF size
  <2> QED
    BY <2>1, OneMore
<1> DEFINE l == n * size
<1>7. l \in Nat /\ ReadsAll(r, 0, l, m)
  BY <1>5, <1>6
<1> HIDE DEF r, l
<1>8. l = m
  BY <1>4, <1>7 DEF Gets, ReadsAll
<1> QED
  BY <1>2, <1>8 DEF Spans, l, size

\* What follows the number of elements of an array, decoded ...
LEMMA ArrayBodyGets ==
  ASSUME NEW f, NEW in \in Seq(Byte), NEW q \in Offsets(in), NEW deep,
         NEW kind \in DOMAIN Elem, NEW xs, Numbers(xs, Elem[kind]),
         NEW b, b = InOrder(NumberWrites(f, xs, Elem[kind])), b.ok, Stand(in, q, b.out),
         NEW t, t = IF kind = "ByteArray" THEN take(in, q, Len(xs), 1) ELSE Ok(<<>>, q),
         NEW arr, arr = decode_array(f, in, q, Elem[kind], Len(xs)),
         NEW d, d = IF ~ t.ok THEN t
                    ELSE IF arr.ok THEN Ok(<<kind, arr.v>>, arr.pos) ELSE arr
  PROVE  Gets(d, <<kind, xs>>, q, Len(b.out), Len(in), deep)
<1> DEFINE e == Elem[kind]
<1>1. e \in DOMAIN Size /\ (kind = "ByteArray" => e = "Byte" /\ Size[e] = 1)
  BY ElemSize
<1> HIDE DEF e
<1>2. Gets(arr, xs, q, Len(b.out), Len(in), deep)
  BY <1>1, NumbersGets DEF e
<1>3. b.out \in Seq(Byte)
  <2>1. b \in Writes
    BY <1>1, NumberWritesAre, InOrderWrites DEF e
  <2> QED
    BY <2>1 DEF Writes
<1>4. Gets(t, t.v, q, Len(b.out), Len(in), deep) \/ (t.ok = TRUE)
  <2>1. CASE kind = "ByteArray"
    <3>1. ~ IsVarInt(f, e) /\ Size[e] = 1
      BY <1>1, <2>1 DEF IsVarInt
    <3>2. Spans(Len(b.out), Len(xs), 1)
      <4>1. Spans(Len(b.out), Len(xs), Size[e])
        BY <1>1, <3>1, NumbersSpan DEF e
      <4> QED
        BY <3>1, <4>1
    <3>3. Len(xs) \in Nat
      <4>1. xs \in Seq(Int)
        BY DEF Numbers
      <4> QED
        BY <4>1
    <3>4. t = take(in, q, Len(xs), 1) /\ 1 \in {1, 2, 4, 8}
      BY <2>1
    <3>5. Gets(t, b.out, q, Len(b.out), Len(in), deep)
      BY <1>3, <3>2, <3>3, <3>4, TakeGets
    <3> QED
      BY <3>5, GetsAny
  <2>2. CASE kind # "ByteArray"
    BY <2>2, OkIs
  <2> QED
    BY <2>1, <2>2
<1>5. CASE ~ t.ok
  <2>1. d = t
    BY <1>5
  <2> QED
    BY <1>4, <1>5, <2>1 DEF Gets
<1>6. CASE t.ok
  <2>1. d = IF arr.ok THEN Ok(<<kind, arr.v>>, arr.pos) ELSE arr
    BY <1>6
  <2>2. arr.ok => arr.v = xs
    BY <1>2 DEF Gets
  <2>3. d = IF arr.ok THEN Ok(<<kind, xs>>, arr.pos) ELSE arr
    BY <2>1, <2>2
  <2> QED
    BY <1>2, <2>3, GetsAs
<1> QED
  BY <1>5, <1>6

\* ... and stepped over.
LEMMA ArrayBodyPassed ==
  ASSUME NEW f, NEW in \in Seq(Byte), NEW q \in Offsets(in), NEW deep,
         NEW kind \in DOMAIN Elem, NEW xs, Numbers(xs, Elem[kind]),
         NEW b, b = InOrder(NumberWrites(f, xs, Elem[kind])), b.ok, Stand(in, q, b.out),
         NEW s, s = IF IsVarInt(f, Elem[kind])
                    THEN skip_each(in, q, Len(xs), [r \in Offsets(in) |->
                                                      skip_number(f, in, r, Elem[kind])])
                    ELSE take(in, q, Len(xs), Size[Elem[kind]])
  PROVE  Gets(s, s.v, q, Len(b.out), Len(in), deep)
<1> DEFINE e == Elem[kind]
<1>1. e \in DOMAIN Size
  BY ElemSize
<1> HIDE DEF e
<1>2. CASE IsVarInt(f, e)
  <2>1. s = skip_each(in, q, Len(xs), [r \in Offsets(in) |-> skip_number(f, in, r, e)])
    BY <1>2 DEF e
  <2> QED
    BY <1>1, <2>1, NumbersGets DEF e
<1>3. CASE ~ IsVarInt(f, e)
  <2>1. s = take(in, q, Len(xs), Size[e])
    BY <1>3 DEF e
  <2>2. Spans(Len(b.out), Len(xs), Size[e])
    BY <1>1, <1>3, NumbersSpan DEF e
  <2>3. b.out \in Seq(Byte) /\ Len(xs) \in Nat
    <3>1. b \in Writes
      BY <1>1, NumberWritesAre, InOrderWrites DEF e
    <3>2. xs \in Seq(Int)
      BY DEF Numbers
    <3> QED
      BY <3>1, <3>2 DEF Writes
  <2>4. Size[e] \in {1, 2, 4, 8}
    BY <1>1 DEF Size
  <2>5. Gets(s, b.out, q, Len(b.out), Len(in), deep)
    BY <2>1, <2>2, <2>3, <2>4, TakeGets
  <2> QED
    BY <2>5, GetsAny
<1> QED
  BY <1>2, <1>3

\* An array: decode_array_payload and skip_array.
LEMMA ArrayGets ==
  ASSUME NEW f, NEW in \in Seq(Byte), NEW p \in Offsets(in), NEW deep,
         NEW kind \in DOMAIN Elem, NEW xs, Numbers(xs, Elem[kind]),
         NEW w, w = write_array(f, xs, Elem[kind]), w.ok, Stand(in, p, w.out)
  PROVE  LET s == skip_array(f, in, p, kind) IN
         /\ Gets(decode_array_payload(f, in, p, kind), <<kind, xs>>, p, Len(w.out),
                 Len(in), deep)
         /\ Gets(s, s.v, p, Len(w.out), Len(in), deep)
<1> DEFINE e == Elem[kind]
           h == write_array_length(f, Len(xs))
           b == InOrder(NumberWrites(f, xs, e))
           u == read_array_length(f, in, p)
           t == IF kind = "ByteArray" THEN take(in, u.pos, u.v, 1) ELSE Ok(<<>>, u.pos)
           arr == decode_array(f, in, u.pos, e, u.v)
           d2 == IF ~ t.ok THEN t
                 ELSE IF arr.ok THEN Ok(<<kind, arr.v>>, arr.pos) ELSE arr
           s2 == IF IsVarInt(f, e)
                 THEN skip_each(in, u.pos, u.v, [r \in Offsets(in) |-> skip_number(f, in, r, e)])
                 ELSE take(in, u.pos, u.v, Size[e])
           d == decode_array_payload(f, in, p, kind)
           s == skip_array(f, in, p, kind)
<1>1. d = IF u.ok THEN d2 ELSE u
  BY DEF decode_array_payload, Then
<1>2. s = IF u.ok THEN s2 ELSE u
  BY DEF skip_array, Then
<1>3. w = AndThen(h, b)
  BY DEF write_array, NumberWrites
<1>4. e \in DOMAIN Size
  BY ElemSize
<1>5. h \in Writes /\ b \in Writes /\ Len(xs) \in Nat
  <2>1. Len(xs) \in Nat
    <3>1. xs \in Seq(Int)
      BY DEF Numbers
    <3> QED
      BY <3>1
  <2>2. b \in Writes
    <3> HIDE DEF e
    <3>1. Numbers(xs, e)
      BY DEF e
    <3> QED
      BY <1>4, <3>1, NumberWritesAre, InOrderWrites
  <2> QED
    BY <2>1, <2>2, ArrayLengthBytes
<1> HIDE DEF d, s, d2, s2
<1>6. h.ok /\ b.ok /\ w.out = h.out \o b.out
  <2> HIDE DEF h, b
  <2> QED
    BY <1>3, <1>5, BothWritten
<1>7. PICK m \in Nat, k \in Nat, N \in Nat :
        /\ m = Len(h.out) /\ k = Len(b.out) /\ N = Len(in) /\ Len(w.out) = m + k
        /\ Stand(in, p, h.out) /\ Stand(in, p + m, b.out) /\ p \in Nat
  <2>1. h.out \in Seq(Byte) /\ b.out \in Seq(Byte)
    <3> HIDE DEF h, b
    <3> QED
      BY <1>5 DEF Writes
  <2> HIDE DEF h, b
  <2>2. Len(h.out) \in Nat /\ Len(b.out) \in Nat /\ Len(w.out) = Len(h.out) + Len(b.out)
    BY <1>6, <2>1, BothLong
  <2>3. p \in Nat /\ Len(in) \in Nat
    BY DEF Offsets
  <2>4. Stand(in, p, h.out \o b.out)
    BY <1>6
  <2>5. Stand(in, p, h.out) /\ Stand(in, p + Len(h.out), b.out)
    BY <2>1, <2>3, <2>4, StandBoth
  <2> QED
    BY <2>2, <2>3, <2>5
<1>8. Gets(u, Len(xs), p, m, N, deep)
  <2> HIDE DEF u
  <2>1. Gets(read_array_length(f, in, p), Len(xs), p, Len(h.out), Len(in), deep)
    BY <1>5, <1>6, <1>7, ArrayLengthGets
  <2> QED
    BY <1>7, <2>1 DEF u
<1>9. ASSUME u.ok
      PROVE  Gets(d2, <<kind, xs>>, p + m, k, N, deep) /\ Gets(s2, s2.v, p + m, k, N, deep)
  <2>1. u.v = Len(xs) /\ u.pos = p + m /\ p + m <= N
    BY <1>8, <1>9 DEF Gets
  <2>2. PICK q \in Offsets(in) : q = p + m
    BY <1>7, <2>1 DEF Offsets
  <2>3. /\ t = IF kind = "ByteArray" THEN take(in, q, Len(xs), 1) ELSE Ok(<<>>, q)
        /\ arr = decode_array(f, in, q, e, Len(xs))
    BY <2>1, <2>2
  <2>4. s2 = IF IsVarInt(f, e)
             THEN skip_each(in, q, Len(xs), [r \in Offsets(in) |-> skip_number(f, in, r, e)])
             ELSE take(in, q, Len(xs), Size[e])
    BY <2>1, <2>2 DEF s2
  <2>5. d2 = IF ~ t.ok THEN t
             ELSE IF arr.ok THEN Ok(<<kind, arr.v>>, arr.pos) ELSE arr
    BY DEF d2
  <2>6. Stand(in, q, b.out) /\ b.ok
    BY <1>6, <1>7, <2>2
  <2> HIDE DEF t, arr, b, u
  <2>7. b = InOrder(NumberWrites(f, xs, Elem[kind]))
    BY DEF b
  <2>8. Gets(d2, <<kind, xs>>, q, Len(b.out), Len(in), deep)
    BY <2>3, <2>5, <2>6, <2>7, ArrayBodyGets
  <2>9. Gets(s2, s2.v, q, Len(b.out), Len(in), deep)
    BY <2>4, <2>6, <2>7, ArrayBodyPassed
  <2> QED
    BY <1>7, <2>2, <2>8, <2>9
<1> HIDE DEF u
<1>10. Gets(d, <<kind, xs>>, p, m + k, N, deep)
  <2>1. (u.ok => d = d2) /\ (~ u.ok => d = u)
    BY <1>1
  <2>2. u.ok => Gets(d, <<kind, xs>>, p + m, k, N, deep)
    BY <1>9, <2>1
  <2> QED
    BY <1>7, <1>8, <2>1, <2>2, GetsChain
<1>11. Gets(s, s.v, p, m + k, N, deep)
  <2>1. (u.ok => s = s2) /\ (~ u.ok => s = u)
    BY <1>2
  <2>2. u.ok => Gets(s, s.v, p + m, k, N, deep)
    BY <1>9, <2>1
  <2> QED
    BY <1>7, <1>8, <2>1, <2>2, GetsChain
<1> QED
  BY <1>7, <1>10, <1>11 DEF d, s

-----------------------------------------------------------------------------
(* Lists and compounds.                                                    *)

\* What is made of the bytes that follow those a was read from.
Follows(in, r, a, out, t, x, deep) ==
  \A q \in Offsets(in) : r.ok /\ r.v = a /\ r.pos = q /\ Stand(in, q, out) =>
    Gets(t, x, q, Len(out), Len(in), deep)

\* Two parts written one after the other are read one after the other.
LEMMA AfterGets ==
  ASSUME NEW in \in Seq(Byte), NEW p \in Offsets(in), NEW deep,
         NEW w \in Writes, NEW l \in Writes, NEW o, o = AndThen(w, l), o.ok,
         Stand(in, p, o.out), NEW r, NEW a, NEW t, NEW x,
         Stand(in, p, w.out) => Gets(r, a, p, Len(w.out), Len(in), deep),
         Follows(in, r, a, l.out, t, x, deep),
         ~ r.ok => t = r
  PROVE  Gets(t, x, p, Len(o.out), Len(in), deep)
<1>1. w.ok /\ l.ok /\ o.out = w.out \o l.out
  BY BothWritten
<1>2. w.out \in Seq(Byte) /\ l.out \in Seq(Byte)
  BY DEF Writes
<1>3. PICK m \in Nat, k \in Nat, N \in Nat :
        m = Len(w.out) /\ k = Len(l.out) /\ N = Len(in) /\ Len(o.out) = m + k
  <2>1. /\ Len(w.out) \in Nat /\ Len(l.out) \in Nat
        /\ Len(w.out \o l.out) = Len(w.out) + Len(l.out)
    BY <1>2, BothLong, Zenon
  <2>2. Len(o.out) = Len(w.out) + Len(l.out) /\ Len(in) \in Nat
    BY <1>1, <2>1
  <2> QED
    BY <2>1, <2>2
<1>4. Offsets(in) = 0 .. N /\ p \in Nat
  BY <1>3 DEF Offsets
<1>5. Stand(in, p, w.out) /\ Stand(in, p + m, l.out)
  <2>1. Stand(in, p, w.out \o l.out)
    BY <1>1
  <2> QED
    BY <1>2, <1>3, <1>4, <2>1, StandBoth
<1>6. Gets(r, a, p, m, N, deep)
  BY <1>3, <1>5
<1>7. ASSUME r.ok PROVE Gets(t, x, p + m, k, N, deep)
  <2>1. r.v = a /\ r.pos = p + m /\ p + m \in Offsets(in)
    BY <1>3, <1>4, <1>6, <1>7 DEF Gets
  <2> QED
    BY <1>3, <1>5, <1>7, <2>1 DEF Follows
<1>8. Gets(t, x, p, m + k, N, deep)
  BY <1>3, <1>4, <1>6, <1>7, GetsChain
<1> QED
  BY <1>3, <1>8

\* What is written for y is what y is read back from, or stepped over.
ReadsChild(in, I, J, below, y, deep) ==
  below[y].ok =>
    \A q \in Offsets(in) : Stand(in, q, below[y].out) =>
      /\ Gets(I[y[1]][q], y, q, Len(below[y].out), Len(in), deep)
      /\ Gets(J[y[1]][q], J[y[1]][q].v, q, Len(below[y].out), Len(in), deep)

\* A part that may be written, and is read back.
Part(in, I, J, below, y, deep) ==
  y[1] \in Kinds /\ below[y] \in Writes /\ ReadsChild(in, I, J, below, y, deep)

Parts(in, I, J, below, xs, deep) ==
  \A i \in DOMAIN xs : Part(in, I, J, below, xs[i], deep)

\* The elements written for a list.
ElementWrites(xs, arm, below) == [i \in DOMAIN xs |-> write_element(xs[i], arm, below)]

LEMMA ElementWritesAre ==
  ASSUME NEW in, NEW I, NEW J, NEW below, NEW deep, NEW X, NEW xs \in Seq(X), NEW arm,
         Parts(in, I, J, below, xs, deep)
  PROVE  /\ ElementWrites(xs, arm, below) \in Seq(Writes)
         /\ Len(ElementWrites(xs, arm, below)) = Len(xs)
         /\ DOMAIN ElementWrites(xs, arm, below) = DOMAIN xs
         /\ \A i \in DOMAIN xs :
              ElementWrites(xs, arm, below)[i] = write_element(xs[i], arm, below)
<1>1. ASSUME NEW i \in DOMAIN xs PROVE write_element(xs[i], arm, below) \in Writes
  <2>1. below[xs[i]] \in Writes
    BY DEF Parts, Part
  <2> QED
    BY <2>1, NoBytes DEF write_element
<1>2. PICK n \in Nat : n = Len(xs) /\ DOMAIN xs = 1 .. n
  OBVIOUS
<1> QED
  BY <1>1, <1>2 DEF ElementWrites

\* "End" is not a kind.
LEMMA EndIsNone == "End" \notin Kinds
BY DEF Kinds, TagIds

\* Nothing to write.
LEMMA InOrderNothing ==
  ASSUME NEW W \in Seq(Writes), Len(W) = 0
  PROVE  InOrder(W) = Wrote(<<>>)
<1>1. PICK g : /\ \A i \in 1 .. 0 + 1 : g[i] = WriteRound(W, 0, g, i)
               /\ InOrder(W) = g[1]
  BY WriteLoopIs
<1>2. 1 \in 1 .. 0 + 1 /\ 1 > 0
  OBVIOUS
<1> QED
  BY <1>1, <1>2 DEF WriteRound

\* The elements of a list, whose kind is that of the first.
LEMMA ElementsGet ==
  ASSUME NEW f \in Formats, NEW in \in Seq(Byte), NEW q \in Offsets(in), NEW deep,
         NEW I, NEW J, Agree(f, in, I, J), NEW below,
         NEW X, NEW xs \in Seq(X), Parts(in, I, J, below, xs, deep),
         NEW arm, arm = IF xs = <<>> THEN "End" ELSE xs[1][1],
         NEW b, b = InOrder(ElementWrites(xs, arm, below)), b.ok, Stand(in, q, b.out),
         NEW d, d = IF arm = "End" THEN Ok(<<>>, q) ELSE decode_list(in, q, Len(xs), I[arm]),
         NEW s, s = IF arm = "End" THEN Ok(<<>>, q) ELSE skip_each(in, q, Len(xs), J[arm])
  PROVE  Gets(d, xs, q, Len(b.out), Len(in), deep) /\ Gets(s, s.v, q, Len(b.out), Len(in), deep)
<1>1. PICK W : W = ElementWrites(xs, arm, below)
  OBVIOUS
<1>2. /\ W \in Seq(Writes) /\ Len(W) = Len(xs) /\ DOMAIN W = DOMAIN xs
      /\ \A i \in DOMAIN xs : W[i] = write_element(xs[i], arm, below)
  BY <1>1, ElementWritesAre
<1>3. b = InOrder(W)
  BY <1>1
<1>4. CASE xs = <<>>
  <2>1. Len(W) = 0 /\ arm = "End"
    BY <1>2, <1>4
  <2>2. b = Wrote(<<>>)
    BY <1>2, <1>3, <2>1, InOrderNothing
  <2>3. Len(b.out) = 0
    BY <2>2, WroteIs
  <2>4. d = Ok(<<>>, q) /\ s = Ok(<<>>, q)
    BY <2>1
  <2>5. Len(in) \in Nat /\ q \in 0 .. Len(in)
    BY DEF Offsets
  <2>6. Gets(Ok(<<>>, q), <<>>, q, 0, Len(in), deep)
    BY <2>5, GetsNothing
  <2>7. Ok(<<>>, q).v = <<>>
    BY OkIs
  <2> QED
    BY <1>4, <2>3, <2>4, <2>6, <2>7
<1>5. CASE xs # <<>>
  <2>1. 1 \in DOMAIN xs /\ arm = xs[1][1]
    BY <1>5
  <2>2. arm \in Kinds
    BY <2>1 DEF Parts, Part
  <2>3. arm # "End"
    BY <2>2, EndIsNone
  <2>4. PICK element, each : element = I[arm] /\ each = J[arm]
    OBVIOUS
  <2>5. Within(in, element) /\ Within(in, each)
    BY <2>2, <2>4 DEF Agree, Same, Within
  <2>6. ASSUME NEW i \in DOMAIN W, W[i].ok, NEW r \in Offsets(in), Stand(in, r, W[i].out)
        PROVE  /\ Gets(element[r], xs[i], r, Len(W[i].out), Len(in), deep)
               /\ Gets(each[r], each[r].v, r, Len(W[i].out), Len(in), deep)
    <3>1. W[i] = write_element(xs[i], arm, below)
      BY <1>2
    <3>2. Failed(<<>>).ok = FALSE
      BY DEF Failed
    <3>3. xs[i][1] = arm /\ W[i] = below[xs[i]]
      BY <2>6, <3>1, <3>2 DEF write_element
    <3>4. Part(in, I, J, below, xs[i], deep)
      BY <1>2 DEF Parts
    <3> QED
      BY <2>4, <2>6, <3>3, <3>4 DEF Part, ReadsChild
  <2>7. EachReads(in, W, element, xs, deep) /\ EachPassed(in, W, each, deep)
    BY <2>6 DEF EachReads, EachPassed
  <2>8. d = decode_list(in, q, Len(xs), element) /\ s = skip_each(in, q, Len(W), each)
    BY <1>2, <2>3, <2>4
  <2>9. Gets(d, xs, q, Len(b.out), Len(in), deep)
    BY <1>2, <1>3, <2>5, <2>7, <2>8, DecodeListGets
  <2>10. Gets(s, s.v, q, Len(b.out), Len(in), deep)
    BY <1>2, <1>3, <2>5, <2>7, <2>8, SkipEachGets
  <2> QED
    BY <2>9, <2>10
<1> QED
  BY <1>4, <1>5

\* A list: decode_list_payload and skip_list.
LEMMA ListGets ==
  ASSUME NEW f \in Formats, NEW in \in Seq(Byte), NEW p \in Offsets(in), NEW deep,
         NEW I, NEW J, Agree(f, in, I, J), NEW below,
         NEW X, NEW xs \in Seq(X), Parts(in, I, J, below, xs, deep),
         NEW w, w = write_list(f, xs, below), w.ok, Stand(in, p, w.out)
  PROVE  LET s == skip_list(f, in, p, J) IN
         /\ Gets(decode_list_payload(f, in, p, I), <<"List", xs>>, p, Len(w.out),
                 Len(in), deep)
         /\ Gets(s, s.v, p, Len(w.out), Len(in), deep)
<1> DEFINE t == read_tag_byte(in, p)
           u == read_array_length(f, in, t.pos)
           xd == IF t.v = "End" THEN Ok(<<>>, u.pos)
                 ELSE decode_list(in, u.pos, u.v, I[t.v])
           d3 == IF xd.ok THEN Ok(<<"List", xd.v>>, xd.pos) ELSE xd
           s3 == IF t.v = "End" THEN Ok(<<>>, u.pos) ELSE skip_each(in, u.pos, u.v, J[t.v])
           d2 == IF u.ok THEN d3 ELSE u
           s2 == IF u.ok THEN s3 ELSE u
           d == decode_list_payload(f, in, p, I)
           s == skip_list(f, in, p, J)
<1>1. d = IF t.ok THEN d2 ELSE t
  BY DEF decode_list_payload, Then
<1>2. s = IF t.ok THEN s2 ELSE t
  BY DEF skip_list, Then
<1>3. PICK arm : arm = IF xs = <<>> THEN "End" ELSE xs[1][1]
  OBVIOUS
<1>4. PICK h, g, b, l :
        /\ h = Wrote(<<tag_byte(arm)>>) /\ g = write_array_length(f, Len(xs))
        /\ b = InOrder(ElementWrites(xs, arm, below)) /\ l = AndThen(g, b)
  OBVIOUS
<1>5. w = AndThen(h, l)
  BY <1>3, <1>4, Zenon DEF write_list, ElementWrites
<1>6. arm \in Kinds \cup {"End"} /\ Len(xs) \in Nat
  <2>1. CASE xs = <<>>
    BY <1>3, <2>1
  <2>2. CASE xs # <<>>
    <3>1. 1 \in DOMAIN xs
      BY <2>2
    <3> QED
      BY <1>3, <2>2, <3>1 DEF Parts, Part
  <2> QED
    BY <2>1, <2>2
<1>7. h \in Writes /\ h.out = <<tag_byte(arm)>>
  BY <1>4, <1>6, TagBytes, WroteBytes, WroteIs
<1>8. g \in Writes /\ b \in Writes /\ l \in Writes
  <2>1. g \in Writes
    BY <1>4, <1>6, ArrayLengthBytes
  <2>2. b \in Writes
    BY <1>4, ElementWritesAre, InOrderWrites
  <2> QED
    BY <1>4, <2>1, <2>2, AndThenWrites
<1>9. l.ok /\ g.ok /\ b.ok
  <2> HIDE DEF t, d, s, d2, s2, d3, s3, u, xd
  <2>1. l.ok
    BY <1>5, <1>7, <1>8, BothWritten
  <2>2. l = AndThen(g, b)
    BY <1>4
  <2> QED
    BY <1>8, <2>1, <2>2, BothWritten
<1>10. Stand(in, p, h.out) => Gets(t, arm, p, Len(h.out), Len(in), deep)
  <2> SUFFICES ASSUME Stand(in, p, h.out) PROVE Gets(t, arm, p, Len(h.out), Len(in), deep)
    OBVIOUS
  <2>1. Gets(t, arm, p, 1, Len(in), deep)
    BY <1>6, <1>7, TagGets
  <2>2. Len(h.out) = 1
    BY <1>7
  <2> HIDE DEF t, d, s, d2, s2, d3, s3, u, xd
  <2> QED
    BY <2>1, <2>2
<1> HIDE DEF t, d, s, d3, s3
<1>11. ASSUME NEW q \in Offsets(in), t.ok, t.v = arm, t.pos = q, Stand(in, q, l.out)
       PROVE  /\ Gets(d2, <<"List", xs>>, q, Len(l.out), Len(in), deep)
              /\ Gets(s2, s2.v, q, Len(l.out), Len(in), deep)
  <2>1. Stand(in, q, g.out) => Gets(u, Len(xs), q, Len(g.out), Len(in), deep)
    BY <1>4, <1>6, <1>9, <1>11, ArrayLengthGets
  <2> HIDE DEF u
  <2>2. ASSUME NEW o \in Offsets(in), u.ok, u.v = Len(xs), u.pos = o, Stand(in, o, b.out)
        PROVE  /\ Gets(d3, <<"List", xs>>, o, Len(b.out), Len(in), deep)
               /\ Gets(s3, s3.v, o, Len(b.out), Len(in), deep)
    <3>1. /\ xd = IF arm = "End" THEN Ok(<<>>, o) ELSE decode_list(in, o, Len(xs), I[arm])
          /\ s3 = IF arm = "End" THEN Ok(<<>>, o) ELSE skip_each(in, o, Len(xs), J[arm])
      BY <1>11, <2>2 DEF s3
    <3>2. d3 = IF xd.ok THEN Ok(<<"List", xd.v>>, xd.pos) ELSE xd
      BY DEF d3
    <3> HIDE DEF xd
    <3>3. /\ Gets(xd, xs, o, Len(b.out), Len(in), deep)
          /\ Gets(s3, s3.v, o, Len(b.out), Len(in), deep)
      BY <1>3, <1>4, <1>9, <2>2, <3>1, ElementsGet
    <3>4. d3 = IF xd.ok THEN Ok(<<"List", xs>>, xd.pos) ELSE xd
      BY <3>2, <3>3 DEF Gets
    <3>5. Gets(d3, <<"List", xs>>, o, Len(b.out), Len(in), deep)
      BY <3>3, <3>4, GetsAs
    <3> QED
      BY <3>3, <3>5
  <2>3. /\ Follows(in, u, Len(xs), b.out, d2, <<"List", xs>>, deep)
        /\ Follows(in, u, Len(xs), b.out, s2, s2.v, deep)
    BY <2>2 DEF Follows
  <2>4. ~ u.ok => d2 = u /\ s2 = u
    OBVIOUS
  <2> HIDE DEF d2, s2
  <2>5. Gets(d2, <<"List", xs>>, q, Len(l.out), Len(in), deep)
    BY <1>4, <1>8, <1>9, <1>11, <2>1, <2>3, <2>4, AfterGets
  <2>6. Gets(s2, s2.v, q, Len(l.out), Len(in), deep)
    BY <1>4, <1>8, <1>9, <1>11, <2>1, <2>3, <2>4, AfterGets
  <2> QED
    BY <2>5, <2>6
<1> HIDE DEF d2, s2
<1>12. /\ Follows(in, t, arm, l.out, d, <<"List", xs>>, deep)
       /\ Follows(in, t, arm, l.out, s, s.v, deep)
  BY <1>1, <1>2, <1>11 DEF Follows
<1>13. ~ t.ok => d = t /\ s = t
  BY <1>1, <1>2
<1>14. Gets(d, <<"List", xs>>, p, Len(w.out), Len(in), deep)
  BY <1>5, <1>7, <1>8, <1>10, <1>12, <1>13, AfterGets
<1>15. Gets(s, s.v, p, Len(w.out), Len(in), deep)
  BY <1>5, <1>7, <1>8, <1>10, <1>12, <1>13, AfterGets
<1> QED
  BY <1>14, <1>15 DEF d, s

\* An entry of a compound: decode_entry and skip_entry.
LEMMA EntryGets ==
  ASSUME NEW f \in Formats, NEW in \in Seq(Byte), NEW p \in Offsets(in), NEW deep,
         NEW I, NEW J, NEW below, NEW name \in ByteStrings, NEW y,
         Part(in, I, J, below, y, deep),
         NEW w, w = write_child(f, name, y, below), w.ok, Stand(in, p, w.out)
  PROVE  /\ Gets(decode_entry(f, in, p, I), << <<name, y>> >>, p, Len(w.out), Len(in), deep)
         /\ Gets(skip_entry(f, in, p, J), <<"skipped">>, p, Len(w.out), Len(in), deep)
<1> DEFINE t == read_tag_byte(in, p)
           nm == read_string(f, in, t.pos)
           sk == skip_string(f, in, t.pos)
           x == I[t.v][nm.pos]
           z == J[t.v][sk.pos]
           d3 == IF x.ok THEN Ok(<< <<nm.v, x.v>> >>, x.pos) ELSE x
           s3 == IF z.ok THEN Ok(<<"skipped">>, z.pos) ELSE z
           d2 == IF nm.ok THEN d3 ELSE nm
           s2 == IF sk.ok THEN s3 ELSE sk
           d == decode_entry(f, in, p, I)
           s == skip_entry(f, in, p, J)
           entry == << <<name, y>> >>
<1>1. d = IF ~ t.ok THEN t ELSE IF t.v = "End" THEN Ok(<<>>, t.pos) ELSE d2
  BY DEF decode_entry, Then
<1>2. s = IF ~ t.ok THEN t ELSE IF t.v = "End" THEN Ok(<<>>, t.pos) ELSE s2
  BY DEF skip_entry, Then
<1>3. PICK kind : kind = y[1]
  OBVIOUS
<1>4. PICK h, g, b, l :
        /\ h = Wrote(<<tag_byte(kind)>>) /\ g = write_string(f, name)
        /\ b = below[y] /\ l = AndThen(g, b)
  OBVIOUS
<1> HIDE DEF t, nm, sk, x, z, d3, s3, d2, s2, d, s, entry
<1>5. w = AndThen(h, l)
  BY <1>3, <1>4, Zenon DEF write_child
<1>6. kind \in Kinds /\ kind # "End" /\ b \in Writes /\ name \in Seq(Byte)
  BY <1>3, <1>4, EndIsNone DEF Part, ByteStrings
<1>7. h \in Writes /\ h.out = <<tag_byte(kind)>>
  BY <1>4, <1>6, TagBytes, WroteBytes, WroteIs
<1>8. g \in Writes /\ l \in Writes
  BY <1>4, <1>6, StringBytes, AndThenWrites
<1>9. l.ok /\ g.ok /\ b.ok
  <2>1. l.ok
    BY <1>5, <1>7, <1>8, BothWritten
  <2>2. l = AndThen(g, b)
    BY <1>4
  <2> QED
    BY <1>6, <1>8, <2>1, <2>2, BothWritten
<1>10. Stand(in, p, h.out) => Gets(t, kind, p, Len(h.out), Len(in), deep)
  <2> SUFFICES ASSUME Stand(in, p, h.out) PROVE Gets(t, kind, p, Len(h.out), Len(in), deep)
    OBVIOUS
  <2>1. Gets(t, kind, p, 1, Len(in), deep)
    BY <1>6, <1>7, TagGets DEF t
  <2>2. Len(h.out) = 1
    BY <1>7
  <2> QED
    BY <2>1, <2>2
<1>11. ASSUME NEW q \in Offsets(in), t.ok, t.v = kind, t.pos = q, Stand(in, q, l.out)
       PROVE  /\ Gets(d2, entry, q, Len(l.out), Len(in), deep)
              /\ Gets(s2, <<"skipped">>, q, Len(l.out), Len(in), deep)
  <2>1. Stand(in, q, g.out) =>
          /\ Gets(nm, name, q, Len(g.out), Len(in), deep)
          /\ Gets(sk, sk.v, q, Len(g.out), Len(in), deep)
    <3> SUFFICES ASSUME Stand(in, q, g.out)
                 PROVE  /\ Gets(nm, name, q, Len(g.out), Len(in), deep)
                        /\ Gets(sk, sk.v, q, Len(g.out), Len(in), deep)
      OBVIOUS
    <3>1. nm = read_string(f, in, q) /\ sk = skip_string(f, in, q)
      BY <1>11 DEF nm, sk
    <3> QED
      BY <1>4, <1>9, <3>1, StringGets
  <2>2. ASSUME NEW o \in Offsets(in), nm.ok, nm.v = name, nm.pos = o, Stand(in, o, b.out)
        PROVE  Gets(d3, entry, o, Len(b.out), Len(in), deep)
    <3>1. x = I[y[1]][o]
      BY <1>3, <1>11, <2>2 DEF x
    <3>2. Gets(x, y, o, Len(b.out), Len(in), deep)
      BY <1>4, <1>9, <2>2, <3>1 DEF Part, ReadsChild
    <3>3. d3 = IF x.ok THEN Ok(entry, x.pos) ELSE x
      BY <2>2, <3>2 DEF d3, entry, Gets
    <3> QED
      BY <3>2, <3>3, GetsAs
  <2>3. ASSUME NEW o \in Offsets(in), sk.ok, sk.pos = o, Stand(in, o, b.out)
        PROVE  Gets(s3, <<"skipped">>, o, Len(b.out), Len(in), deep)
    <3>1. z = J[y[1]][o]
      BY <1>3, <1>11, <2>3 DEF z
    <3>2. Gets(z, z.v, o, Len(b.out), Len(in), deep)
      BY <1>4, <1>9, <2>3, <3>1 DEF Part, ReadsChild
    <3>3. s3 = IF z.ok THEN Ok(<<"skipped">>, z.pos) ELSE z
      BY DEF s3
    <3> QED
      BY <3>2, <3>3, GetsAs
  <2>4. Follows(in, nm, name, b.out, d2, entry, deep)
    <3>1. nm.ok => d2 = d3
      BY DEF d2
    <3> QED
      BY <2>2, <3>1 DEF Follows
  <2>5. Follows(in, sk, sk.v, b.out, s2, <<"skipped">>, deep)
    <3>1. sk.ok => s2 = s3
      BY DEF s2
    <3> QED
      BY <2>3, <3>1 DEF Follows
  <2>6. (~ nm.ok => d2 = nm) /\ (~ sk.ok => s2 = sk)
    BY DEF d2, s2
  <2>7. Gets(d2, entry, q, Len(l.out), Len(in), deep)
    BY <1>4, <1>6, <1>8, <1>9, <1>11, <2>1, <2>4, <2>6, AfterGets
  <2>8. Gets(s2, <<"skipped">>, q, Len(l.out), Len(in), deep)
    BY <1>4, <1>6, <1>8, <1>9, <1>11, <2>1, <2>5, <2>6, AfterGets
  <2> QED
    BY <2>7, <2>8
<1>12. /\ Follows(in, t, kind, l.out, d, entry, deep)
       /\ Follows(in, t, kind, l.out, s, <<"skipped">>, deep)
  BY <1>1, <1>2, <1>6, <1>11 DEF Follows
<1>13. ~ t.ok => d = t /\ s = t
  BY <1>1, <1>2
<1>14. Gets(d, entry, p, Len(w.out), Len(in), deep)
  BY <1>5, <1>7, <1>8, <1>10, <1>12, <1>13, AfterGets
<1>15. Gets(s, <<"skipped">>, p, Len(w.out), Len(in), deep)
  BY <1>5, <1>7, <1>8, <1>10, <1>12, <1>13, AfterGets
<1> QED
  BY <1>14, <1>15 DEF d, s, entry

\* A round of either loop takes at least the byte of the tag.
LEMMA EntryTakes ==
  ASSUME NEW f \in Formats, NEW in \in Seq(Byte), NEW p \in Offsets(in),
         NEW I, NEW J, Agree(f, in, I, J)
  PROVE  LET d == decode_entry(f, in, p, I)
             s == skip_entry(f, in, p, J)
         IN  /\ d.ok => d.pos \in p + 1 .. Len(in)
             /\ s.ok => s.pos \in p + 1 .. Len(in)
<1> DEFINE t == read_tag_byte(in, p)
           nm == read_string(f, in, t.pos)
           sk == skip_string(f, in, t.pos)
           x == I[t.v][nm.pos]
           z == J[t.v][sk.pos]
           d3 == IF x.ok THEN Ok(<< <<nm.v, x.v>> >>, x.pos) ELSE x
           s3 == IF z.ok THEN Ok(<<"skipped">>, z.pos) ELSE z
           d2 == IF nm.ok THEN d3 ELSE nm
           s2 == IF sk.ok THEN s3 ELSE sk
           d == decode_entry(f, in, p, I)
           s == skip_entry(f, in, p, J)
           N == Len(in)
<1>1. d = IF ~ t.ok THEN t ELSE IF t.v = "End" THEN Ok(<<>>, t.pos) ELSE d2
  BY DEF decode_entry, Then
<1>2. s = IF ~ t.ok THEN t ELSE IF t.v = "End" THEN Ok(<<>>, t.pos) ELSE s2
  BY DEF skip_entry, Then
<1>3. N \in Nat /\ p \in 0 .. N /\ Offsets(in) = 0 .. N
  BY DEF Offsets
<1> HIDE DEF nm, sk, x, z, d3, s3, d2, s2, d, s, N
<1>4. Yields(t, p, N) /\ (t.ok => t.pos = p + 1 /\ (t.v = "End" \/ t.v \in Kinds))
  BY TagByteYields DEF N
<1> HIDE DEF t
<1>5. t.ok => t.pos \in Offsets(in) /\ t.pos = p + 1
  BY <1>3, <1>4 DEF Yields
<1>6. ASSUME t.ok, t.v # "End"
      PROVE  (d2.ok => d2.pos \in t.pos .. N) /\ (s2.ok => s2.pos \in t.pos .. N)
  <2>1. Yields(nm, t.pos, N) /\ Yields(sk, t.pos, N)
    BY <1>5, <1>6, StringSkipped DEF nm, sk, N, Same
  <2>2. (nm.ok => nm.pos \in Offsets(in)) /\ (sk.ok => sk.pos \in Offsets(in))
    BY <1>3, <1>5, <1>6, <2>1 DEF Yields
  <2>3. (nm.ok => Yields(x, nm.pos, N)) /\ (sk.ok => Yields(z, sk.pos, N))
    BY <1>4, <1>6, <2>2 DEF Agree, Same, x, z, N
  <2>4. (d2.ok => nm.ok /\ x.ok /\ d2.pos = x.pos) /\ (s2.ok => sk.ok /\ z.ok /\ s2.pos = z.pos)
    BY OkIs DEF d2, s2, d3, s3
  <2> QED
    BY <1>3, <1>5, <1>6, <2>1, <2>3, <2>4 DEF Yields
<1>7. /\ d.ok => t.ok /\ d.pos \in t.pos .. N
      /\ s.ok => t.ok /\ s.pos \in t.pos .. N
  <2>1. CASE ~ t.ok
    BY <1>1, <1>2, <2>1
  <2>2. CASE t.ok /\ t.v = "End"
    <3>1. d.pos = t.pos /\ s.pos = t.pos
      BY <1>1, <1>2, <2>2, OkIs
    <3> QED
      BY <1>3, <1>5, <2>2, <3>1
  <2>3. CASE t.ok /\ t.v # "End"
    BY <1>1, <1>2, <1>6, <2>3
  <2> QED
    BY <2>1, <2>2, <2>3
<1>8. (d.ok => d.pos \in p + 1 .. N) /\ (s.ok => s.pos \in p + 1 .. N)
  BY <1>5, <1>7
<1> QED
  BY <1>8 DEF d, s, N

\* What is written for the entries of a compound.
EntryWrites(f, cs, below) ==
  [i \in DOMAIN cs |-> write_child(f, cs[i][1], cs[i][2], below)]

\* Entries that may be written, and are read back.
Entries(in, I, J, below, cs, deep) ==
  /\ \E X : cs \in Seq(X)
  /\ \A i \in DOMAIN cs : /\ cs[i] = <<cs[i][1], cs[i][2]>> /\ cs[i][1] \in ByteStrings
                          /\ Part(in, I, J, below, cs[i][2], deep)

LEMMA EntryWritesAre ==
  ASSUME NEW f, NEW in, NEW I, NEW J, NEW below, NEW deep, NEW cs,
         Entries(in, I, J, below, cs, deep)
  PROVE  /\ EntryWrites(f, cs, below) \in Seq(Writes)
         /\ Len(EntryWrites(f, cs, below)) = Len(cs)
         /\ DOMAIN EntryWrites(f, cs, below) = DOMAIN cs
         /\ \A i \in DOMAIN cs :
              EntryWrites(f, cs, below)[i] = write_child(f, cs[i][1], cs[i][2], below)
<1>1. ASSUME NEW i \in DOMAIN cs
      PROVE  write_child(f, cs[i][1], cs[i][2], below) \in Writes
  <2>1. PICK name, y : name = cs[i][1] /\ y = cs[i][2]
    OBVIOUS
  <2>2. name \in Seq(Byte) /\ y[1] \in Kinds /\ below[y] \in Writes
    BY <2>1 DEF Entries, Part, ByteStrings
  <2>3. Wrote(<<tag_byte(y[1])>>) \in Writes
    BY <2>2, TagBytes, WroteBytes
  <2>4. AndThen(write_string(f, name), below[y]) \in Writes
    BY <2>2, StringBytes, AndThenWrites
  <2>5. write_child(f, name, y, below) \in Writes
    BY <2>3, <2>4, AndThenWrites DEF write_child
  <2> QED
    BY <2>1, <2>5
<1>2. PICK n \in Nat : n = Len(cs) /\ DOMAIN cs = 1 .. n
  BY DEF Entries
<1> QED
  BY <1>1, <1>2 DEF EntryWrites

\* The loops take something in each round.
LEMMA CompoundTaking ==
  ASSUME NEW f \in Formats, NEW in \in Seq(Byte), NEW I, NEW J, Agree(f, in, I, J)
  PROVE  /\ Taking([q \in Offsets(in) |-> decode_entry(f, in, q, I)], Len(in))
         /\ Taking([q \in Offsets(in) |-> skip_entry(f, in, q, J)], Len(in))
<1> DEFINE D == [q \in Offsets(in) |-> decode_entry(f, in, q, I)]
           S == [q \in Offsets(in) |-> skip_entry(f, in, q, J)]
<1>1. PICK N \in Nat : N = Len(in)
  OBVIOUS
<1>2. Offsets(in) = 0 .. N /\ DOMAIN D = 0 .. N /\ DOMAIN S = 0 .. N
  BY <1>1 DEF Offsets
<1>3. ASSUME NEW q \in 0 .. N
      PROVE  (D[q].ok => D[q].pos \in q + 1 .. N) /\ (S[q].ok => S[q].pos \in q + 1 .. N)
  BY <1>1, <1>2, <1>3, EntryTakes
<1> HIDE DEF D, S
<1>4. Taking(D, N) /\ Taking(S, N)
  BY <1>2, <1>3 DEF Taking
<1> QED
  BY <1>1, <1>4 DEF D, S

\* Both loops end at the tag End.
LEMMA CompoundEnds ==
  ASSUME NEW f, NEW in \in Seq(Byte), NEW deep, NEW I, NEW J
  PROVE  /\ EndsWith(in, [q \in Offsets(in) |-> decode_entry(f, in, q, I)], << 0 >>, deep)
         /\ EndsWith(in, [q \in Offsets(in) |-> skip_entry(f, in, q, J)], << 0 >>, deep)
<1> SUFFICES ASSUME NEW q \in Offsets(in), Stand(in, q, << 0 >>)
             PROVE  /\ Gets(decode_entry(f, in, q, I), <<>>, q, Len(<< 0 >>), Len(in), deep)
                    /\ Gets(skip_entry(f, in, q, J), <<>>, q, Len(<< 0 >>), Len(in), deep)
  BY DEF EndsWith
<1> DEFINE t == read_tag_byte(in, q)
           d == decode_entry(f, in, q, I)
           s == skip_entry(f, in, q, J)
<1>1. (~ t.ok => d = t) /\ (t.ok /\ t.v = "End" => d = Ok(<<>>, t.pos))
  BY DEF decode_entry, Then
<1>2. (~ t.ok => s = t) /\ (t.ok /\ t.v = "End" => s = Ok(<<>>, t.pos))
  BY DEF skip_entry, Then
<1>3. Gets(t, "End", q, 1, Len(in), deep)
  <2>1. tag_byte("End") = 0
    BY DEF tag_byte
  <2> QED
    BY <2>1, TagGets
<1>4. Len(<< 0 >>) = 1
  OBVIOUS
<1> HIDE DEF t, d, s
<1>5. t.ok => t.v = "End"
  BY <1>3 DEF Gets
<1>6. /\ d = IF t.ok THEN Ok(<<>>, t.pos) ELSE t
      /\ s = IF t.ok THEN Ok(<<>>, t.pos) ELSE t
  BY <1>1, <1>2, <1>5
<1>7. Gets(d, <<>>, q, 1, Len(in), deep) /\ Gets(s, <<>>, q, 1, Len(in), deep)
  BY <1>3, <1>6, GetsAs
<1> QED
  BY <1>4, <1>7 DEF d, s

\* A compound: decode_compound and skip_compound.
LEMMA CompoundGets ==
  ASSUME NEW f \in Formats, NEW in \in Seq(Byte), NEW p \in Offsets(in), NEW deep,
         NEW I, NEW J, Agree(f, in, I, J), NEW below,
         NEW cs, Entries(in, I, J, below, cs, deep),
         NEW w, w = write_compound(f, cs, below), w.ok, Stand(in, p, w.out)
  PROVE  LET s == skip_compound(f, in, p, J) IN
         /\ Gets(decode_compound(f, in, p, I), cs, p, Len(w.out), Len(in), deep)
         /\ Gets(s, s.v, p, Len(w.out), Len(in), deep)
<1>1. PICK D, S : /\ D = [q \in Offsets(in) |-> decode_entry(f, in, q, I)]
                  /\ S = [q \in Offsets(in) |-> skip_entry(f, in, q, J)]
  OBVIOUS
<1>2. PICK W, b, e : /\ W = EntryWrites(f, cs, below) /\ b = InOrder(W) /\ e = Wrote(<< 0 >>)
  OBVIOUS
<1>3. w = AndThen(b, e)
  BY <1>2, Zenon DEF write_compound, EntryWrites
<1>4. /\ W \in Seq(Writes) /\ Len(W) = Len(cs) /\ DOMAIN W = DOMAIN cs
      /\ \A i \in DOMAIN cs : W[i] = write_child(f, cs[i][1], cs[i][2], below)
  BY <1>2, EntryWritesAre
<1>5. b \in Writes /\ e \in Writes /\ e.out = << 0 >> /\ << 0 >> \in Seq(Byte)
  <2>1. 0 \in Byte
    BY DEF Byte
  <2>2. << 0 >> \in Seq(Byte)
    BY <2>1, OneByte
  <2>3. b \in Writes
    BY <1>2, <1>4, InOrderWrites
  <2>4. e \in Writes
    BY <1>2, <2>2, WroteBytes
  <2>5. e.out = << 0 >>
    BY <1>2, WroteIs, Zenon
  <2> QED
    BY <2>2, <2>3, <2>4, <2>5
<1>6. b.ok /\ w.out = b.out \o << 0 >>
  <2>1. b.ok /\ w.out = b.out \o e.out
    BY <1>3, <1>5, BothWritten
  <2> QED
    BY <1>5, <2>1, Zenon
<1>7. PICK m \in Nat : /\ m = Len(b.out) /\ Len(w.out) = m + Len(<< 0 >>)
                       /\ Stand(in, p, b.out) /\ Stand(in, p + m, << 0 >>)
  <2>1. b.out \in Seq(Byte) /\ p \in Nat
    BY <1>5 DEF Writes, Offsets
  <2>2. Len(b.out) \in Nat /\ Len(b.out \o << 0 >>) = Len(b.out) + Len(<< 0 >>)
    BY <1>5, <2>1, BothLong
  <2>3. Stand(in, p, b.out \o << 0 >>)
    BY <1>6
  <2>4. Stand(in, p, b.out) /\ Stand(in, p + Len(b.out), << 0 >>)
    BY <1>5, <2>1, <2>3, StandBoth
  <2> QED
    BY <1>6, <2>2, <2>4
<1>8. ASSUME NEW i \in DOMAIN W, W[i].ok, NEW q \in Offsets(in), Stand(in, q, W[i].out)
      PROVE  /\ Gets(D[q], <<cs[i]>>, q, Len(W[i].out), Len(in), deep)
             /\ Gets(S[q], <<"skipped">>, q, Len(W[i].out), Len(in), deep)
  <2>1. PICK name, y : name = cs[i][1] /\ y = cs[i][2]
    OBVIOUS
  <2>2. cs[i] = <<name, y>> /\ name \in ByteStrings /\ Part(in, I, J, below, y, deep)
    BY <1>4, <2>1 DEF Entries
  <2>3. W[i] = write_child(f, name, y, below)
    BY <1>4, <2>1
  <2>4. D[q] = decode_entry(f, in, q, I) /\ S[q] = skip_entry(f, in, q, J)
    BY <1>1
  <2> QED
    BY <1>8, <2>2, <2>3, <2>4, EntryGets
<1>9. PICK n \in Nat : n = Len(cs) /\ DOMAIN cs = 1 .. n
  BY DEF Entries
<1> DEFINE ss == [i \in 1 .. n |-> "skipped"]
<1>10. ss \in Seq({"skipped"}) /\ Len(ss) = n /\ \A i \in 1 .. n : ss[i] = "skipped"
  BY <1>9
<1> HIDE DEF ss
<1>11. EachGets(in, W, D, cs, deep)
  BY <1>8 DEF EachGets
<1>12. EachGets(in, W, S, ss, deep)
  <2>1. \A i \in DOMAIN W : ss[i] = "skipped"
    BY <1>4, <1>9, <1>10
  <2> QED
    BY <1>8, <2>1 DEF EachGets
<1>13. Taking(D, Len(in)) /\ Taking(S, Len(in))
  BY <1>1, CompoundTaking
<1>14. EndsWith(in, D, << 0 >>, deep) /\ EndsWith(in, S, << 0 >>, deep)
  BY <1>1, CompoundEnds
<1>15. PICK X : cs \in Seq(X)
  BY DEF Entries
<1>16. Gets(Rounds(D, Len(in) + 1, p), cs, p, Len(w.out), Len(in), deep)
  <2>1. Stand(in, p + Len(b.out), << 0 >>)
    BY <1>7
  <2>2. Gets(Rounds(D, Len(in) + 1, p), cs, p, Len(b.out) + Len(<< 0 >>), Len(in), deep)
    BY <1>2, <1>4, <1>5, <1>6, <1>7, <1>11, <1>13, <1>14, <1>15, <2>1, WholeGets
  <2> QED
    BY <1>7, <2>2
<1>17. Gets(Rounds(S, Len(in) + 1, p), ss, p, Len(w.out), Len(in), deep)
  <2>1. Stand(in, p + Len(b.out), << 0 >>) /\ Len(W) = Len(ss)
    BY <1>4, <1>7, <1>9, <1>10
  <2>2. Gets(Rounds(S, Len(in) + 1, p), ss, p, Len(b.out) + Len(<< 0 >>), Len(in), deep)
    BY <1>2, <1>4, <1>5, <1>6, <1>7, <1>10, <1>12, <1>13, <1>14, <2>1, WholeGets
  <2> QED
    BY <1>7, <2>2
<1>18. /\ decode_compound(f, in, p, I) = Rounds(D, Len(in) + 1, p)
       /\ skip_compound(f, in, p, J) = Rounds(S, Len(in) + 1, p)
  BY <1>1, Zenon DEF decode_compound, skip_compound
<1> QED
  BY <1>16, <1>17, <1>18, GetsAny

-----------------------------------------------------------------------------
(* Payloads, Values and roots.                                             *)

\* A payload is read back if those one level down are.
LEMMA PayloadGets ==
  ASSUME NEW f \in Formats, NEW in \in Seq(Byte), NEW p \in Offsets(in), NEW deep,
         NEW I, NEW J, NEW left \in Nat, left # 0 => Agree(f, in, I, J), left = 0 => deep,
         NEW d, NEW levels, NEW x \in ValueLevel(d, levels), x # EndTag,
         NEW below, left # 0 => Parts(in, I, J, below, Children(x), deep),
         NEW w, w = write_payload(f, x, below), w.ok, Stand(in, p, w.out)
  PROVE  LET s == skip_payload(f, in, p, x[1], left, J) IN
         /\ Gets(decode_payload(f, in, p, x[1], left, I), x, p, Len(w.out), Len(in), deep)
         /\ Gets(s, s.v, p, Len(w.out), Len(in), deep)
<1> DEFINE r == decode_payload(f, in, p, x[1], left, I)
           s == skip_payload(f, in, p, x[1], left, J)
           N == Len(in)
           m == Len(w.out)
<1>1. ValueIs(x, d, levels) /\ x = <<x[1], x[2]>>
  BY ValueCases
<1>2. PICK kind, y : kind = x[1] /\ y = x[2] /\ x = <<kind, y>>
  BY <1>1
<1>3. CASE left = 0
  <2>1. r = Err("LimitExceeded", p) /\ s = Err("LimitExceeded", p)
    BY <1>3 DEF decode_payload, skip_payload
  <2> HIDE DEF r, s, m, N
  <2>2. r.ok = FALSE /\ r.v = "LimitExceeded" /\ s.ok = FALSE /\ s.v = "LimitExceeded"
    BY <2>1 DEF Err
  <2>3. Gets(r, x, p, m, N, deep) /\ Gets(s, s.v, p, m, N, deep)
    BY <1>3, <2>2 DEF Gets
  <2> QED
    BY <2>3 DEF r, s, m, N
<1>4. ASSUME left # 0, kind \in DOMAIN Size, InRange(y, kind)
      PROVE  Gets(r, x, p, m, N, deep) /\ Gets(s, s.v, p, m, N, deep)
  <2> DEFINE a == read_number(f, in, p, kind)
             b == skip_number(f, in, p, kind)
             out == write_number(f, y, kind)
  <2>1. r = IF a.ok THEN Ok(<<kind, a.v>>, a.pos) ELSE a
    BY <1>2, <1>4 DEF decode_payload, Then
  <2>2. s = b
    BY <1>2, <1>4 DEF skip_payload
  <2>3. w.out = out
    <3>1. w = Wrote(out)
      BY <1>2, <1>4, SizesAre DEF write_payload
    <3> HIDE DEF out
    <3> QED
      BY <3>1, WroteIs, Zenon
  <2>4. Gets(a, y, p, m, N, deep) /\ Gets(b, b.v, p, m, N, deep)
    <3> DEFINE k == w.out
    <3>1. k = write_number(f, y, kind) /\ Stand(in, p, k)
      BY <2>3
    <3> HIDE DEF k
    <3>2. Gets(a, y, p, Len(k), N, deep) /\ Gets(b, b.v, p, Len(k), N, deep)
      BY <1>4, <3>1, NumberGets
    <3> QED
      BY <3>2 DEF k
  <2> HIDE DEF a, b, r, s, m, N
  <2>5. r = IF a.ok THEN Ok(x, a.pos) ELSE a
    BY <1>2, <2>1, <2>4 DEF Gets
  <2>6. Gets(r, x, p, m, N, deep)
    BY <2>4, <2>5, GetsAs
  <2> QED
    BY <2>2, <2>4, <2>6
<1>5. ASSUME left # 0, kind \in DOMAIN Elem, Numbers(y, Elem[kind])
      PROVE  Gets(r, x, p, m, N, deep) /\ Gets(s, s.v, p, m, N, deep)
  <2>1. r = decode_array_payload(f, in, p, kind) /\ s = skip_array(f, in, p, kind)
    BY <1>2, <1>5, SizesAre DEF decode_payload, skip_payload
  <2>2. w = write_array(f, y, Elem[kind])
    BY <1>2, <1>5, SizesAre DEF write_payload
  <2> HIDE DEF r, s
  <2> QED
    BY <1>2, <1>5, <2>1, <2>2, ArrayGets
<1>6. ASSUME left # 0, kind = "String", y \in ByteStrings
      PROVE  Gets(r, x, p, m, N, deep) /\ Gets(s, s.v, p, m, N, deep)
  <2> DEFINE a == read_string(f, in, p)
             b == skip_string(f, in, p)
  <2>1. r = IF a.ok THEN Ok(<<"String", a.v>>, a.pos) ELSE a
    BY <1>2, <1>6, SizesAre DEF decode_payload, Then
  <2>2. s = b
    BY <1>2, <1>6, SizesAre DEF skip_payload
  <2>3. w = write_string(f, y)
    BY <1>2, <1>6, SizesAre DEF write_payload
  <2>4. Gets(a, y, p, m, N, deep) /\ Gets(b, b.v, p, m, N, deep)
    BY <1>6, <2>3, StringGets
  <2> HIDE DEF a, b, r, s, m, N
  <2>5. r = IF a.ok THEN Ok(x, a.pos) ELSE a
    BY <1>2, <1>6, <2>1, <2>4 DEF Gets
  <2>6. Gets(r, x, p, m, N, deep)
    BY <2>4, <2>5, GetsAs
  <2> QED
    BY <2>2, <2>4, <2>6
<1>7. ASSUME left # 0, kind = "List", y \in Seq(levels)
      PROVE  Gets(r, x, p, m, N, deep) /\ Gets(s, s.v, p, m, N, deep)
  <2>1. r = decode_list_payload(f, in, p, I) /\ s = skip_list(f, in, p, J)
    BY <1>2, <1>7, SizesAre DEF decode_payload, skip_payload
  <2>2. w = write_list(f, y, below)
    BY <1>2, <1>7, SizesAre DEF write_payload
  <2>3. Children(x) = y
    BY <1>2, <1>7 DEF Children
  <2> HIDE DEF r, s
  <2> QED
    BY <1>2, <1>7, <2>1, <2>2, <2>3, ListGets
<1>8. ASSUME left # 0, kind = "Compound", y \in Seq(ByteStrings \X levels)
      PROVE  Gets(r, x, p, m, N, deep) /\ Gets(s, s.v, p, m, N, deep)
  <2> DEFINE a == decode_compound(f, in, p, I)
             b == skip_compound(f, in, p, J)
  <2>1. r = IF a.ok THEN Ok(<<"Compound", a.v>>, a.pos) ELSE a
    BY <1>2, <1>8, SizesAre DEF decode_payload, Then
  <2>2. s = b
    BY <1>2, <1>8, SizesAre DEF skip_payload
  <2>3. w = write_compound(f, y, below)
    BY <1>2, <1>8, SizesAre DEF write_payload
  <2>4. Entries(in, I, J, below, y, deep)
    <3>1. Children(x) = [i \in DOMAIN y |-> y[i][2]]
      BY <1>2, <1>8 DEF Children
    <3>2. ASSUME NEW i \in DOMAIN y
          PROVE  /\ y[i] = <<y[i][1], y[i][2]>> /\ y[i][1] \in ByteStrings
                 /\ Part(in, I, J, below, y[i][2], deep)
      <4>1. y[i] \in ByteStrings \X levels
        BY <1>8
      <4>2. i \in DOMAIN Children(x) /\ Children(x)[i] = y[i][2]
        BY <3>1
      <4>3. Part(in, I, J, below, Children(x)[i], deep)
        BY <1>8, <4>2 DEF Parts
      <4> QED
        BY <4>1, <4>2, <4>3
    <3> QED
      BY <1>8, <3>2 DEF Entries
  <2>5. Gets(a, y, p, m, N, deep) /\ Gets(b, b.v, p, m, N, deep)
    BY <1>8, <2>3, <2>4, CompoundGets
  <2> HIDE DEF a, b, r, s, m, N
  <2>6. r = IF a.ok THEN Ok(x, a.pos) ELSE a
    BY <1>2, <1>8, <2>1, <2>5 DEF Gets
  <2>7. Gets(r, x, p, m, N, deep)
    BY <2>5, <2>6, GetsAs
  <2> QED
    BY <2>2, <2>5, <2>7
<1> HIDE DEF r, s, m, N
<1>9. \/ kind \in DOMAIN Size /\ InRange(y, kind)
      \/ kind \in DOMAIN Elem /\ Numbers(y, Elem[kind])
      \/ kind = "String" /\ y \in ByteStrings
      \/ kind = "List" /\ y \in Seq(levels)
      \/ kind = "Compound" /\ y \in Seq(ByteStrings \X levels)
  BY <1>1, <1>2 DEF ValueIs, Numbers
<1>10. left # 0 => Gets(r, x, p, m, N, deep) /\ Gets(s, s.v, p, m, N, deep)
  BY <1>4, <1>5, <1>6, <1>7, <1>8, <1>9
<1> QED
  BY <1>3, <1>10 DEF r, s, m, N

\* The tag End is not a Value inside v.
Proper(v) == \A d \in Nat : d # 0 => EndTag \notin Nested(v)[d]

\* A Value: what is written for it is what it decodes from and is skipped by.
LEMMA ValueGets ==
  ASSUME NEW f \in Formats, NEW in \in Seq(Byte), NEW p \in Offsets(in), NEW deep,
         NEW n \in Nat, NEW v \in Values(n), v # EndTag, Proper(v),
         Nested(v)[kMaxDecodeDepth] # {} => deep,
         NEW o, o = write_value(f, v), o.ok, Stand(in, p, o.out)
  PROVE  LET s == skip_payloads(f, in, kMaxDecodeDepth)[v[1]][p] IN
         /\ Gets(decode_payloads(f, in)[v[1]][p], v, p, Len(o.out), Len(in), deep)
         /\ Gets(s, s.v, p, Len(o.out), Len(in), deep)
<1>1. PICK K \in Nat : K = kMaxDecodeDepth
  BY DepthAssumption
<1>2. PICK D, S : /\ \A k \in 0 .. K : Leveled(f, in, D, S, k)
                  /\ decode_payloads(f, in) = D[K]
                  /\ skip_payloads(f, in, kMaxDecodeDepth) = S[K]
  BY <1>1, LevelsAgree
<1>3. PICK w : WrittenAs(f, v, w) /\ o = w[0][v]
  <2>1. PICK at : /\ \A d \in 0 .. n : at[d] = ValueLevel(d, at[d - 1])
                  /\ Values(n) = at[n]
    BY ValuesAre
  <2>2. Nested(v)[n + 1] = {}
    BY <2>1, NestedTyped
  <2>3. \E w : WrittenAs(f, v, w) /\ write_value(f, v) = w[0][v]
    BY <2>2, WrittenIs
  <2> QED
    BY <2>3
<1>4. ASSUME NEW d \in 0 .. K, NEW x \in Nested(v)[d]
      PROVE  /\ w[d][x] \in Writes /\ x[1] \in Kinds /\ x # EndTag
             /\ \E l, levels : x \in ValueLevel(l, levels)
  <2>1. d \in Nat
    OBVIOUS
  <2>2. x # EndTag
    <3>1. CASE d = 0
      BY <3>1, NestedAre
    <3>2. CASE d # 0
      BY <2>1, <3>2 DEF Proper
    <3> QED
      BY <3>1, <3>2
  <2>3. /\ w[d][x] \in Writes /\ x[1] \in Kinds \cup {"End"}
        /\ \E l, levels : x \in ValueLevel(l, levels)
    BY <1>3, <2>1, PartsWritten
  <2>4. x[1] # "End"
    <3>1. PICK l, levels : x \in ValueLevel(l, levels)
      BY <2>3
    <3>2. ValueIs(x, l, levels)
      BY <3>1, ValueCases
    <3> QED
      BY <2>2, <3>2, SizesAre DEF ValueIs
  <2> QED
    BY <2>2, <2>3, <2>4
<1> DEFINE Back(d) == \A x \in Nested(v)[d] : Part(in, D[K - d], S[K - d], w[d], x, deep)
           T == {d \in 0 .. K : Back(d)}
<1>5. ASSUME NEW d \in 0 .. K, d # K => Back(d + 1)
      PROVE  Back(d)
  <2> SUFFICES ASSUME NEW x \in Nested(v)[d], w[d][x].ok, NEW q \in Offsets(in),
                      Stand(in, q, w[d][x].out)
               PROVE  /\ Gets(D[K - d][x[1]][q], x, q, Len(w[d][x].out), Len(in), deep)
                      /\ Gets(S[K - d][x[1]][q], S[K - d][x[1]][q].v, q, Len(w[d][x].out),
                              Len(in), deep)
    BY <1>4 DEF Part, ReadsChild
  <2>1. PICK left \in 0 .. K : left = K - d
    OBVIOUS
  <2>2. left \in Nat /\ (left = 0 <=> d = K) /\ left - 1 = K - (d + 1)
        /\ (left # 0 => left - 1 \in 0 .. K) /\ d \in Nat
    BY <2>1
  <2>3. PICK l, levels : x \in ValueLevel(l, levels)
    BY <1>4
  <2>4. x[1] \in Kinds /\ x # EndTag
    BY <1>4
  <2>5. left = 0 => deep
    BY <1>1, <2>2
  <2>6. left # 0 => Agree(f, in, D[left - 1], S[left - 1])
    BY <1>2, <2>2 DEF Leveled
  <2>7. left # 0 => Parts(in, D[left - 1], S[left - 1], w[d + 1], Children(x), deep)
    <3> SUFFICES ASSUME left # 0, NEW i \in DOMAIN Children(x)
                 PROVE  Part(in, D[left - 1], S[left - 1], w[d + 1], Children(x)[i], deep)
      BY DEF Parts
    <3>1. Children(x)[i] \in Nested(v)[d + 1]
      BY <2>2, NestedChild
    <3> QED
      BY <1>5, <2>2, <3>1
  <2>8. PICK b : b = w[d][x]
    OBVIOUS
  <2>9. b = write_payload(f, x, w[d + 1])
    BY <1>3, <2>2, <2>8 DEF WrittenAs
  <2>10. PICK I, J, below : I = D[left - 1] /\ J = S[left - 1] /\ below = w[d + 1]
    OBVIOUS
  <2>11. /\ D[left][x[1]][q] = decode_payload(f, in, q, x[1], left, I)
         /\ S[left][x[1]][q] = skip_payload(f, in, q, x[1], left, J)
    BY <1>2, <2>4, <2>10 DEF Leveled
  <2> HIDE DEF Back
  <2>12. LET s == skip_payload(f, in, q, x[1], left, J) IN
         /\ Gets(decode_payload(f, in, q, x[1], left, I), x, q, Len(b.out), Len(in), deep)
         /\ Gets(s, s.v, q, Len(b.out), Len(in), deep)
    BY <2>2, <2>3, <2>4, <2>5, <2>6, <2>7, <2>8, <2>9, <2>10, PayloadGets
  <2> QED
    BY <2>1, <2>8, <2>11, <2>12
<1>6. 0 \in T
  <2>1. K \in T
    BY <1>5
  <2>2. \A d \in 0 .. K : d # K /\ d + 1 \in T => d \in T
    BY <1>5
  <2>3. \A d \in 0 .. K : d \in T
    <3> HIDE DEF T
    <3> QED
      BY <2>1, <2>2, Downward
  <2>4. 0 \in 0 .. K
    OBVIOUS
  <2> QED
    BY <2>3, <2>4
<1>7. Part(in, D[K], S[K], w[0], v, deep)
  <2>1. v \in Nested(v)[0] /\ K - 0 = K
    BY NestedAre
  <2> QED
    BY <1>6, <2>1
<1> QED
  BY <1>2, <1>3, <1>7 DEF Part, ReadsChild

\* A named root is read as an entry of a compound is.
LEMMA NamedAsEntry ==
  ASSUME NEW f, NEW in, NEW p
  PROVE  LET d == decode_entry(f, in, p, decode_payloads(f, in))
             s == skip_entry(f, in, p, skip_payloads(f, in, kMaxDecodeDepth))
         IN  /\ decode_named(f, in, p) =
                  IF d.ok THEN Ok(IF d.v = <<>> THEN NoRoot ELSE d.v[1], d.pos) ELSE d
             /\ \E k : skip_named(f, in, p) = IF s.ok THEN Ok(k, s.pos) ELSE s
<1> DEFINE I == decode_payloads(f, in)
           J == skip_payloads(f, in, kMaxDecodeDepth)
           t == read_tag_byte(in, p)
           nm == read_string(f, in, t.pos)
           sk == skip_string(f, in, t.pos)
           x == I[t.v][nm.pos]
           z == J[t.v][sk.pos]
           d3 == IF x.ok THEN Ok(<< <<nm.v, x.v>> >>, x.pos) ELSE x
           s3 == IF z.ok THEN Ok(<<"skipped">>, z.pos) ELSE z
           d2 == IF nm.ok THEN d3 ELSE nm
           s2 == IF sk.ok THEN s3 ELSE sk
           d == decode_entry(f, in, p, I)
           s == skip_entry(f, in, p, J)
           e3 == IF x.ok THEN Ok(<<nm.v, x.v>>, x.pos) ELSE x
           r3 == IF z.ok THEN Ok(t.v, z.pos) ELSE z
           e2 == IF nm.ok THEN e3 ELSE nm
           r2 == IF sk.ok THEN r3 ELSE sk
           e == decode_named(f, in, p)
           r == skip_named(f, in, p)
<1>1. d = IF ~ t.ok THEN t ELSE IF t.v = "End" THEN Ok(<<>>, t.pos) ELSE d2
  BY DEF decode_entry, Then
<1>2. s = IF ~ t.ok THEN t ELSE IF t.v = "End" THEN Ok(<<>>, t.pos) ELSE s2
  BY DEF skip_entry, Then
<1>3. e = IF ~ t.ok THEN t ELSE IF t.v = "End" THEN Ok(NoRoot, t.pos) ELSE e2
  BY DEF decode_named, Then
<1>4. r = IF ~ t.ok THEN t ELSE IF t.v = "End" THEN Ok(t.v, t.pos) ELSE r2
  BY DEF skip_named, Then
<1> HIDE DEF t, d, s, e, r, nm, sk, x, z
<1>5. \A c : << c >> # <<>> /\ <<c>>[1] = c
  OBVIOUS
<1>6. e = IF d.ok THEN Ok(IF d.v = <<>> THEN NoRoot ELSE d.v[1], d.pos) ELSE d
  BY <1>1, <1>3, <1>5 DEF Ok
<1>7. r = IF s.ok THEN Ok(t.v, s.pos) ELSE s
  BY <1>2, <1>4 DEF Ok
<1> QED
  BY <1>6, <1>7 DEF d, s, e, r

\* The root of a Value that is not End has one of the kinds.
LEMMA RootKind ==
  ASSUME NEW n \in Nat, NEW v \in Values(n), v # EndTag
  PROVE  v[1] \in Kinds
<1>1. PICK at : /\ \A d \in 0 .. n : at[d] = ValueLevel(d, at[d - 1])
                /\ Values(n) = at[n]
  BY ValuesAre
<1>2. v \in ValueLevel(n, at[n - 1])
  <2>1. n \in 0 .. n
    OBVIOUS
  <2> QED
    BY <1>1, <2>1
<1>3. v[1] \in Kinds \cup {"End"} /\ ValueIs(v, n, at[n - 1])
  BY <1>2, ValueKind, ValueCases
<1>4. v[1] # "End"
  BY <1>3, SizesAre DEF ValueIs
<1> QED
  BY <1>3, <1>4

\* A root that is not the empty one is at least a tag long.
LEMMA TaggedLong ==
  ASSUME NEW l \in Writes, NEW b, <<b>> \in Seq(Byte),
         NEW w, w = AndThen(Wrote(<<b>>), l), w.ok
  PROVE  Len(w.out) >= 1
<1>1. PICK h : h = Wrote(<<b>>)
  OBVIOUS
<1>2. h \in Writes /\ h.out = <<b>>
  BY <1>1, WroteBytes, WroteIs
<1>3. w.out = h.out \o l.out
  BY <1>1, <1>2, BothWritten
<1>4. w.out = <<b>> \o l.out /\ l.out \in Seq(Byte)
  BY <1>2, <1>3 DEF Writes
<1>5. PICK y \in Seq(Byte) : y = l.out
  BY <1>4
<1>6. Len(<<b>> \o y) = 1 + Len(y) /\ Len(y) \in Nat
  OBVIOUS
<1> QED
  BY <1>4, <1>5, <1>6

\* The byte 0 stands for the empty root.
LEMMA EmptyGets ==
  ASSUME NEW f \in Formats, NEW in \in Seq(Byte), NEW p \in Offsets(in), NEW deep,
         Stand(in, p, << 0 >>)
  PROVE  LET s == skip(f, in, p) IN
         /\ Gets(decode(f, in, p), NoRoot, p, 1, Len(in), deep)
         /\ Gets(s, s.v, p, 1, Len(in), deep)
<1> DEFINE t == read_tag_byte(in, p)
           d == decode(f, in, p)
           s == skip(f, in, p)
<1>1. (~ t.ok => d = t) /\ (t.ok /\ t.v = "End" => d = Ok(NoRoot, t.pos))
  BY DEF decode, decode_java_named, decode_bedrock_le, decode_bedrock_varint,
         decode_java_anonymous, decode_named, Then
<1>2. (~ t.ok => s = t) /\ (t.ok /\ t.v = "End" => s = Ok(t.v, t.pos))
  BY DEF skip, skip_java_named, skip_bedrock_le, skip_bedrock_varint,
         skip_java_anonymous, skip_named, Then
<1>3. Gets(t, "End", p, 1, Len(in), deep)
  <2>1. tag_byte("End") = 0
    BY DEF tag_byte
  <2> QED
    BY <2>1, TagGets
<1> HIDE DEF t, d, s
<1>4. t.ok => t.v = "End"
  BY <1>3 DEF Gets
<1>5. /\ d = IF t.ok THEN Ok(NoRoot, t.pos) ELSE t
      /\ s = IF t.ok THEN Ok("End", t.pos) ELSE t
  BY <1>1, <1>2, <1>4
<1>6. Gets(d, NoRoot, p, 1, Len(in), deep) /\ Gets(s, "End", p, 1, Len(in), deep)
  BY <1>3, <1>5, GetsAs
<1> QED
  BY <1>6, GetsAny DEF d, s

\* A named root that is not the empty one.
LEMMA NamedGets ==
  ASSUME NEW f \in Formats, NEW in \in Seq(Byte), NEW p \in Offsets(in), NEW deep,
         NEW n \in Nat, NEW name \in ByteStrings, NEW v \in Values(n),
         v # EndTag, Proper(v), Nested(v)[kMaxDecodeDepth] # {} => deep,
         NEW w, w = encode_named(f, <<name, v>>), w.ok
  PROVE  LET s == skip_named(f, in, p) IN
         /\ Len(w.out) >= 1
         /\ Stand(in, p, w.out) =>
              /\ Gets(decode_named(f, in, p), <<name, v>>, p, Len(w.out), Len(in), deep)
              /\ Gets(s, s.v, p, Len(w.out), Len(in), deep)
<1>1. v[1] \in Kinds /\ write_value(f, v) \in Writes /\ name \in Seq(Byte)
  BY RootKind, ValueWrites DEF ByteStrings
<1>2. w = AndThen(Wrote(<<tag_byte(v[1])>>),
                  AndThen(write_string(f, name), write_value(f, v)))
  BY DEF encode_named
<1>3. Len(w.out) >= 1
  <2>1. PICK l : l = AndThen(write_string(f, name), write_value(f, v))
    OBVIOUS
  <2>2. l \in Writes
    BY <1>1, <2>1, StringBytes, AndThenWrites
  <2>3. PICK b : b = tag_byte(v[1])
    OBVIOUS
  <2>4. <<b>> \in Seq(Byte)
    BY <1>1, <2>3, TagBytes
  <2> QED
    BY <1>2, <2>1, <2>2, <2>3, <2>4, TaggedLong
<1> DEFINE I == decode_payloads(f, in)
           J == skip_payloads(f, in, kMaxDecodeDepth)
           d == decode_entry(f, in, p, I)
           s == skip_entry(f, in, p, J)
           e == decode_named(f, in, p)
           r == skip_named(f, in, p)
           N == Len(in)
           m == Len(w.out)
<1>4. ASSUME Stand(in, p, w.out)
      PROVE  Gets(d, << <<name, v>> >>, p, m, N, deep) /\ Gets(s, <<"skipped">>, p, m, N, deep)
  <2> DEFINE below == [x \in {v} |-> write_value(f, v)]
  <2>1. below[v] = write_value(f, v)
    OBVIOUS
  <2> HIDE DEF below, I, J, d, s
  <2>2. ASSUME write_value(f, v).ok, NEW q \in Offsets(in), Stand(in, q, write_value(f, v).out)
        PROVE  /\ Gets(I[v[1]][q], v, q, Len(write_value(f, v).out), Len(in), deep)
               /\ Gets(J[v[1]][q], J[v[1]][q].v, q, Len(write_value(f, v).out), Len(in), deep)
    <3>1. PICK o : o = write_value(f, v)
      OBVIOUS
    <3>2. /\ Gets(I[v[1]][q], v, q, Len(o.out), Len(in), deep)
          /\ Gets(J[v[1]][q], J[v[1]][q].v, q, Len(o.out), Len(in), deep)
      BY <2>2, <3>1, ValueGets DEF I, J
    <3> QED
      BY <3>1, <3>2
  <2>3. Part(in, I, J, below, v, deep)
    BY <1>1, <2>1, <2>2 DEF Part, ReadsChild
  <2>4. w = write_child(f, name, v, below)
    BY <1>2, <2>1 DEF write_child
  <2> QED
    BY <1>4, <2>3, <2>4, EntryGets DEF d, s
<1>5. /\ e = IF d.ok THEN Ok(IF d.v = <<>> THEN NoRoot ELSE d.v[1], d.pos) ELSE d
      /\ \E k : r = IF s.ok THEN Ok(k, s.pos) ELSE s
  BY NamedAsEntry
<1> HIDE DEF d, s, e, r, N, m
<1>6. ASSUME Stand(in, p, w.out)
      PROVE  Gets(e, <<name, v>>, p, m, N, deep) /\ Gets(r, r.v, p, m, N, deep)
  <2>1. PICK x : x = <<name, v>>
    OBVIOUS
  <2>2. Gets(d, <<x>>, p, m, N, deep) /\ Gets(s, <<"skipped">>, p, m, N, deep)
    BY <1>4, <1>6, <2>1
  <2>3. <<x>> # <<>> /\ <<x>>[1] = x
    OBVIOUS
  <2>4. d.ok => d.v = <<x>>
    BY <2>2 DEF Gets
  <2>5. e = IF d.ok THEN Ok(x, d.pos) ELSE d
    BY <1>5, <2>3, <2>4
  <2>6. Gets(e, x, p, m, N, deep)
    BY <2>2, <2>5, GetsAs
  <2>7. PICK k : r = IF s.ok THEN Ok(k, s.pos) ELSE s
    BY <1>5
  <2>8. Gets(r, k, p, m, N, deep)
    BY <2>2, <2>7, GetsAs
  <2>9. Gets(r, r.v, p, m, N, deep)
    BY <2>8, GetsAny
  <2> QED
    BY <2>1, <2>6, <2>9
<1> QED
  BY <1>3, <1>6 DEF e, r, N, m

\* An anonymous one.
LEMMA AnonymousGets ==
  ASSUME NEW in \in Seq(Byte), NEW p \in Offsets(in), NEW deep,
         NEW n \in Nat, NEW v \in Values(n),
         v # EndTag, Proper(v), Nested(v)[kMaxDecodeDepth] # {} => deep,
         NEW w, w = encode_java_anonymous(v), w.ok
  PROVE  LET s == skip_java_anonymous(in, p) IN
         /\ Len(w.out) >= 1
         /\ Stand(in, p, w.out) =>
              /\ Gets(decode_java_anonymous(in, p), << <<>>, v>>, p, Len(w.out), Len(in), deep)
              /\ Gets(s, s.v, p, Len(w.out), Len(in), deep)
<1>0. PICK f \in Formats : f = "JavaAnonymousRoot"
  BY DEF Formats, Java
<1>1. PICK kind, l, h : /\ kind = v[1] /\ l = write_value(f, v)
                        /\ h = Wrote(<<tag_byte(kind)>>)
  OBVIOUS
<1>2. w = AndThen(h, l)
  BY <1>0, <1>1 DEF encode_java_anonymous
<1>3. kind \in Kinds /\ l \in Writes /\ kind # "End"
  BY <1>1, RootKind, ValueWrites, EndIsNone
<1>4. h \in Writes /\ h.out = <<tag_byte(kind)>> /\ <<tag_byte(kind)>> \in Seq(Byte)
  BY <1>1, <1>3, TagBytes, WroteBytes, WroteIs
<1>5. Len(w.out) >= 1
  <2>1. PICK b : b = tag_byte(kind)
    OBVIOUS
  <2> QED
    BY <1>1, <1>2, <1>3, <1>4, <2>1, TaggedLong
<1>6. l.ok
  BY <1>2, <1>3, <1>4, BothWritten
<1> DEFINE t == read_tag_byte(in, p)
           x == decode_payloads(f, in)[t.v][t.pos]
           y == skip_payloads(f, in, kMaxDecodeDepth)[t.v][t.pos]
           d2 == IF x.ok THEN Ok(<< <<>>, x.v>>, x.pos) ELSE x
           s2 == IF y.ok THEN Ok(t.v, y.pos) ELSE y
           d == decode_java_anonymous(in, p)
           s == skip_java_anonymous(in, p)
<1>7. d = IF ~ t.ok THEN t ELSE IF t.v = "End" THEN Ok(NoRoot, t.pos) ELSE d2
  BY <1>0 DEF decode_java_anonymous, Then
<1>8. s = IF ~ t.ok THEN t ELSE IF t.v = "End" THEN Ok(t.v, t.pos) ELSE s2
  BY <1>0 DEF skip_java_anonymous, Then
<1> HIDE DEF t, x, y, d2, s2, d, s
<1>9. Stand(in, p, h.out) => Gets(t, kind, p, Len(h.out), Len(in), deep)
  <2> SUFFICES ASSUME Stand(in, p, h.out) PROVE Gets(t, kind, p, Len(h.out), Len(in), deep)
    OBVIOUS
  <2>1. Gets(t, kind, p, 1, Len(in), deep)
    BY <1>3, <1>4, TagGets DEF t
  <2>2. Len(h.out) = 1
    BY <1>4
  <2> QED
    BY <2>1, <2>2
<1>10. ASSUME NEW q \in Offsets(in), t.ok, t.v = kind, t.pos = q, Stand(in, q, l.out)
       PROVE  /\ Gets(d2, << <<>>, v>>, q, Len(l.out), Len(in), deep)
              /\ Gets(s2, kind, q, Len(l.out), Len(in), deep)
  <2>1. /\ x = decode_payloads(f, in)[v[1]][q]
        /\ y = skip_payloads(f, in, kMaxDecodeDepth)[v[1]][q]
    BY <1>1, <1>10 DEF x, y
  <2>2. Gets(x, v, q, Len(l.out), Len(in), deep) /\ Gets(y, y.v, q, Len(l.out), Len(in), deep)
    <3>1. l = write_value(f, v)
      BY <1>1
    <3>2. LET k == skip_payloads(f, in, kMaxDecodeDepth)[v[1]][q] IN
          /\ Gets(decode_payloads(f, in)[v[1]][q], v, q, Len(l.out), Len(in), deep)
          /\ Gets(k, k.v, q, Len(l.out), Len(in), deep)
      BY <1>6, <1>10, <3>1, ValueGets
    <3> QED
      BY <2>1, <3>2
  <2>3. d2 = IF x.ok THEN Ok(<< <<>>, v>>, x.pos) ELSE x
    BY <2>2 DEF d2, Gets
  <2>4. s2 = IF y.ok THEN Ok(kind, y.pos) ELSE y
    BY <1>10 DEF s2
  <2>5. Gets(d2, << <<>>, v>>, q, Len(l.out), Len(in), deep)
    <3>1. PICK nv : nv = << <<>>, v>>
      OBVIOUS
    <3>2. d2 = IF x.ok THEN Ok(nv, x.pos) ELSE x
      BY <2>3, <3>1
    <3>3. Gets(d2, nv, q, Len(l.out), Len(in), deep)
      BY <2>2, <3>2, GetsAs
    <3> QED
      BY <3>1, <3>3
  <2>6. Gets(s2, kind, q, Len(l.out), Len(in), deep)
    BY <2>2, <2>4, GetsAs
  <2> QED
    BY <2>5, <2>6
<1>11. /\ Follows(in, t, kind, l.out, d, << <<>>, v>>, deep)
       /\ Follows(in, t, kind, l.out, s, kind, deep)
  BY <1>3, <1>7, <1>8, <1>10 DEF Follows
<1>12. ~ t.ok => d = t /\ s = t
  BY <1>7, <1>8
<1>13. ASSUME Stand(in, p, w.out)
       PROVE  /\ Gets(d, << <<>>, v>>, p, Len(w.out), Len(in), deep)
              /\ Gets(s, s.v, p, Len(w.out), Len(in), deep)
  <2>1. Gets(d, << <<>>, v>>, p, Len(w.out), Len(in), deep)
    <3>1. PICK nv : nv = << <<>>, v>>
      OBVIOUS
    <3>2. Gets(d, nv, p, Len(w.out), Len(in), deep)
      BY <1>2, <1>3, <1>4, <1>9, <1>11, <1>12, <1>13, <3>1, AfterGets
    <3> QED
      BY <3>1, <3>2
  <2>2. Gets(s, kind, p, Len(w.out), Len(in), deep)
    BY <1>2, <1>3, <1>4, <1>9, <1>11, <1>12, <1>13, AfterGets
  <2> QED
    BY <2>1, <2>2, GetsAny
<1> QED
  BY <1>5, <1>13 DEF d, s

\* What encode wrote for a root, wherever in a buffer it stands, decodes to
\* the root and is stepped over by skip; cut short, it is the end of the input.
\* Only a root nested past the depth limit may be refused instead.
THEOREM RootGets ==
  ASSUME NEW f \in Formats, NEW in \in Seq(Byte), NEW p \in Offsets(in), NEW deep,
         NEW n \in Nat, NEW name \in ByteStrings, NEW v \in Values(n), Proper(v),
         Nested(v)[kMaxDecodeDepth] # {} => deep,
         NEW w, w = encode(f, <<name, v>>), w.ok
  PROVE  LET s == skip(f, in, p) IN
         /\ Len(w.out) >= 1
         /\ Stand(in, p, w.out) =>
              /\ Gets(decode(f, in, p), StoredAs(f, <<name, v>>), p, Len(w.out), Len(in), deep)
              /\ Gets(s, s.v, p, Len(w.out), Len(in), deep)
<1>0. PICK nv : nv = <<name, v>>
  OBVIOUS
<1>1. nv[1] = name /\ nv[2] = v
  BY <1>0
<1>2. CASE v = EndTag
  <2>1. w = Wrote(<< 0 >>) /\ StoredAs(f, nv) = NoRoot
    BY <1>0, <1>1, <1>2 DEF encode, encode_java_anonymous, encode_named, StoredAs,
                  encode_java_named, encode_bedrock_le, encode_bedrock_varint
  <2>2. w.out = << 0 >>
    BY <2>1, WroteIs
  <2>3. Len(w.out) = 1
    BY <2>2
  <2>4. PICK d, s : d = decode(f, in, p) /\ s = skip(f, in, p)
    OBVIOUS
  <2>5. PICK m : m = Len(w.out)
    OBVIOUS
  <2>6. Stand(in, p, w.out) => /\ Gets(d, NoRoot, p, m, Len(in), deep)
                               /\ Gets(s, s.v, p, m, Len(in), deep)
    BY <2>2, <2>3, <2>4, <2>5, EmptyGets
  <2>7. m >= 1
    <3>1. m = 1
      BY <2>3, <2>5
    <3> QED
      BY <3>1
  <2> QED
    BY <1>0, <2>1, <2>4, <2>5, <2>6, <2>7
<1>3. CASE v # EndTag /\ f = "JavaAnonymousRoot"
  <2>1. PICK x : x = << <<>>, v>>
    OBVIOUS
  <2>2. /\ w = encode_java_anonymous(v) /\ StoredAs(f, nv) = x
        /\ decode(f, in, p) = decode_java_anonymous(in, p)
        /\ skip(f, in, p) = skip_java_anonymous(in, p)
    BY <1>0, <1>1, <1>3, <2>1 DEF encode, decode, skip, StoredAs
  <2>3. LET s == skip_java_anonymous(in, p) IN
        /\ Len(w.out) >= 1
        /\ Stand(in, p, w.out) =>
             /\ Gets(decode_java_anonymous(in, p), x, p, Len(w.out), Len(in), deep)
             /\ Gets(s, s.v, p, Len(w.out), Len(in), deep)
    BY <1>3, <2>1, <2>2, AnonymousGets
  <2> QED
    BY <1>0, <2>2, <2>3
<1>4. CASE v # EndTag /\ f # "JavaAnonymousRoot"
  <2>1. /\ w = encode_named(f, nv) /\ StoredAs(f, nv) = nv
        /\ decode(f, in, p) = decode_named(f, in, p)
        /\ skip(f, in, p) = skip_named(f, in, p)
    BY <1>0, <1>1, <1>4 DEF encode, decode, skip, StoredAs, Formats, Java, Bedrock,
                encode_java_named, encode_bedrock_le, encode_bedrock_varint,
                decode_java_named, decode_bedrock_le, decode_bedrock_varint,
                skip_java_named, skip_bedrock_le, skip_bedrock_varint
  <2>2. LET s == skip_named(f, in, p) IN
        /\ Len(w.out) >= 1
        /\ Stand(in, p, w.out) =>
             /\ Gets(decode_named(f, in, p), nv, p, Len(w.out), Len(in), deep)
             /\ Gets(s, s.v, p, Len(w.out), Len(in), deep)
    BY <1>0, <1>4, <2>1, NamedGets
  <2> QED
    BY <1>0, <2>1, <2>2
<1> QED
  BY <1>2, <1>3, <1>4

=============================================================================
