------------------------------ MODULE NbtCodec ------------------------------
(***************************************************************************)
(* decode, skip and encode of one NBT root (the files of src/decode,       *)
(* src/skip and src/encode).  Each dialect's file holds its own switch     *)
(* over the tag; the switches are the same but for how numbers, lengths    *)
(* and strings are written, which is NbtWire's.  The comments name the     *)
(* places where they do differ.                                            *)
(***************************************************************************)
EXTENDS NbtWire

\* What decode and skip may fail with.
ErrorCodes ==
  {"UnexpectedEndOfInput", "UnknownTagId", "NegativeLength", "LimitExceeded",
   "InvalidVarInt", "InvalidMutf8"}

-----------------------------------------------------------------------------
(* Decode.  `left` counts down where the code's depth counts up: it is the *)
(* number of levels that may still be entered.  `inner` has what the       *)
(* payloads one level down decode to, by tag and cursor.                   *)

decode_array(f, in, pos, kind, n) ==
  Rounds([p \in Offsets(in) |->
            Then(read_number(f, in, p, kind), LAMBDA x, q : Ok(<<x>>, q))],
         n, pos)

\* A byte array's bytes are taken at once, or none of them.
decode_array_payload(f, in, pos, kind) ==
  Then(read_array_length(f, in, pos), LAMBDA n, p :
    Then(IF kind = "ByteArray" THEN take(in, p, n, 1) ELSE Ok(<<>>, p),
         LAMBDA b, q :
    Then(decode_array(f, in, p, Elem[kind], n), LAMBDA xs, r :
      Ok(<<kind, xs>>, r))))

decode_list(in, pos, n, element) ==
  Rounds([p \in Offsets(in) |->
            Then(element[p], LAMBDA x, q : Ok(<<x>>, q))],
         n, pos)

\* List<End, N> is an empty list, whatever N.
decode_list_payload(f, in, pos, inner) ==
  Then(read_tag_byte(in, pos), LAMBDA kind, p :
  Then(read_array_length(f, in, p), LAMBDA n, q :
  Then(IF kind = "End" THEN Ok(<<>>, q) ELSE decode_list(in, q, n, inner[kind]),
       LAMBDA xs, r : Ok(<<"List", xs>>, r))))

\* One round of a compound's loop: an entry, or nothing at its end.
decode_entryLenient(f, in, pos, inner) ==
  IF pos = Len(in) THEN Ok(<<>>, pos)
  ELSE Then(read_tag_byte(in, pos), LAMBDA kind, p :
    IF kind = "End" THEN Ok(<<>>, p)
    ELSE Then(read_string(f, in, p), LAMBDA name, q :
         Then(inner[kind][q], LAMBDA x, r : Ok(<< <<name, x>> >>, r))))
decode_entry(f, in, pos, inner) ==
  Then(read_tag_byte(in, pos), LAMBDA kind, p :
    IF kind = "End" THEN Ok(<<>>, p)
    ELSE Then(read_string(f, in, p), LAMBDA name, q :
         Then(inner[kind][q], LAMBDA x, r : Ok(<< <<name, x>> >>, r))))

\* The loop is bounded by the bytes, of which each round takes at least one.
decode_compound(f, in, pos, inner) ==
  Rounds([p \in Offsets(in) |-> decode_entry(f, in, p, inner)],
         Len(in) + 1, pos)

decode_payloadShallow(f, in, pos, kind, left, inner) ==
  IF left <= 1 THEN Err("LimitExceeded", pos)
  ELSE IF kind \in DOMAIN Size
    THEN Then(read_number(f, in, pos, kind), LAMBDA x, p : Ok(<<kind, x>>, p))
  ELSE IF kind \in DOMAIN Elem THEN decode_array_payload(f, in, pos, kind)
  ELSE IF kind = "String"
    THEN Then(read_string(f, in, pos), LAMBDA s, p : Ok(<<"String", s>>, p))
  ELSE IF kind = "List" THEN decode_list_payload(f, in, pos, inner)
  ELSE Then(decode_compound(f, in, pos, inner), LAMBDA cs, p :
         Ok(<<"Compound", cs>>, p))
\* No caller passes the tag End.
decode_payload(f, in, pos, kind, left, inner) ==
  IF left = 0 THEN Err("LimitExceeded", pos)
  ELSE IF kind \in DOMAIN Size
    THEN Then(read_number(f, in, pos, kind), LAMBDA x, p : Ok(<<kind, x>>, p))
  ELSE IF kind \in DOMAIN Elem THEN decode_array_payload(f, in, pos, kind)
  ELSE IF kind = "String"
    THEN Then(read_string(f, in, pos), LAMBDA s, p : Ok(<<"String", s>>, p))
  ELSE IF kind = "List" THEN decode_list_payload(f, in, pos, inner)
  ELSE Then(decode_compound(f, in, pos, inner), LAMBDA cs, p :
         Ok(<<"Compound", cs>>, p))

\* What every payload in the buffer decodes to, by tag and cursor.
decode_payloads(f, in) ==
  LET at[left \in 0 .. kMaxDecodeDepth] ==
        [kind \in Kinds |-> [p \in Offsets(in) |->
           decode_payload(f, in, p, kind, left, at[left - 1])]]
  IN  at[kMaxDecodeDepth]

\* A named root; the bare byte 0 stands for no NBT at all.
NoRoot == << <<>>, EndTag >>

\* What a root reads back as: an anonymous root has no name, and the empty
\* root has none either.
StoredAs(f, nv) ==
  IF nv[2] = EndTag THEN NoRoot
  ELSE IF f = "JavaAnonymousRoot" THEN << <<>>, nv[2] >> ELSE nv

decode_named(f, in, pos) ==
  Then(read_tag_byte(in, pos), LAMBDA kind, p :
    IF kind = "End" THEN Ok(NoRoot, p)
    ELSE Then(read_string(f, in, p), LAMBDA name, q :
         Then(decode_payloads(f, in)[kind][q], LAMBDA x, r :
           Ok(<<name, x>>, r))))

decode_java_named(in, pos) == decode_named("JavaNamedRoot", in, pos)

decode_java_anonymous(in, pos) ==
  Then(read_tag_byte(in, pos), LAMBDA kind, p :
    IF kind = "End" THEN Ok(NoRoot, p)
    ELSE Then(decode_payloads("JavaAnonymousRoot", in)[kind][p],
              LAMBDA x, r : Ok(<< <<>>, x >>, r)))

decode_bedrock_le(in, pos) == decode_named("BedrockLittleEndian", in, pos)
decode_bedrock_varint(in, pos) == decode_named("BedrockVarInt", in, pos)

\* Decoder::decode on a cursor at pos.
decode(f, in, pos) ==
  IF f = "JavaNamedRoot" THEN decode_java_named(in, pos)
  ELSE IF f = "JavaAnonymousRoot" THEN decode_java_anonymous(in, pos)
  ELSE IF f = "BedrockLittleEndian" THEN decode_bedrock_le(in, pos)
  ELSE decode_bedrock_varint(in, pos)

-----------------------------------------------------------------------------
(* Skip: the same walk without the values.  Strings are not transcoded,    *)
(* and where elements have one size an array is stepped over at once.      *)

skip_number(f, in, pos, kind) ==
  IF IsVarInt(f, kind) THEN read_number(f, in, pos, kind)
  ELSE take(in, pos, 1, Size[kind])

\* A loop that has a number to step over in each round, or whatever `each` is.
skip_each(in, pos, n, each) ==
  Rounds([p \in Offsets(in) |->
            Then(each[p], LAMBDA x, q : Ok(<<"skipped">>, q))],
         n, pos)

skip_arrayBytes(f, in, pos, kind) ==
  Then(read_array_length(f, in, pos), LAMBDA n, p :
    IF IsVarInt(f, Elem[kind])
    THEN skip_each(in, p, n, [q \in Offsets(in) |->
                                skip_number(f, in, q, Elem[kind])])
    ELSE take(in, p, n, IF kind = "ByteArray" THEN 1 ELSE 4))
skip_array(f, in, pos, kind) ==
  Then(read_array_length(f, in, pos), LAMBDA n, p :
    IF IsVarInt(f, Elem[kind])
    THEN skip_each(in, p, n, [q \in Offsets(in) |->
                                skip_number(f, in, q, Elem[kind])])
    ELSE take(in, p, n, Size[Elem[kind]]))

skip_list(f, in, pos, inner) ==
  Then(read_tag_byte(in, pos), LAMBDA kind, p :
  Then(read_array_length(f, in, p), LAMBDA n, q :
    IF kind = "End" THEN Ok(<<>>, q) ELSE skip_each(in, q, n, inner[kind])))

skip_entry(f, in, pos, inner) ==
  Then(read_tag_byte(in, pos), LAMBDA kind, p :
    IF kind = "End" THEN Ok(<<>>, p)
    ELSE Then(skip_string(f, in, p), LAMBDA name, q :
         Then(inner[kind][q], LAMBDA x, r : Ok(<<"skipped">>, r))))

skip_compound(f, in, pos, inner) ==
  Rounds([p \in Offsets(in) |-> skip_entry(f, in, p, inner)],
         Len(in) + 1, pos)

skip_payload(f, in, pos, kind, left, inner) ==
  IF left = 0 THEN Err("LimitExceeded", pos)
  ELSE IF kind \in DOMAIN Size THEN skip_number(f, in, pos, kind)
  ELSE IF kind \in DOMAIN Elem THEN skip_array(f, in, pos, kind)
  ELSE IF kind = "String" THEN skip_string(f, in, pos)
  ELSE IF kind = "List" THEN skip_list(f, in, pos, inner)
  ELSE skip_compound(f, in, pos, inner)

skip_payloads(f, in, levels) ==
  LET at[left \in 0 .. levels] ==
        [kind \in Kinds |-> [p \in Offsets(in) |->
           skip_payload(f, in, p, kind, left, at[left - 1])]]
  IN  at[levels]

skip_named(f, in, pos) ==
  Then(read_tag_byte(in, pos), LAMBDA kind, p :
    IF kind = "End" THEN Ok(kind, p)
    ELSE Then(skip_string(f, in, p), LAMBDA name, q :
         Then(skip_payloads(f, in, kMaxDecodeDepth)[kind][q], LAMBDA x, r : Ok(kind, r))))

skip_java_named(in, pos) == skip_named("JavaNamedRoot", in, pos)

skip_java_anonymous(in, pos) ==
  Then(read_tag_byte(in, pos), LAMBDA kind, p :
    IF kind = "End" THEN Ok(kind, p)
    ELSE Then(skip_payloads("JavaAnonymousRoot", in, kMaxDecodeDepth)[kind][p],
              LAMBDA x, r : Ok(kind, r)))

skip_bedrock_le(in, pos) == skip_named("BedrockLittleEndian", in, pos)
skip_bedrock_varint(in, pos) == skip_named("BedrockVarInt", in, pos)

\* skip(bytes, format) where `bytes` is the buffer from pos on.
skip(f, in, pos) ==
  IF f = "JavaNamedRoot" THEN skip_java_named(in, pos)
  ELSE IF f = "JavaAnonymousRoot" THEN skip_java_anonymous(in, pos)
  ELSE IF f = "BedrockLittleEndian" THEN skip_bedrock_le(in, pos)
  ELSE skip_bedrock_varint(in, pos)

\* What decode and skip make of the same bytes: the same root, or the same
\* error.  But skip does not transcode, and where decode finds a Java string
\* that is no MUTF-8 it goes on, as far or farther.
Alike(f, d, s) ==
  IF d.ok THEN s.ok /\ s.pos = d.pos /\ s.v = d.v[2][1]
  ELSE \/ ~ s.ok /\ s.v = d.v
       \/ /\ f \in Java
          /\ d.v \in {"InvalidMutf8", "UnexpectedEndOfInput"}
          /\ d.pos <= s.pos

-----------------------------------------------------------------------------
(* Encode.  There is no limit on depth here.                               *)

Wrote(out) == [ok |-> TRUE, out |-> out]
Failed(out) == [ok |-> FALSE, out |-> out]

AndThen(w, rest) ==
  IF w.ok THEN [ok |-> rest.ok, out |-> w.out \o rest.out] ELSE w

\* A loop of writes, up to the first that fails.
InOrder(writes) ==
  LET from[i \in 1 .. Len(writes) + 1] ==
        IF i > Len(writes) THEN Wrote(<<>>) ELSE AndThen(writes[i], from[i + 1])
  IN  from[1]

\* x modulo 256^n, most significant byte first; a Long is sign-extended.
Scale == <<1, 256, 65536, 16777216>>

big_endian_bytes(x, n) ==
  [i \in 1 .. n |->
     IF n - i >= 4 THEN (IF x < 0 THEN 255 ELSE 0)
     ELSE (x \div Scale[n - i + 1]) % 256]

write_number(f, x, kind) ==
  IF IsVarInt(f, kind) THEN write_zigzag(x)
  ELSE big_endian(f, big_endian_bytes(x, Size[kind]))

kMaxString == 65535

\* The transcoder's length counts, not the UTF-8 one.
write_string(f, s) ==
  IF f = "BedrockVarInt" THEN Wrote(write_uvarint(Len(s)) \o s)
  ELSE LET m == IF f \in Bedrock \/ is_pure_ascii(s) THEN Ok(s, Len(s))
                ELSE utf8_to_mutf8(s)
       IN  IF ~ m.ok \/ Len(m.v) > kMaxString THEN Failed(<<>>)
           ELSE Wrote(big_endian(f, big_endian_bytes(Len(m.v), 2)) \o m.v)

\* Numbers by width; 64-bit ones, and the bits of a double, only as far as they
\* fit in 32.
INT8_MAX == 127
INT16_MAX == 32767
INT32_MAX == 2147483647

Int8 == -INT8_MAX - 1 .. INT8_MAX
Int16 == -INT16_MAX - 1 .. INT16_MAX
Int32 == -INT32_MAX - 1 .. INT32_MAX

\* Longer strings are not modelled.
ByteStrings == {s \in Seq(Byte) : Len(s) <= INT32_MAX}

\* The Values whose lists and compounds nest at most so many levels deep.  A
\* list of another kind than its first element's is only refused by encode.
Leaves ==
  ({"Byte"} \X Int8) \cup ({"Short"} \X Int16)
    \cup ({"Int", "Long", "Float", "Double"} \X Int32)
    \cup ({"ByteArray"} \X Seq(Int8)) \cup ({"IntArray", "LongArray"} \X Seq(Int32))
    \cup ({"String"} \X ByteStrings) \cup {EndTag}

Values(levels) ==
  LET at[d \in 0 .. levels] ==
        IF d = 0 THEN Leaves
        ELSE Leaves \cup ({"List"} \X Seq(at[d - 1]))
                    \cup ({"Compound"} \X Seq(ByteStrings \X at[d - 1]))
  IN  at[levels]

\* The Values right inside v.
Children(v) ==
  IF v[1] = "List" THEN v[2]
  ELSE IF v[1] = "Compound" THEN [i \in DOMAIN v[2] |-> v[2][i][2]] ELSE <<>>

\* The Values nested in v, by how deep they are; those at depth 0 are v itself.
Nested(v) ==
  LET at[d \in Nat] ==
        IF d = 0 THEN {v}
        ELSE UNION {{Children(x)[i] : i \in DOMAIN Children(x)} : x \in at[d - 1]}
  IN  at

\* Below, `inner` has what is written for the Values one level down.

write_elementUnchecked(x, arm, inner) == inner[x]
\* A list holds one kind only; that is found out element by element.
write_element(x, arm, inner) == IF x[1] # arm THEN Failed(<<>>) ELSE inner[x]

write_array_length(f, n) ==
  IF n > INT32_MAX THEN Failed(<<>>) ELSE Wrote(write_number(f, n, "Int"))

write_list(f, xs, inner) ==
  LET arm == IF xs = <<>> THEN "End" ELSE xs[1][1] IN
  AndThen(Wrote(<<tag_byte(arm)>>),
  AndThen(write_array_length(f, Len(xs)),
          InOrder([i \in DOMAIN xs |-> write_element(xs[i], arm, inner)])))

write_child(f, name, x, inner) ==
  AndThen(Wrote(<<tag_byte(x[1])>>), AndThen(write_string(f, name), inner[x]))

write_compound(f, cs, inner) ==
  AndThen(InOrder([i \in DOMAIN cs |-> write_child(f, cs[i][1], cs[i][2], inner)]),
          Wrote(<<0>>))

write_array(f, xs, kind) ==
  AndThen(write_array_length(f, Len(xs)),
          InOrder([i \in DOMAIN xs |-> Wrote(write_number(f, xs[i], kind))]))

write_payload(f, v, inner) ==
  IF v[1] = "End" THEN Wrote(<<>>)
  ELSE IF v[1] \in DOMAIN Size THEN Wrote(write_number(f, v[2], v[1]))
  ELSE IF v[1] \in DOMAIN Elem THEN write_array(f, v[2], Elem[v[1]])
  ELSE IF v[1] = "String" THEN write_string(f, v[2])
  ELSE IF v[1] = "List" THEN write_list(f, v[2], inner)
  ELSE write_compound(f, v[2], inner)

\* What is written for v: at[d] has what is written for its parts at depth d.
write_value(f, v) ==
  LET at[d \in Nat] == [x \in Nested(v)[d] |-> write_payload(f, x, at[d + 1])]
  IN  at[0][v]

encode_named(f, nv) ==
  IF nv[2] = EndTag THEN Wrote(<<0>>)
  ELSE AndThen(Wrote(<<tag_byte(nv[2][1])>>),
       AndThen(write_string(f, nv[1]), write_value(f, nv[2])))

encode_java_named(nv) == encode_named("JavaNamedRoot", nv)

encode_java_anonymous(v) ==
  IF v = EndTag THEN Wrote(<<0>>)
  ELSE AndThen(Wrote(<<tag_byte(v[1])>>),
               write_value("JavaAnonymousRoot", v))

encode_bedrock_le(nv) == encode_named("BedrockLittleEndian", nv)
encode_bedrock_varint(nv) == encode_named("BedrockVarInt", nv)

\* Encoder::write appends `out` to the sink whether or not it succeeds;
\* encode() hands out a buffer of its own, or none.
encode(f, nv) ==
  IF f = "JavaNamedRoot" THEN encode_java_named(nv)
  ELSE IF f = "JavaAnonymousRoot" THEN encode_java_anonymous(nv[2])
  ELSE IF f = "BedrockLittleEndian" THEN encode_bedrock_le(nv)
  ELSE encode_bedrock_varint(nv)

\* encode_anonymous and Encoder::write_anonymous: a dialect with names gets an
\* empty one.
encode_anonymous(f, v) ==
  IF f = "JavaAnonymousRoot" THEN encode_java_anonymous(v)
  ELSE encode(f, << <<>>, v>>)

\* decode_anonymous: the root's value without its name.
decode_anonymous(f, in, pos) ==
  Then(decode(f, in, pos), LAMBDA nv, p : Ok(nv[2], p))

=============================================================================
