------------------------------- MODULE NbtView -------------------------------
(***************************************************************************)
(* The zero-copy View of one root: View, CompoundView with its iterator,   *)
(* and ListView (view.cpp and the walkers of view_<dialect>.cpp).  A view  *)
(* is a tag and the offset of a payload in the buffer; nothing is decoded  *)
(* until materialise().  The state is a loop `for (entry : compound)` over *)
(* the root, in a buffer that encode wrote and that may then have been     *)
(* damaged in one byte.                                                    *)
(***************************************************************************)
EXTENDS NbtCodec

CONSTANTS
  Docs,         \* the <<format, NamedValue>> buffers are made of
  Keys,         \* the keys callers look up
  Damage        \* the bytes a changed byte may become

VARIABLES
  format,       \* format_
  bytes,        \* bytes_
  it,           \* the CompoundIterator
  seen,         \* the entries the loop has visited, children materialised
  began         \* begin() has been called

bufferVars == <<format, bytes, it, seen, began>>

\* EncodesBytes (CodecProofs) gives the first for every value there is.
ASSUME BuffersAreBytes ==
  /\ \A d \in Docs : d[1] \in Formats /\ encode(d[1], d[2]).out \in Seq(Byte)
  /\ Damage \subseteq Byte

\* The depth limit lets a root be decoded.
ASSUME DecodesSome == kMaxDecodeDepth # 0

-----------------------------------------------------------------------------
(* Walkers.  The walk over a payload is skip's, without its depth limit:   *)
(* each level takes a byte, so the buffer ends before a count this high.   *)

java_payload_size(in, off, kind) ==
  skip_payloads("JavaNamedRoot", in, Len(in) + 1)[kind][off]
bedrock_le_payload_size(in, off, kind) ==
  skip_payloads("BedrockLittleEndian", in, Len(in) + 1)[kind][off]
bedrock_varint_payload_size(in, off, kind) ==
  skip_payloads("BedrockVarInt", in, Len(in) + 1)[kind][off]

\* The cursor after the payload at off.
view_payload_size(f, in, off, kind) ==
  IF f \in Java THEN java_payload_size(in, off, kind)
  ELSE IF f = "BedrockLittleEndian" THEN bedrock_le_payload_size(in, off, kind)
  ELSE bedrock_varint_payload_size(in, off, kind)

\* The entry at off: its tag, its name as written, where its payload begins.
view_read_child(f, in, off) ==
  Then(read_tag_byte(in, off), LAMBDA kind, p :
    IF kind = "End" THEN Ok([tag |-> kind, name |-> <<>>, payload |-> p], p)
    ELSE Then(skip_string(f, in, p), LAMBDA name, q :
         Then(view_payload_size(f, in, q, kind), LAMBDA x, r :
           Ok([tag |-> kind, name |-> name, payload |-> q], r))))

-----------------------------------------------------------------------------
(* View.  Only its tag and payload offset matter below.                    *)

make_view_root(f, in) ==
  Then(read_tag_byte(in, 0), LAMBDA kind, p :
    IF kind = "End" \/ f = "JavaAnonymousRoot"
    THEN Ok([tag |-> kind, payload |-> p], p)
    ELSE Then(read_string(f, in, p), LAMBDA name, q :
           Ok([tag |-> kind, payload |-> q], q)))

\* A tag byte, an empty name in the Bedrock dialects, the rest of the buffer.
materialise(f, in, v) ==
  LET rest == SubSeq(in, v.payload + 1, Len(in))
      head == IF f \in Java THEN <<>>
              ELSE IF f = "BedrockLittleEndian" THEN <<0, 0>> ELSE <<0>>
      wire == <<tag_byte(v.tag)>> \o head \o rest
  IN  IF v.tag = "End" THEN Ok(EndTag, 1)
      ELSE Then(decode(IF f \in Java THEN "JavaAnonymousRoot" ELSE f, wire, 0),
                LAMBDA nv, p : Ok(nv[2], p))

as_numberFixed(f, in, v, kind) ==
  IF v.tag # kind THEN Err("UnexpectedRootType", v.payload)
  ELSE Then(take(in, v.payload, 1, Size[kind]), LAMBDA b, p :
         Ok(signed(big_endian(f, b)), p))
\* as_byte, as_short, as_int, as_long, as_float and as_double.
as_number(f, in, v, kind) ==
  IF v.tag # kind THEN Err("UnexpectedRootType", v.payload)
  ELSE read_number(f, in, v.payload, kind)

\* as_string borrows ASCII from the buffer, and nothing else.
as_string(f, in, v) ==
  IF v.tag # "String" THEN Err("UnexpectedRootType", v.payload)
  ELSE Then(skip_string(f, in, v.payload), LAMBDA s, p :
         IF is_pure_ascii(s) THEN Ok(s, p)
         ELSE Err("ViewRequiresMaterialise", p - Len(s)))

\* ListView: the arm, the size, where the first element begins.
as_list(f, in, v) ==
  IF v.tag # "List" THEN Err("UnexpectedRootType", v.payload)
  ELSE Then(read_tag_byte(in, v.payload), LAMBDA arm, p :
       Then(read_array_length(f, in, p), LAMBDA n, q :
         Ok([arm |-> arm, size |-> IF arm = "End" THEN 0 ELSE n], q)))

\* Where element i of a list begins.
element_offsetFixed(f, in, off, arm, i) ==
  IF i = 0 THEN Ok(arm, off)
  ELSE Then(view_payload_size(f, in, off, arm), LAMBDA x, p :
         Ok(arm, off + i * (p - off)))
element_offset(f, in, off, arm, i) ==
  Then(skip_each(in, off, i,
                 [p \in Offsets(in) |-> view_payload_size(f, in, p, arm)]),
       LAMBDA xs, p : Ok(arm, p))

\* ListView::at, which steps over the i elements before.
list_at(f, in, list, i) ==
  IF i >= list.v.size THEN Err("LengthOverflow", list.pos)
  ELSE Then(element_offset(f, in, list.pos, list.v.arm, i), LAMBDA arm, p :
         Ok([tag |-> arm, payload |-> p], p))

-----------------------------------------------------------------------------
(* CompoundView.                                                           *)

\* The name of an entry: ASCII as it stands, all else taken for MUTF-8.
entry_name(name) ==
  IF is_pure_ascii(name) THEN Ok(name, Len(name)) ELSE mutf8_to_utf8(name)

Nothing == [tag |-> "none", payload |-> 0]

\* An entry is there, and its name can be read.
Readable(rec) == rec.ok /\ rec.v.tag # "End" /\ entry_name(rec.v.name).ok

Child(rec) == [tag |-> rec.v.tag, payload |-> rec.v.payload]

\* One round of find's loop; `rest` has what the later rounds find.
find_roundSuffix(f, in, off, key, rest) ==
  LET rec == view_read_child(f, in, off) IN
  IF ~ Readable(rec) THEN Nothing
  ELSE IF IsSuffix(entry_name(rec.v.name).v, key) THEN Child(rec)
  ELSE rest[rec.pos]
find_round(f, in, off, key, rest) ==
  LET rec == view_read_child(f, in, off) IN
  IF ~ Readable(rec) THEN Nothing
  ELSE IF entry_name(rec.v.name).v = key THEN Child(rec)
  ELSE rest[rec.pos]

\* CompoundView::find: the first entry of that name, unless an unreadable
\* entry comes before it.
find(f, in, off, key) ==
  LET from[p \in Offsets(in)] == find_round(f, in, p, key, from)
  IN  from[off]

Done == [done |-> TRUE, next |-> 0, name |-> <<>>, child |-> Nothing]

\* CompoundIterator::advance_to_next at off, and the loop's body on the entry
\* it finds.
advance_to_next(off) ==
  \E rec \in {view_read_child(format, bytes, off)} :
    IF Readable(rec)
    THEN LET name == entry_name(rec.v.name).v IN
         /\ it' = [done |-> FALSE, next |-> rec.pos, name |-> name,
                   child |-> Child(rec)]
         /\ seen' = Append(seen,
                           <<name, materialise(format, bytes, Child(rec))>>)
    ELSE it' = Done /\ UNCHANGED seen

Root == make_view_root(format, bytes)

BufferInit ==
  /\ \E d \in Docs :
       /\ format = d[1]
       /\ \E w \in {encode(d[1], d[2]).out} :
            \/ bytes = w
            \/ \E b \in Damage, i \in DOMAIN w : bytes = [w EXCEPT ![i] = b]
  /\ it = Done /\ seen = <<>> /\ began = FALSE

BeginIteration ==
  /\ ~ began
  /\ \E root \in {Root} :
       /\ root.ok /\ root.v.tag = "Compound"
       /\ advance_to_next(root.v.payload)
  /\ began' = TRUE
  /\ UNCHANGED <<format, bytes>>

IncrementStays ==
  /\ ~ it.done
  /\ advance_to_next(it.child.payload)
  /\ UNCHANGED <<format, bytes, began>>
Increment ==
  /\ ~ it.done
  /\ advance_to_next(it.next)
  /\ UNCHANGED <<format, bytes, began>>

BufferNext == BeginIteration \/ Increment

BufferSpec == BufferInit /\ [][BufferNext]_bufferVars

-----------------------------------------------------------------------------
(* Properties.                                                             *)

\* A child that is handed out lies inside the buffer, also where the nesting
\* limit or a bad string stops decode.
BufferTypeOK ==
  /\ format \in Formats
  /\ \A i \in DOMAIN bytes : bytes[i] \in Byte
  /\ it.done \in BOOLEAN
  /\ ~ it.done => it.child.payload <= it.next /\ it.next <= Len(bytes)

\* What decode makes of the same bytes (a set of one, to be bound once).
Decoded == {decode(format, bytes, 0)}

Is(d, kind) == d.ok /\ d.v[2][1] = kind

Elements(d) == d.v[2][2]

\* The names are ones that reading as MUTF-8 leaves alone: always so in Java,
\* where decode has transcoded them already.
NamesPlain(entries) ==
  format \in Bedrock =>
    \A k \in DOMAIN entries :
      LET name == entry_name(entries[k][1]) IN name.ok /\ name.v = entries[k][1]

\* When the root decodes, the loop visits the entries that decode would
\* return, in their order, each materialised to the value decode gives it,
\* and none is left out when it ends.
IterationAgrees ==
  began => \A d \in Decoded :
    Is(d, "Compound") /\ NamesPlain(Elements(d)) =>
      /\ Len(seen) <= Len(Elements(d))
      /\ \A k \in DOMAIN seen : /\ seen[k][1] = Elements(d)[k][1]
                                /\ seen[k][2].ok
                                /\ seen[k][2].v = Elements(d)[k][2]
      /\ it.done => Len(seen) = Len(Elements(d))

\* v is the first of these entries that has that name, or there is none.
FirstNamed(entries, key, v) ==
  LET hits == {k \in DOMAIN entries : entries[k][1] = key}
  IN  IF hits = {} THEN v = Nothing
      ELSE /\ v # Nothing
           /\ materialise(format, bytes, v).v = entries[Min(hits)][2]

\* find gives the first entry of that name that decode returns, and nothing
\* when there is none.
FindAgrees ==
  ~ began => \A d \in Decoded, root \in {Root} :
    Is(d, "Compound") /\ NamesPlain(Elements(d)) =>
      \A key \in Keys : \A v \in {find(format, bytes, root.v.payload, key)} :
        FirstNamed(Elements(d), key, v)

\* size() and at(i) of a list agree with the list that decode returns.
ListAgrees ==
  ~ began => \A d \in Decoded, root \in {Root} :
    Is(d, "List") =>
      \A list \in {as_list(format, bytes, root.v)} :
        /\ list.ok /\ list.v.size = Len(Elements(d))
        /\ \A i \in DOMAIN Elements(d) :
             \A v \in {list_at(format, bytes, list, i - 1)} :
               v.ok /\ materialise(format, bytes, v.v).v = Elements(d)[i]

\* The views at hand: the root's and the loop's.
Views == (IF Root.ok THEN {Root.v} ELSE {})
           \cup (IF it.done THEN {} ELSE {it.child})

\* The accessor of a scalar and of a string gives what materialise() would:
\* each refuses a view of another tag, the number accessors succeed exactly
\* where materialise() does, and as_string where that gives an ASCII string.
ScalarsAgree ==
  \A v \in Views : \A x \in {materialise(format, bytes, v)} :
    /\ \A kind \in DOMAIN Size :
         \A n \in {as_number(format, bytes, v, kind)} :
           /\ n.ok <=> v.tag = kind /\ x.ok
           /\ n.ok => x.v = <<kind, n.v>>
    /\ \A s \in {as_string(format, bytes, v)} :
         /\ s.ok <=> v.tag = "String" /\ x.ok /\ is_pure_ascii(x.v[2])
         /\ s.ok => x.v = <<"String", s.v>>

\* A View over any buffer, whole or damaged, shows what decode would return:
\* its iteration the children in order, find and contains the entry, at the
\* element, the scalar accessors the value.  Every child lies in the buffer.
ShowsWhatDecodeReads ==
  /\ BufferTypeOK
  /\ IterationAgrees
  /\ FindAgrees
  /\ ListAgrees
  /\ ScalarsAgree

\* The loop ends, whatever the bytes are: each round moves the iterator on, and
\* BufferTypeOK keeps it inside the buffer.
IterationAdvances == [][Increment => it'.done \/ it'.next > it.next]_bufferVars

-----------------------------------------------------------------------------
(* What a doc or a comment says and the code does not do: not invariants.  *)

\* "Bedrock names are plain UTF-8" (view.cpp:142): the entries of a compound
\* that decodes are all visited.
EveryEntryVisited ==
  began /\ it.done => \A d \in Decoded :
    Is(d, "Compound") => Len(seen) = Len(Elements(d))

\* "Returns a `string_view` borrowed from the source buffer for ASCII and
\* (Bedrock) UTF-8 payloads" (view.hpp:45-46).
BedrockStringsBorrowed ==
  \A v \in Views :
    format \in Bedrock /\ v.tag = "String"
      /\ skip_string(format, bytes, v.payload).ok =>
    as_string(format, bytes, v).ok

=============================================================================
