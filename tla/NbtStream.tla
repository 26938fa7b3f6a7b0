------------------------------ MODULE NbtStream ------------------------------
(***************************************************************************)
(* The streaming interface: an Encoder appends roots to the caller's sink, *)
(* the bytes travel, and a Decoder (or skip) takes roots off a Cursor over *)
(* what arrived.  On the way the bytes may be cut short, as a partial read *)
(* of a file or a packet is, or have one byte changed.  Sink and cursor    *)
(* are not used at once: appending may reallocate the vector under it.     *)
(***************************************************************************)
EXTENDS NbtCodec

CONSTANTS
  Roots,        \* the NamedValues callers write
  MaxRoots,     \* bound: calls of write
  MaxNesting,   \* bound: how deep the Values of Roots nest
  Damage        \* the bytes a changed byte may become

ASSUME RootsAssumption ==
  MaxNesting \in Nat /\ Roots \subseteq ByteStrings \X Values(MaxNesting)

\* What most callers keep to: no Value has an End tag inside.  Neither decode
\* nor the parser makes one that has, and encode writes for them what no
\* decoder reads; a program that builds its Values itself may still do so.
ProperRoots ==
  \A nv \in Roots : \A d \in 1 .. MaxNesting : EndTag \notin Nested(nv[2])[d]

ASSUME DamageAssumption == Damage \subseteq Byte

VARIABLES
  format,       \* the dialect of both ends
  sink,         \* the bytes: first the sink, then what arrived of it
  sent,         \* the roots write accepted: the root, where it ends in sink
  torn,         \* a write has failed
  damaged,      \* a byte has been changed
  pos,          \* the reader's cursor
  got,          \* what each read returned
  phase         \* writing, reading, or the error that ended reading

vars == <<format, sink, sent, torn, damaged, pos, got, phase>>

Skipped == <<"skipped">>

Init ==
  /\ format \in Formats
  /\ sink = <<>> /\ sent = <<>> /\ got = <<>>
  /\ torn = FALSE /\ damaged = FALSE
  /\ pos = 0
  /\ phase = "writing"

\* Encoder::write.  The callers modelled stop at the first write that fails.
Write(nv) ==
  /\ phase = "writing"
  /\ Len(sent) < MaxRoots /\ ~ torn
  /\ \E w \in {encode(format, nv)} :
       /\ sink' = sink \o w.out
       /\ sent' = IF w.ok THEN Append(sent, <<StoredAs(format, nv), Len(sink')>>)
                  ELSE sent
       /\ torn' = ~ w.ok
  /\ UNCHANGED <<format, damaged, pos, got, phase>>

\* The first n bytes arrive.
Arrive(n) ==
  /\ phase = "writing"
  /\ phase' = "reading"
  /\ sink' = SubSeq(sink, 1, n)
  /\ UNCHANGED <<format, sent, torn, damaged, pos, got>>

\* All bytes of a single root arrive, one of them changed.
ArriveDamaged(i, b) ==
  /\ phase = "writing" /\ Len(sent) = 1
  /\ sink[i] # b
  /\ phase' = "reading" /\ damaged' = TRUE
  /\ sink' = [sink EXCEPT ![i] = b]
  /\ UNCHANGED <<format, sent, torn, pos, got>>

Read(r, result) ==
  /\ pos' = r.pos
  /\ IF r.ok THEN got' = Append(got, result) /\ UNCHANGED phase
     ELSE phase' = r.v /\ UNCHANGED got
  /\ UNCHANGED <<format, sink, sent, torn, damaged>>

\* Decoder::decode, and skip on the rest of the buffer.
DecodeRoot ==
  /\ phase = "reading" /\ pos < Len(sink)
  /\ \E r \in {decode(format, sink, pos)} : Read(r, r.v)

SkipRoot ==
  /\ phase = "reading" /\ pos < Len(sink)
  /\ \E r \in {skip(format, sink, pos)} : Read(r, Skipped)

Next ==
  \/ \E nv \in Roots : Write(nv)
  \/ \E n \in 0 .. Len(sink) : Arrive(n)
  \/ \E i \in DOMAIN sink, b \in Damage : ArriveDamaged(i, b)
  \/ DecodeRoot
  \/ SkipRoot

Spec == Init /\ [][Next]_vars

-----------------------------------------------------------------------------
(* Properties.                                                             *)

TypeOK ==
  /\ format \in Formats
  /\ \A i \in DOMAIN sink : sink[i] \in Byte
  /\ pos \in 0 .. Len(sink)
  /\ phase \in {"writing", "reading"} \cup ErrorCodes

Reading == phase # "writing" /\ ~ damaged

\* Where the k-th accepted root ends.
End(k) == IF k = 0 THEN 0 ELSE sent[k][2]

\* How many accepted roots have arrived whole.
Whole == Cardinality({k \in DOMAIN sent : End(k) <= Len(sink)})

TooDeep(k) == Nested(sent[k][1][2])[kMaxDecodeDepth] # {}

\* The roots that write accepted come back in order and unchanged, and each
\* read, decode or skip, leaves the cursor exactly where the next root
\* begins; a later write that fails does not disturb them.
RootsReadBack ==
  Reading => \A k \in DOMAIN got : k <= Len(sent) =>
    /\ got[k] \in {sent[k][1], Skipped}
    /\ pos >= End(k)
    /\ k = Len(got) /\ phase = "reading" => pos = End(k)

\* A root cut short is never taken for a shorter one: a reader gets every
\* root that arrived whole, and only then an error, which is end of input.
\* Only a root nested deeper than the decoder's limit, which the encoder
\* writes all the same, is refused with LimitExceeded.
CutIsSeen ==
  Reading /\ ~ torn =>
    /\ Len(got) <= Whole
    /\ phase \in ErrorCodes =>
         IF Len(got) < Whole
         THEN phase = "LimitExceeded" /\ TooDeep(Len(got) + 1)
         ELSE \/ phase = "UnexpectedEndOfInput"
              \/ phase = "LimitExceeded" /\ TooDeep(Len(got) + 1)

\* skip and decode take the same bytes for a root, whatever the bytes are,
\* and fail alike, but for the strings that skip does not look into.
SkipAgrees ==
  phase = "reading" /\ pos < Len(sink) =>
    Alike(format, decode(format, sink, pos), skip(format, sink, pos))

\* Whatever decode accepts, encode writes, in no more bytes than were read,
\* and what it writes decodes to the same root.
Reencodes ==
  phase = "reading" /\ pos < Len(sink) =>
    \A d \in {decode(format, sink, pos)} : d.ok =>
      \A w \in {encode(format, d.v)} :
        /\ w.ok
        /\ decode(format, w.out, 0) = Ok(d.v, Len(w.out))
        /\ Len(w.out) <= d.pos - pos

-----------------------------------------------------------------------------
(* What a doc or a comment says and the code does not do: not invariants.  *)

\* "Appends successive NamedValue / Value roots" (encode.hpp:29): until the
\* bytes leave the writer, the sink ends where the last accepted root does.
SinkHoldsRoots == phase = "writing" => Len(sink) = End(Len(sent))

\* "byte-exact round-trip" (README.md:3): an accepted root that is not nested
\* too deep is what its bytes decode to.
RoundTrips ==
  phase = "writing" =>
    \A k \in DOMAIN sent :
      TooDeep(k) \/ decode(format, sink, End(k - 1)) = Ok(sent[k][1], End(k))

=============================================================================
