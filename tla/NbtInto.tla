------------------------------ MODULE NbtInto ------------------------------
(***************************************************************************)
(* encode_into and encode_anonymous_into: a caller patches one span again  *)
(* and again, and reads back what it holds.  A document is encoded into a  *)
(* buffer of the call's own and copied when it is whole and fits, so a     *)
(* call that is refused, half-way through the document or for its size,    *)
(* leaves the document before it in place.                                 *)
(*                                                                         *)
(* A definition whose name extends that of the next one is that one with a *)
(* slip in it, and is not used.                                            *)
(***************************************************************************)
EXTENDS NbtCodec

CONSTANTS
  Patches,      \* the NamedValues callers write
  Sizes,        \* the sizes of the spans they write to
  Fill          \* the byte a span holds at first

ASSUME IntoAssumption ==
  /\ Patches \subseteq ByteStrings \X Values(kMaxDecodeDepth)
  /\ Sizes \subseteq Nat /\ Fill \in Byte

\* What a patch is read back for: no Value has an End tag inside (see
\* ProperRoots in NbtStream) or nests deeper than decode goes.
ProperPatches ==
  \A nv \in Patches :
    /\ \A d \in 1 .. kMaxDecodeDepth : EndTag \notin Nested(nv[2])[d]
    /\ Nested(nv[2])[kMaxDecodeDepth] = {}

VARIABLES
  dialect,      \* the format
  span,         \* the caller's bytes
  held,         \* the root of the last call accepted, if there is one
  answer        \* what that call returned

intoVars == <<dialect, span, held, answer>>

Nothing == <<>>

IntoInit ==
  /\ dialect \in Formats
  /\ \E n \in Sizes : span = [i \in 1 .. n |-> Fill]
  /\ held = Nothing /\ answer = 0

\* memcpy(out.data(), buf.data(), buf.size())
copied(buf) == [i \in DOMAIN span |-> IF i <= Len(buf) THEN buf[i] ELSE span[i]]

FitsTorn(w) == Len(w.out) <= Len(span)
Fits(w) == w.ok /\ Len(w.out) <= Len(span)

Put(w, root) ==
  /\ Fits(w)
  /\ span' = copied(w.out)
  /\ answer' = Len(w.out)
  /\ held' = root
  /\ UNCHANGED dialect

encode_into(nv) == \E w \in {encode(dialect, nv)} : Put(w, StoredAs(dialect, nv))

encode_anonymous_into(v) ==
  \E w \in {encode_anonymous(dialect, v)} :
    Put(w, StoredAs(dialect, << <<>>, v >>))

IntoNext ==
  \/ \E nv \in Patches : encode_into(nv)
  \/ \E nv \in Patches : encode_anonymous_into(nv[2])

IntoSpec == IntoInit /\ [][IntoNext]_intoVars

-----------------------------------------------------------------------------
(* Properties.                                                             *)

IntoTypeOK ==
  /\ dialect \in Formats
  /\ \A i \in DOMAIN span : span[i] \in Byte
  /\ Len(span) \in Sizes
  /\ answer \in 0 .. Len(span)

\* The span begins with the last document accepted, whole: a longer one that
\* stood there before it cannot be read through, and one refused since (mixed
\* list, unpaired text, too long) has left no byte of itself behind.
HoldsLast ==
  held # Nothing => \A d \in {decode(dialect, span, 0)} :
    d.ok /\ d.v = held /\ d.pos = answer

=============================================================================
