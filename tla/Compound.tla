------------------------------ MODULE Compound ------------------------------
(***************************************************************************)
(* A Compound, which is a std::vector of <<name, value>> that callers also *)
(* fill and iterate directly, with the functions of value.cpp over it:     *)
(* find, upsert and the typed accessors.  find and upsert hand out a       *)
(* pointer into the vector, which callers keep, read and assign through    *)
(* while they go on calling.                                               *)
(*                                                                         *)
(* UpsertAppends and UpsertMoves are slips, not used.                      *)
(***************************************************************************)
EXTENDS Naturals, Sequences

CONSTANTS
  Names, Values, Kinds,
  KindOf(_),    \* Value::kind
  Compounds,    \* the vectors decode or a caller has filled
  Holders,      \* the pointers that callers keep
  MaxEntries    \* bound: upsert adds no key to a vector this long

ASSUME CompoundAssumption ==
  \A d \in Compounds :
    Len(d) \in Nat /\ d \in [1 .. Len(d) -> Names \X Values]

VARIABLES
  c,            \* the entries
  room,         \* capacity(): how many entries fit without a move
  held,         \* per pointer: {<<name it was asked for, position>>}, or {}
                \* when it is null or into a buffer the vector has left
  answer        \* what the last call or read gave

vars == <<c, room, held, answer>>

-----------------------------------------------------------------------------

\* Not a Value: an ErrorCode, or the null pointer.
No(code) == <<code, 0>>

Positions(n) == {i \in DOMAIN c : c[i][1] = n}

Has(n) == Positions(n) # {}

\* The entry that find and upsert stop at.
First(n) == CHOOSE i \in Positions(n) : \A j \in Positions(n) : i <= j

\* typed_get_value and typed_get_pointer: get_byte ... get_list.
typed_get(n, kind) ==
  IF ~ Has(n) THEN No("UnknownTagId")
  ELSE IF KindOf(c[First(n)][2]) = kind THEN c[First(n)][2]
  ELSE No("UnexpectedRootType")

Init ==
  /\ c \in Compounds
  /\ room \in Len(c) .. Len(c) + 1
  /\ held = [h \in Holders |-> {}]
  /\ answer = No("nullptr")

Find(h, n) ==
  /\ held' = [held EXCEPT ![h] = IF Has(n) THEN {<<n, First(n)>>} ELSE {}]
  /\ answer' = IF Has(n) THEN c[First(n)][2] ELSE No("nullptr")
  /\ UNCHANGED <<c, room>>

Get(n, kind) ==
  /\ answer' = typed_get(n, kind)
  /\ UNCHANGED <<c, room, held>>

\* upsert of a key that is there.
UpsertAppends(h, n, v) ==
  /\ Has(n) /\ Len(c) < room
  /\ c' = Append(c, <<n, v>>)
  /\ held' = [held EXCEPT ![h] = {<<n, Len(c) + 1>>}]
  /\ answer' = v
  /\ UNCHANGED room
UpsertMoves(h, n, v) ==
  /\ Has(n)
  /\ c' = Append(SubSeq(c, 1, First(n) - 1) \o SubSeq(c, First(n) + 1, Len(c)),
                 <<n, v>>)
  /\ held' = [held EXCEPT ![h] = {<<n, Len(c)>>}]
  /\ answer' = v
  /\ UNCHANGED room
UpsertReplace(h, n, v) ==
  /\ Has(n)
  /\ c' = [c EXCEPT ![First(n)] = <<n, v>>]
  /\ held' = [held EXCEPT ![h] = {<<n, First(n)>>}]
  /\ answer' = v
  /\ UNCHANGED room

\* emplace_back: the entries of a full vector move to a larger buffer.
emplace_back(entry) ==
  /\ c' = Append(c, entry)
  /\ room' \in IF Len(c) < room THEN {room} ELSE Len(c) + 1 .. 2 * Len(c) + 1

\* The pointers after that.
Kept == IF Len(c) < room THEN held ELSE [h \in Holders |-> {}]

\* upsert of a key that is not: the pointer is to c.back().
UpsertAdd(h, n, v) ==
  /\ ~ Has(n) /\ Len(c) < MaxEntries
  /\ emplace_back(<<n, v>>)
  /\ held' = [Kept EXCEPT ![h] = {<<n, Len(c) + 1>>}]
  /\ answer' = v

\* Callers use a pointer only while the vector has not moved.
Read(h) ==
  /\ \E p \in held[h] : answer' = c[p[2]][2]
  /\ UNCHANGED <<c, room, held>>

Assign(h, v) ==
  /\ \E p \in held[h] : c' = [c EXCEPT ![p[2]] = <<@[1], v>>]
  /\ answer' = v
  /\ UNCHANGED <<room, held>>

Next ==
  \/ \E h \in Holders, n \in Names : Find(h, n)
  \/ \E n \in Names, kind \in Kinds : Get(n, kind)
  \/ \E h \in Holders, n \in Names, v \in Values : UpsertReplace(h, n, v)
  \/ \E h \in Holders, n \in Names, v \in Values : UpsertAdd(h, n, v)
  \/ \E h \in Holders : Read(h)
  \/ \E h \in Holders, v \in Values : Assign(h, v)

Spec == Init /\ [][Next]_vars

-----------------------------------------------------------------------------
(* Properties.                                                             *)

Answers == Values \cup {No(e) : e \in {"nullptr", "UnknownTagId",
                                     "UnexpectedRootType"}}

TypeOK ==
  /\ c \in Seq(Names \X Values)
  /\ room \in Nat /\ Len(c) <= room
  /\ held \in [Holders -> SUBSET (Names \X DOMAIN c)]
  /\ answer \in Answers

\* A pointer that has not been invalidated is to the entry that a new find of
\* its name would stop at, whatever was replaced, added or assigned since.
PointersStay ==
  \A h \in Holders : \A p \in held[h] :
    p[2] \in Positions(p[1]) /\ p[2] = First(p[1])

\* Names are never lost, renamed or reordered: the names of the entries only
\* grow at the end ("upsert preserves insertion order, which is what makes
\* round-trip byte-exact", README.md:92).
OrderKept ==
  [][/\ Len(c) <= Len(c')
     /\ \A e \in DOMAIN c : c'[e][1] = c[e][1]]_vars

\* The Compound is an ordered map, repeated keys or not.
Keys == {c[i][1] : i \in DOMAIN c}

Map == INSTANCE CompoundSpec WITH
  value  <- [n \in Keys |-> c[First(n)][2]],
  before <- {p \in Keys \X Keys : First(p[1]) < First(p[2])},
  refs   <- [h \in Holders |-> {p[1] : p \in held[h]}]

ImplementsMap == Map!Spec

=============================================================================
