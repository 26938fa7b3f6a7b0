---------------------------- MODULE ValueProofs -----------------------------
(***************************************************************************)
(* Compound, for every set of names, values and callers' pointers, and     *)
(* every vector to start from, repeated names included: pointers stay on   *)
(* their entries, names keep their order, and Compound implements the      *)
(* ordered map of CompoundSpec.  All of it rests on one fact, that the     *)
(* first entry of a name is well defined (FirstIsLeast) and that no call   *)
(* changes which entry it is (SameNames for calls that keep the names,     *)
(* OneMore for the one that adds a name).                                  *)
(*                                                                         *)
(* Path, for every text and every tree: the parser and the walk stay where *)
(* they may be, and get_at finds the one node that the segments lead to.   *)
(* A segment is that of at most one child of a value (KeyNames,            *)
(* IndexNames), so whatever node the segments lead to, it is the one on    *)
(* the way that was walked (OneWay).                                       *)
(***************************************************************************)
EXTENDS Compound, Path, SequenceTheorems, WellFoundedInduction, TLAPS

Entries == Names \X Values

LEMMA LeastPosition ==
  ASSUME NEW T, T \subseteq Nat, T # {}
  PROVE  \E m \in T : \A k \in T : m <= k
<1> DEFINE R == OpToRel(<, Nat)
<1>1. IsWellFoundedOn(R, Nat)
  BY NatLessThanWellFounded
<1>2. PICK m \in T : \A k \in T : ~ (<<k, m>> \in R)
  <2> HIDE DEF R
  <2> QED
    BY <1>1, WFMin
<1>3. \A k \in T : ~ (k < m)
  BY <1>2 DEF OpToRel
<1> QED
  BY <1>3

\* Where a name occurs at all, First is its least position.
LEMMA FirstIsLeast ==
  ASSUME c \in Seq(Entries), NEW w, Has(w)
  PROVE  /\ First(w) \in DOMAIN c /\ c[First(w)][1] = w
         /\ \A j \in Positions(w) : First(w) <= j
<1>1. Positions(w) \subseteq Nat /\ Positions(w) # {}
  BY DEF Positions, Has
<1>2. PICK e \in Positions(w) : \A j \in Positions(w) : e <= j
  BY <1>1, LeastPosition
<1>3. /\ First(w) \in Positions(w)
      /\ \A j \in Positions(w) : First(w) <= j
  BY <1>2 DEF First
<1> QED
  BY <1>3 DEF Positions

\* Nothing but the names of the entries decides which entry is first.
LEMMA SameNames ==
  ASSUME c \in Seq(Entries), c' \in Seq(Entries), Len(c') = Len(c),
         \A e \in DOMAIN c : c'[e][1] = c[e][1]
  PROVE  /\ Keys' = Keys
         /\ \A w : /\ Positions(w)' = Positions(w)
                   /\ First(w)' = First(w)
                   /\ Has(w)' <=> Has(w)
<1>1. DOMAIN c' = DOMAIN c
  OBVIOUS
<1>2. Keys' = Keys
  BY <1>1 DEF Keys
<1>3. ASSUME NEW w PROVE Positions(w)' = Positions(w)
  BY <1>1 DEF Positions
<1> QED
  BY <1>2, <1>3 DEF First, Has

\* A new name at the end is its own first entry and no one else's.
LEMMA OneMore ==
  ASSUME c \in Seq(Entries), NEW w \in Names, NEW v \in Values, ~ Has(w),
         c' = Append(c, <<w, v>>)
  PROVE  /\ c' \in Seq(Entries) /\ Len(c') = Len(c) + 1
         /\ c'[Len(c) + 1] = <<w, v>>
         /\ \A e \in DOMAIN c : c'[e] = c[e]
         /\ Keys' = Keys \cup {w} /\ w \notin Keys
         /\ Positions(w)' = {Len(c) + 1} /\ First(w)' = Len(c) + 1
         /\ \A m : m # w => /\ Positions(m)' = Positions(m)
                            /\ First(m)' = First(m)
<1>1. /\ c' \in Seq(Entries) /\ Len(c') = Len(c) + 1
      /\ c'[Len(c) + 1] = <<w, v>>
      /\ \A e \in DOMAIN c : c'[e] = c[e]
  BY DEF Entries
<1>2. DOMAIN c' = DOMAIN c \cup {Len(c) + 1} /\ Len(c) + 1 \notin DOMAIN c
  BY <1>1
<1>3. \A e \in DOMAIN c : c[e][1] # w
  BY DEF Has, Positions
<1>4. Keys' = Keys \cup {w} /\ w \notin Keys
  BY <1>1, <1>2, <1>3 DEF Keys
<1>5. Positions(w)' = {Len(c) + 1}
  BY <1>1, <1>2, <1>3 DEF Positions
<1>6. First(w)' = Len(c) + 1
  <2>1. \A j \in Positions(w)' : Len(c) + 1 <= j
    BY <1>5
  <2>2. \E e \in Positions(w)' : \A j \in Positions(w)' : e <= j
    BY <1>5, <2>1
  <2> QED
    BY <1>5, <2>2 DEF First
<1>7. ASSUME NEW m, m # w PROVE Positions(m)' = Positions(m)
  BY <1>1, <1>2, <1>7 DEF Positions
<1>8. ASSUME NEW m, m # w PROVE First(m)' = First(m)
  BY <1>7, <1>8 DEF First
<1> QED
  BY <1>1, <1>4, <1>5, <1>6, <1>7, <1>8

\* A value in the place of another keeps the names.
LEMMA InPlace ==
  ASSUME c \in Seq(Entries), NEW e \in DOMAIN c, NEW v \in Values,
         c' = [c EXCEPT ![e] = <<c[e][1], v>>]
  PROVE  /\ c' \in Seq(Entries) /\ Len(c') = Len(c)
         /\ \A j \in DOMAIN c : c'[j][1] = c[j][1]
         /\ c'[e] = <<c[e][1], v>>
         /\ \A j \in DOMAIN c : j # e => c'[j] = c[j]
<1>1. e \in 1 .. Len(c)
  OBVIOUS
<1>2. <<c[e][1], v>> \in Entries
  BY DEF Entries
<1> HIDE DEF Entries
<1>3. /\ c' \in Seq(Entries) /\ Len(c') = Len(c)
      /\ \A j \in 1 .. Len(c) : c'[j] = IF j = e THEN <<c[e][1], v>> ELSE c[j]
  BY <1>1, <1>2, ExceptSeq
<1> QED
  BY <1>1, <1>3

-----------------------------------------------------------------------------
(* The invariant.                                                          *)

Inv == TypeOK /\ PointersStay

LEMMA InitInv == Init => Inv
<1> SUFFICES ASSUME Init PROVE Inv
  OBVIOUS
<1>1. c \in Seq(Entries) /\ Len(c) \in Nat
  BY CompoundAssumption DEF Init, Entries
<1>2. TypeOK
  BY <1>1 DEF Init, TypeOK, Entries, Answers
<1>3. PointersStay
  BY DEF Init, PointersStay
<1> QED
  BY <1>2, <1>3 DEF Inv

\* A call that keeps the names, and moves at most the pointer h, to an entry
\* that is the first of its name.
LEMMA KeepsInv ==
  ASSUME Inv, c' \in Seq(Entries), Len(c') = Len(c),
         \A e \in DOMAIN c : c'[e][1] = c[e][1],
         room' = room,
         NEW h \in Holders, NEW STATE r,
         \A p \in r : /\ p \in Names \X DOMAIN c
                      /\ p[2] \in Positions(p[1]) /\ p[2] = First(p[1]),
         held' \in {held, [held EXCEPT ![h] = r]},
         answer' \in Answers
  PROVE  Inv'
<1>1. c \in Seq(Entries) /\ DOMAIN c' = DOMAIN c
  BY DEF Inv, TypeOK, Entries
<1>2. TypeOK'
  BY <1>1 DEF Inv, TypeOK, Entries
<1>3. \A w : Positions(w)' = Positions(w) /\ First(w)' = First(w)
  BY <1>1, SameNames
<1>4. PointersStay'
  BY <1>3 DEF Inv, TypeOK, PointersStay
<1> QED
  BY <1>2, <1>4 DEF Inv

\* What a getter answers.
LEMMA GetAnswers ==
  ASSUME Inv, NEW w \in Names, NEW kind
  PROVE  typed_get(w, kind) \in Answers
<1>1. ASSUME Has(w) PROVE c[First(w)][2] \in Values
  BY <1>1, FirstIsLeast DEF Inv, TypeOK, Entries
<1> QED
  BY <1>1 DEF typed_get, Answers

LEMMA FindInv ==
  ASSUME Inv, NEW h \in Holders, NEW w \in Names, Find(h, w)
  PROVE  Inv'
<1> DEFINE r == IF Has(w) THEN {<<w, First(w)>>} ELSE {}
<1>1. c \in Seq(Entries)
  BY DEF Inv, TypeOK, Entries
<1>2. \A p \in r : /\ p \in Names \X DOMAIN c
                  /\ p[2] \in Positions(p[1]) /\ p[2] = First(p[1])
  BY <1>1, FirstIsLeast DEF Positions
<1>3. Has(w) => c[First(w)][2] \in Values
  BY <1>1, FirstIsLeast DEF Entries
<1>4. held' = [held EXCEPT ![h] = r] /\ c' = c /\ room' = room
  BY DEF Find
<1>6. \A e \in DOMAIN c : c'[e][1] = c[e][1]
  BY <1>4
<1>5. answer' \in Answers
  BY <1>3 DEF Find, Answers
<1> HIDE DEF r
<1> QED
  BY <1>1, <1>2, <1>4, <1>5, <1>6, KeepsInv

LEMMA ReplaceInv ==
  ASSUME Inv, NEW h \in Holders, NEW w \in Names, NEW v \in Values,
         UpsertReplace(h, w, v)
  PROVE  Inv'
<1> DEFINE r == {<<w, First(w)>>}
<1>1. c \in Seq(Entries)
  BY DEF Inv, TypeOK, Entries
<1>2. First(w) \in DOMAIN c /\ c[First(w)][1] = w
  BY <1>1, FirstIsLeast DEF UpsertReplace
<1>3. c' = [c EXCEPT ![First(w)] = <<c[First(w)][1], v>>]
  BY <1>2 DEF UpsertReplace
<1>4. /\ c' \in Seq(Entries) /\ Len(c') = Len(c)
      /\ \A e \in DOMAIN c : c'[e][1] = c[e][1]
  BY <1>1, <1>2, <1>3, InPlace
<1>5. \A p \in r : /\ p \in Names \X DOMAIN c
                  /\ p[2] \in Positions(p[1]) /\ p[2] = First(p[1])
  BY <1>2 DEF Positions
<1>6. held' = [held EXCEPT ![h] = r] /\ room' = room /\ answer' \in Answers
  BY DEF UpsertReplace, Answers
<1> HIDE DEF r
<1> QED
  BY <1>4, <1>5, <1>6, KeepsInv

LEMMA AssignInv ==
  ASSUME Inv, NEW h \in Holders, NEW v \in Values, Assign(h, v)
  PROVE  Inv'
<1>1. c \in Seq(Entries)
  BY DEF Inv, TypeOK, Entries
<1>2. PICK p \in held[h] : c' = [c EXCEPT ![p[2]] = <<@[1], v>>]
  BY DEF Assign
<1>3. p[2] \in DOMAIN c
  BY DEF Inv, TypeOK
<1>4. /\ c' \in Seq(Entries) /\ Len(c') = Len(c)
      /\ \A e \in DOMAIN c : c'[e][1] = c[e][1]
  BY <1>1, <1>2, <1>3, InPlace
<1>5. held' = held /\ room' = room /\ answer' \in Answers
  BY DEF Assign, Answers
<1> DEFINE r == {}
<1>6. \A q \in r : /\ q \in Names \X DOMAIN c
                  /\ q[2] \in Positions(q[1]) /\ q[2] = First(q[1])
  OBVIOUS
<1>7. held' \in {held, [held EXCEPT ![h] = r]}
  BY <1>5
<1> HIDE DEF r
<1> QED
  BY <1>4, <1>5, <1>6, <1>7, KeepsInv

\* Len(c) + 1 is the first entry of w, and the other pointers that are left
\* are to entries that are where they were.
LEMMA AddInv ==
  ASSUME Inv, NEW h \in Holders, NEW w \in Names, NEW v \in Values,
         UpsertAdd(h, w, v)
  PROVE  Inv'
<1>1. c \in Seq(Entries) /\ Len(c) \in Nat /\ room \in Nat /\ Len(c) <= room
  BY DEF Inv, TypeOK, Entries
<1>2. ~ Has(w) /\ c' = Append(c, <<w, v>>)
  BY DEF UpsertAdd, emplace_back
<1>3. /\ c' \in Seq(Entries) /\ Len(c') = Len(c) + 1
      /\ \A e \in DOMAIN c : c'[e] = c[e]
      /\ Positions(w)' = {Len(c) + 1} /\ First(w)' = Len(c) + 1
      /\ \A m : m # w => /\ Positions(m)' = Positions(m)
                         /\ First(m)' = First(m)
  BY <1>1, <1>2, OneMore
<1>4. DOMAIN c \subseteq DOMAIN c' /\ Len(c) + 1 \in DOMAIN c'
  BY <1>1, <1>3
<1>5. room' \in Nat /\ Len(c') <= room'
  BY <1>1, <1>3 DEF UpsertAdd, emplace_back
<1>6. /\ Kept \in [Holders -> SUBSET (Names \X DOMAIN c)]
      /\ \A g \in Holders : Kept[g] \subseteq held[g]
  BY DEF Kept, Inv, TypeOK
<1>7. held' = [Kept EXCEPT ![h] = {<<w, Len(c) + 1>>}] /\ answer' = v
  BY DEF UpsertAdd
<1>8. TypeOK'
  <2>1. held' \in [Holders -> SUBSET (Names \X DOMAIN c')]
    BY <1>4, <1>6, <1>7
  <2> QED
    BY <1>3, <1>5, <1>7, <2>1 DEF TypeOK, Entries, Answers
<1>9. PointersStay'
  <2> SUFFICES ASSUME NEW g \in Holders, NEW p \in held'[g]
               PROVE  p[2] \in Positions(p[1])' /\ p[2] = First(p[1])'
    BY DEF PointersStay
  <2>1. CASE g = h
    BY <1>3, <1>6, <1>7, <2>1
  <2>2. CASE g # h
    <3>1. p \in held[g]
      BY <1>6, <1>7, <2>2
    <3>2. p[2] \in Positions(p[1]) /\ p[2] = First(p[1])
      BY <3>1 DEF Inv, PointersStay
    <3>3. p[1] # w
      BY <1>2, <3>2 DEF Has
    <3> QED
      BY <1>3, <3>2, <3>3
  <2> QED
    BY <2>1, <2>2
<1> QED
  BY <1>8, <1>9 DEF Inv

LEMMA NextInv == Inv /\ [Next]_vars => Inv'
<1> SUFFICES ASSUME Inv, [Next]_vars PROVE Inv'
  OBVIOUS
<1>1. ASSUME NEW h \in Holders, NEW w \in Names, Find(h, w) PROVE Inv'
  BY <1>1, FindInv
<1>2. ASSUME NEW w \in Names, NEW kind \in Kinds, Get(w, kind) PROVE Inv'
  BY <1>2, GetAnswers DEF Get, Inv, TypeOK, PointersStay, Positions, First
<1>3. ASSUME NEW h \in Holders, NEW w \in Names, NEW v \in Values,
             UpsertReplace(h, w, v)
      PROVE  Inv'
  BY <1>3, ReplaceInv
<1>4. ASSUME NEW h \in Holders, NEW w \in Names, NEW v \in Values,
             UpsertAdd(h, w, v)
      PROVE  Inv'
  BY <1>4, AddInv
<1>5. ASSUME NEW h \in Holders, Read(h) PROVE Inv'
  <2>1. answer' \in Answers
    BY <1>5 DEF Read, Inv, TypeOK, Answers
  <2>2. UNCHANGED <<c, room, held>>
    BY <1>5 DEF Read
  <2>3. TypeOK'
    BY <2>1, <2>2 DEF Inv, TypeOK
  <2>4. PointersStay'
    BY <2>2 DEF Inv, PointersStay, Positions, First
  <2> QED
    BY <2>3, <2>4 DEF Inv
<1>6. ASSUME NEW h \in Holders, NEW v \in Values, Assign(h, v) PROVE Inv'
  BY <1>6, AssignInv
<1>7. CASE UNCHANGED vars
  BY <1>7 DEF vars, Inv, TypeOK, PointersStay, Positions, First
<1> QED
  BY <1>1, <1>2, <1>3, <1>4, <1>5, <1>6, <1>7 DEF Next

\* The vector, its capacity and every pointer a caller may still use are well
\* formed: no pointer is past the end.
THEOREM TypeCorrect == Spec => []TypeOK
<1>1. Inv => TypeOK
  BY DEF Inv
<1> QED
  BY <1>1, InitInv, NextInv, PTL DEF Spec

\* A pointer that find or upsert handed out stays on the entry that its name
\* is found at (value.cpp:53-85).
THEOREM PointersCorrect == Spec => []PointersStay
<1>1. Inv => PointersStay
  BY DEF Inv
<1> QED
  BY <1>1, InitInv, NextInv, PTL DEF Spec

LEMMA StepOrder ==
  Inv /\ [Next]_vars =>
    [/\ Len(c) <= Len(c')
     /\ \A e \in DOMAIN c : c'[e][1] = c[e][1]]_vars
<1> DEFINE Kept1 == /\ Len(c) <= Len(c')
                   /\ \A e \in DOMAIN c : c'[e][1] = c[e][1]
<1> SUFFICES ASSUME Inv, Next PROVE Kept1
  OBVIOUS
<1>0. c \in Seq(Entries) /\ Len(c) \in Nat
  BY DEF Inv, TypeOK, Entries
<1>1. ASSUME NEW h \in Holders, NEW w \in Names, Find(h, w) PROVE Kept1
  BY <1>0, <1>1 DEF Find
<1>2. ASSUME NEW w \in Names, NEW kind \in Kinds, Get(w, kind) PROVE Kept1
  BY <1>0, <1>2 DEF Get
<1>3. ASSUME NEW h \in Holders, NEW w \in Names, NEW v \in Values,
             UpsertReplace(h, w, v)
      PROVE  Kept1
  <2>1. First(w) \in DOMAIN c /\ c[First(w)][1] = w
    BY <1>0, <1>3, FirstIsLeast DEF UpsertReplace
  <2>2. c' = [c EXCEPT ![First(w)] = <<c[First(w)][1], v>>]
    BY <1>3, <2>1 DEF UpsertReplace
  <2> QED
    BY <1>0, <2>1, <2>2, InPlace
<1>4. ASSUME NEW h \in Holders, NEW w \in Names, NEW v \in Values,
             UpsertAdd(h, w, v)
      PROVE  Kept1
  <2>1. ~ Has(w) /\ c' = Append(c, <<w, v>>)
    BY <1>4 DEF UpsertAdd, emplace_back
  <2> QED
    BY <1>0, <2>1, OneMore
<1>5. ASSUME NEW h \in Holders, Read(h) PROVE Kept1
  BY <1>0, <1>5 DEF Read
<1>6. ASSUME NEW h \in Holders, NEW v \in Values, Assign(h, v) PROVE Kept1
  <2>1. PICK p \in held[h] : c' = [c EXCEPT ![p[2]] = <<@[1], v>>]
    BY <1>6 DEF Assign
  <2>2. p[2] \in DOMAIN c
    BY DEF Inv, TypeOK
  <2> QED
    BY <1>0, <2>1, <2>2, InPlace
<1> QED
  BY <1>1, <1>2, <1>3, <1>4, <1>5, <1>6 DEF Next

\* Insertion order survives every call (README.md:92).
THEOREM OrderCorrect == Spec => OrderKept
BY InitInv, NextInv, StepOrder, PTL DEF Spec, OrderKept

-----------------------------------------------------------------------------
(* Compound implements CompoundSpec.                                       *)

\* The abstract state.
MapValue == [w \in Keys |-> c[First(w)][2]]
MapBefore == {p \in Keys \X Keys : First(p[1]) < First(p[2])}
MapRefs == [h \in Holders |-> {p[1] : p \in held[h]}]

LEMMA KeysHave ==
  ASSUME c \in Seq(Entries)
  PROVE  /\ Keys \subseteq Names
         /\ \A w : w \in Keys <=> Has(w)
         /\ MapValue \in [Keys -> Values]
<1>1. Keys \subseteq Names
  BY DEF Keys, Entries
<1>2. \A w : w \in Keys <=> Has(w)
  BY DEF Keys, Has, Positions
<1>3. ASSUME NEW w \in Keys PROVE c[First(w)][2] \in Values
  BY <1>2, <1>3, FirstIsLeast DEF Entries
<1> QED
  BY <1>1, <1>2, <1>3 DEF MapValue

LEMMA InitRefines == Init => Map!Init
<1> SUFFICES ASSUME Init PROVE Map!Init
  OBVIOUS
<1>1. c \in Seq(Entries)
  BY CompoundAssumption DEF Init, Entries
<1>2. MapValue \in UNION {[N -> Values] : N \in SUBSET Names}
  BY <1>1, KeysHave
<1>3. DOMAIN MapValue = Keys /\ MapBefore \in SUBSET (Keys \X Keys)
  BY DEF MapValue, MapBefore
<1>4. MapRefs = [h \in Holders |-> {}]
  BY DEF MapRefs, Init
<1>5. answer = Map!No("nullptr")
  BY DEF Init, No, Map!No
<1> QED
  BY <1>2, <1>3, <1>4, <1>5 DEF Map!Init, Map!Here, MapValue, MapBefore, MapRefs

\* Calls that keep the names, changing the value of one entry.
LEMMA SameMap ==
  ASSUME Inv, c' = c, held' = held
  PROVE  MapValue' = MapValue /\ MapBefore' = MapBefore /\ MapRefs' = MapRefs
BY DEF MapValue, MapBefore, MapRefs, Keys, First, Positions

LEMMA OneValue ==
  ASSUME Inv, NEW w \in Names, Has(w), NEW v \in Values,
         c' = [c EXCEPT ![First(w)] = <<c[First(w)][1], v>>]
  PROVE  MapValue' = [MapValue EXCEPT ![w] = v] /\ MapBefore' = MapBefore
<1>1. c \in Seq(Entries)
  BY DEF Inv, TypeOK, Entries
<1>2. First(w) \in DOMAIN c /\ c[First(w)][1] = w
  BY <1>1, FirstIsLeast
<1>3. /\ c' \in Seq(Entries) /\ Len(c') = Len(c)
      /\ \A j \in DOMAIN c : c'[j][1] = c[j][1]
      /\ c'[First(w)] = <<w, v>>
      /\ \A j \in DOMAIN c : j # First(w) => c'[j] = c[j]
  BY <1>1, <1>2, InPlace
<1>4. Keys' = Keys /\ \A m : First(m)' = First(m)
  BY <1>1, <1>3, SameNames
<1>5. MapBefore' = MapBefore
  BY <1>4 DEF MapBefore
<1>6. ASSUME NEW m \in Keys
      PROVE  c'[First(m)][2] = IF m = w THEN v ELSE c[First(m)][2]
  <2>1. First(m) \in DOMAIN c /\ c[First(m)][1] = m
    BY <1>1, <1>6, KeysHave, FirstIsLeast
  <2> QED
    BY <1>2, <1>3, <2>1
<1>7. MapValue' = [m \in Keys |-> c'[First(m)][2]]
  BY <1>4 DEF MapValue
<1>8. [MapValue EXCEPT ![w] = v]
        = [m \in Keys |-> IF m = w THEN v ELSE c[First(m)][2]]
  BY DEF MapValue
<1>9. MapValue' = [MapValue EXCEPT ![w] = v]
  BY <1>6, <1>7, <1>8
<1> QED
  BY <1>5, <1>9

LEMMA OneKeyMore ==
  ASSUME Inv, NEW w \in Names, NEW v \in Values, ~ Has(w),
         c' = Append(c, <<w, v>>)
  PROVE  /\ MapValue' = [m \in Keys \cup {w} |->
                           IF m = w THEN v ELSE MapValue[m]]
         /\ MapBefore' = MapBefore \cup (Keys \X {w})
         /\ w \notin Keys
<1>1. c \in Seq(Entries) /\ Len(c) \in Nat
  BY DEF Inv, TypeOK, Entries
<1>2. /\ c'[Len(c) + 1] = <<w, v>>
      /\ \A e \in DOMAIN c : c'[e] = c[e]
      /\ Keys' = Keys \cup {w} /\ w \notin Keys
      /\ First(w)' = Len(c) + 1
      /\ \A m : m # w => First(m)' = First(m)
  BY <1>1, OneMore
<1>3. \A m \in Keys : First(m) \in DOMAIN c
  BY <1>1, KeysHave, FirstIsLeast
<1>4. ASSUME NEW m \in Keys \cup {w}
      PROVE  c'[First(m)'][2] = IF m = w THEN v ELSE MapValue[m]
  BY <1>2, <1>3 DEF MapValue
<1>5. MapValue' = [m \in Keys \cup {w} |-> c'[First(m)'][2]]
  BY <1>2 DEF MapValue
<1>6. MapValue' = [m \in Keys \cup {w} |-> IF m = w THEN v ELSE MapValue[m]]
  BY <1>4, <1>5
<1>7. ASSUME NEW p, NEW q, p \in Keys \cup {w}, q \in Keys \cup {w}
      PROVE  First(p)' < First(q)'
               <=> \/ p \in Keys /\ q \in Keys /\ First(p) < First(q)
                   \/ p \in Keys /\ q = w
  <2>1. \A m \in Keys : m # w /\ First(m)' = First(m) /\ First(m) \in 1 .. Len(c)
    BY <1>1, <1>2, <1>3
  <2>2. CASE p = w
    <3>1. ~ (First(p)' < First(q)')
      BY <1>1, <1>2, <1>7, <2>1, <2>2
    <3> QED
      BY <1>2, <2>2, <3>1
  <2>3. CASE p \in Keys /\ q = w
    BY <1>1, <1>2, <2>1, <2>3
  <2>4. CASE p \in Keys /\ q \in Keys
    BY <1>2, <2>1, <2>4
  <2> QED
    BY <1>7, <2>2, <2>3, <2>4
<1>8. MapBefore' = {p \in (Keys \cup {w}) \X (Keys \cup {w}) :
                      First(p[1])' < First(p[2])'}
  BY <1>2 DEF MapBefore
<1>9. MapBefore' = MapBefore \cup (Keys \X {w})
  BY <1>7, <1>8 DEF MapBefore
<1> QED
  BY <1>2, <1>6, <1>9

\* The keys a set of pointers is to.
NamesOf(ps) == {p[1] : p \in ps}

LEMMA RefsOf == MapRefs = [h \in Holders |-> NamesOf(held[h])]
BY DEF MapRefs, NamesOf

\* A pointer's key, when one pointer is set.
LEMMA OneRef ==
  ASSUME NEW STATE old, old \in [Holders -> SUBSET (Names \X Nat)],
         NEW h \in Holders, NEW STATE r, held' = [old EXCEPT ![h] = r]
  PROVE  /\ MapRefs' = [g \in Holders |-> MapRefs'[g]]
         /\ \A g \in Holders :
              MapRefs'[g] = IF g = h THEN NamesOf(r) ELSE NamesOf(old[g])
<1>1. MapRefs' = [g \in Holders |-> NamesOf(held'[g])]
  BY DEF MapRefs, NamesOf
<1>2. ASSUME NEW g \in Holders
      PROVE  NamesOf(held'[g]) = IF g = h THEN NamesOf(r) ELSE NamesOf(old[g])
  <2>1. held'[g] = IF g = h THEN r ELSE old[g]
    OBVIOUS
  <2> QED
    BY <2>1
<1> QED
  BY <1>1, <1>2

LEMMA OneName == \A w, e : NamesOf({<<w, e>>}) = {w} /\ NamesOf({}) = {}
BY DEF NamesOf

LEMMA StepRefines == Inv /\ [Next]_vars => [Map!Next]_(Map!vars)
<1> SUFFICES ASSUME Inv, [Next]_vars PROVE [Map!Next]_(Map!vars)
  OBVIOUS
<1>0. /\ c \in Seq(Entries)
      /\ held \in [Holders -> SUBSET (Names \X Nat)]
  BY DEF Inv, TypeOK, Entries
<1>1. ASSUME NEW h \in Holders, NEW w \in Names, Find(h, w)
      PROVE  Map!Find(h, w)
  <2>1. MapValue' = MapValue /\ MapBefore' = MapBefore
    BY <1>1 DEF Find, MapValue, MapBefore, Keys, First, Positions
  <2>2. w \in Keys <=> Has(w)
    BY <1>0, KeysHave
  <2>3. MapRefs' = [MapRefs EXCEPT ![h] = IF w \in Keys THEN {w} ELSE {}]
    <3> DEFINE r == IF Has(w) THEN {<<w, First(w)>>} ELSE {}
    <3>1. held' = [held EXCEPT ![h] = r]
      BY <1>1 DEF Find
    <3>2. NamesOf(r) = IF w \in Keys THEN {w} ELSE {}
      BY <2>2, OneName
    <3> HIDE DEF r
    <3>3. /\ MapRefs' = [g \in Holders |-> MapRefs'[g]]
          /\ \A g \in Holders :
               MapRefs'[g] = IF g = h THEN NamesOf(r) ELSE NamesOf(held[g])
      BY <1>0, <3>1, OneRef
    <3> QED
      BY <3>2, <3>3, RefsOf
  <2>4. answer' = IF w \in Keys THEN MapValue[w] ELSE Map!No("nullptr")
    BY <1>1, <2>2 DEF Find, MapValue, No, Map!No
  <2> QED
    BY <2>1, <2>3, <2>4
    DEF Map!Find, Map!Here, MapValue, MapBefore, MapRefs
<1>2. ASSUME NEW w \in Names, NEW kind \in Kinds, Get(w, kind)
      PROVE  Map!Get(w, kind)
  <2>1. MapValue' = MapValue /\ MapBefore' = MapBefore /\ MapRefs' = MapRefs
    BY <1>2, SameMap DEF Get
  <2>2. w \in Keys <=> Has(w)
    BY <1>0, KeysHave
  <2>3. answer' = IF w \notin Keys THEN Map!No("UnknownTagId")
                  ELSE IF KindOf(MapValue[w]) = kind THEN MapValue[w]
                  ELSE Map!No("UnexpectedRootType")
    BY <1>2, <2>2 DEF Get, typed_get, MapValue, No, Map!No
  <2> QED
    BY <2>1, <2>3 DEF Map!Get, Map!Here, MapValue, MapBefore, MapRefs
<1>3. ASSUME NEW h \in Holders, NEW w \in Names, NEW v \in Values,
             UpsertReplace(h, w, v)
      PROVE  Map!Replace(h, w, v)
  <2>1. Has(w) /\ c[First(w)][1] = w
    BY <1>0, <1>3, FirstIsLeast DEF UpsertReplace
  <2>2. c' = [c EXCEPT ![First(w)] = <<c[First(w)][1], v>>]
    BY <1>3, <2>1 DEF UpsertReplace
  <2>3. MapValue' = [MapValue EXCEPT ![w] = v] /\ MapBefore' = MapBefore
    BY <2>1, <2>2, OneValue
  <2>4. w \in Keys
    BY <1>0, <2>1, KeysHave
  <2>5. MapRefs' = [MapRefs EXCEPT ![h] = {w}]
    <3> DEFINE r == {<<w, First(w)>>}
    <3>1. held' = [held EXCEPT ![h] = r]
      BY <1>3 DEF UpsertReplace
    <3>2. NamesOf(r) = {w}
      BY OneName
    <3> HIDE DEF r
    <3>3. /\ MapRefs' = [g \in Holders |-> MapRefs'[g]]
          /\ \A g \in Holders :
               MapRefs'[g] = IF g = h THEN NamesOf(r) ELSE NamesOf(held[g])
      BY <1>0, <3>1, OneRef
    <3> QED
      BY <3>2, <3>3, RefsOf
  <2>6. answer' = v
    BY <1>3 DEF UpsertReplace
  <2> QED
    BY <2>3, <2>4, <2>5, <2>6
    DEF Map!Replace, Map!Here, MapValue, MapBefore, MapRefs
<1>4. ASSUME NEW h \in Holders, NEW w \in Names, NEW v \in Values,
             UpsertAdd(h, w, v)
      PROVE  Map!Add(h, w, v)
  <2>1. ~ Has(w) /\ c' = Append(c, <<w, v>>)
    BY <1>4 DEF UpsertAdd, emplace_back
  <2>2. /\ MapValue' = [m \in Keys \cup {w} |->
                          IF m = w THEN v ELSE MapValue[m]]
        /\ MapBefore' = MapBefore \cup (Keys \X {w})
        /\ w \notin Keys
    BY <2>1, OneKeyMore
  <2>3. Kept \in [Holders -> SUBSET (Names \X Nat)]
    BY <1>0 DEF Kept
  <2>4. MapRefs' = [[g \in Holders |-> NamesOf(Kept[g])] EXCEPT ![h] = {w}]
    <3> DEFINE r == {<<w, Len(c) + 1>>}
    <3>1. held' = [Kept EXCEPT ![h] = r]
      BY <1>4 DEF UpsertAdd
    <3>2. NamesOf(r) = {w}
      BY OneName
    <3> HIDE DEF r
    <3>3. /\ MapRefs' = [g \in Holders |-> MapRefs'[g]]
          /\ \A g \in Holders :
               MapRefs'[g] = IF g = h THEN NamesOf(r) ELSE NamesOf(Kept[g])
      BY <2>3, <3>1, OneRef
    <3> QED
      BY <3>2, <3>3
  <2>5. [g \in Holders |-> NamesOf(Kept[g])] \in {MapRefs, [g \in Holders |-> {}]}
    BY RefsOf, OneName DEF Kept
  <2>6. \E kept \in {MapRefs, [g \in Holders |-> {}]} :
          MapRefs' = [kept EXCEPT ![h] = {w}]
    BY <2>4, <2>5
  <2>7. answer' = v
    BY <1>4 DEF UpsertAdd
  <2> QED
    BY <2>2, <2>6, <2>7 DEF Map!Add, Map!Here, MapValue, MapBefore, MapRefs
<1>5. ASSUME NEW h \in Holders, Read(h) PROVE Map!Read(h)
  <2>1. PICK p \in held[h] : answer' = c[p[2]][2]
    BY <1>5 DEF Read
  <2>2. p[2] \in Positions(p[1]) /\ p[2] = First(p[1])
    BY <2>1 DEF Inv, PointersStay
  <2>3. p[1] \in Keys
    BY <2>2 DEF Positions, Keys
  <2>4. p[1] \in MapRefs[h] /\ answer' = MapValue[p[1]]
    BY <2>1, <2>2, <2>3 DEF MapRefs, MapValue
  <2>5. MapValue' = MapValue /\ MapBefore' = MapBefore /\ MapRefs' = MapRefs
    BY <1>5, SameMap DEF Read
  <2> QED
    BY <2>4, <2>5 DEF Map!Read, Map!Here, MapValue, MapBefore, MapRefs
<1>6. ASSUME NEW h \in Holders, NEW v \in Values, Assign(h, v)
      PROVE  Map!Assign(h, v)
  <2>1. PICK p \in held[h] : c' = [c EXCEPT ![p[2]] = <<@[1], v>>]
    BY <1>6 DEF Assign
  <2>2. p[2] \in Positions(p[1]) /\ p[2] = First(p[1]) /\ p[1] \in Names
    BY <1>0, <2>1 DEF Inv, PointersStay
  <2>3. c' = [c EXCEPT ![First(p[1])] = <<c[First(p[1])][1], v>>]
    BY <1>0, <2>1, <2>2 DEF Positions
  <2>4. MapValue' = [MapValue EXCEPT ![p[1]] = v] /\ MapBefore' = MapBefore
    BY <2>2, <2>3, OneValue DEF Has
  <2>5. p[1] \in MapRefs[h]
    BY <2>1 DEF MapRefs
  <2>6. MapRefs' = MapRefs /\ answer' = v
    BY <1>6 DEF Assign, MapRefs
  <2> QED
    BY <2>4, <2>5, <2>6 DEF Map!Assign, Map!Here, MapValue, MapBefore, MapRefs
<1>7. CASE UNCHANGED vars
  BY <1>7, SameMap DEF vars, Map!vars, MapValue, MapBefore, MapRefs
<1> QED
  BY <1>1, <1>2, <1>3, <1>4, <1>5, <1>6, <1>7 DEF Next, Map!Next

\* A vector with its free functions is an ordered map, whatever it was filled
\* with: entries that repeat a name stay hidden, and pointers are keys.
THEOREM CompoundIsMap == Spec => ImplementsMap
BY InitInv, NextInv, InitRefines, StepRefines, PTL
DEF Spec, ImplementsMap, Map!Spec

-----------------------------------------------------------------------------
(* get_at.  The functions defined by recursion exist, by induction over    *)
(* how far they have been computed.                                        *)

LEMMA Upwards ==
  ASSUME NEW S, 0 \in S, \A k \in Nat : k \in S => k + 1 \in S
  PROVE  \A k \in Nat : k \in S
<1> DEFINE T == {k \in Nat : k \notin S}
<1> SUFFICES ASSUME T # {} PROVE FALSE
  OBVIOUS
<1>1. PICK m \in T : \A k \in T : m <= k
  <2> T \subseteq Nat
    OBVIOUS
  <2> HIDE DEF T
  <2> QED
    BY LeastPosition
<1>2. m \in Nat /\ m \notin S /\ m # 0
  BY <1>1
<1>3. m - 1 \in Nat /\ m - 1 \notin T
  BY <1>1, <1>2
<1> QED
  BY <1>2, <1>3

\* Along(v, at), as its recursion has it.
Down(v, at, N, f) ==
  f = [m \in 0 .. N |-> IF m = 0 THEN v ELSE Child(f[m - 1], at[m])]

LEMMA AlongIs ==
  ASSUME NEW v, NEW at, Len(at) \in Nat
  PROVE  Down(v, at, Len(at), Along(v, at))
<1> DEFINE S == {N \in Nat : \E f : Down(v, at, N, f)}
<1>1. 0 \in S
  <2>1. Down(v, at, 0, [m \in 0 .. 0 |-> v])
    BY DEF Down
  <2> QED
    BY <2>1
<1>2. ASSUME NEW N \in Nat, N \in S PROVE N + 1 \in S
  <2>1. PICK f : Down(v, at, N, f)
    BY <1>2
  <2> DEFINE g == [m \in 0 .. N + 1 |->
                     IF m = N + 1 THEN Child(f[N], at[N + 1]) ELSE f[m]]
             h == [m \in 0 .. N + 1 |->
                     IF m = 0 THEN v ELSE Child(g[m - 1], at[m])]
  <2>2. ASSUME NEW m \in 0 .. N + 1 PROVE g[m] = h[m]
    <3>1. CASE m = N + 1
      <4>1. g[m] = Child(f[N], at[N + 1]) /\ g[N] = f[N]
        BY <3>1
      <4> QED
        BY <3>1, <4>1
    <3>2. CASE m # N + 1
      <4>1. m \in 0 .. N /\ g[m] = f[m] /\ (m # 0 => g[m - 1] = f[m - 1])
        BY <3>2
      <4>2. f[m] = IF m = 0 THEN v ELSE Child(f[m - 1], at[m])
        BY <2>1, <4>1 DEF Down
      <4> QED
        BY <4>1, <4>2
    <3> QED
      BY <3>1, <3>2
  <2>3. g = h
    BY <2>2
  <2>4. Down(v, at, N + 1, g)
    <3> HIDE DEF g
    <3> QED
      BY <2>3 DEF Down
  <2> QED
    BY <2>4
<1>3. Len(at) \in S
  <2> HIDE DEF S
  <2> QED
    BY <1>1, <1>2, Upwards
<1>4. PICK f : Down(v, at, Len(at), f)
  BY <1>3
<1>5. Along(v, at) = CHOOSE g : Down(v, at, Len(at), g)
  BY DEF Along, Down
<1> QED
  BY <1>4, <1>5

\* Nothing but the child numbers on the way decides where it goes.
LEMMA AlongSame ==
  ASSUME NEW v, NEW at, NEW bt, Len(at) \in Nat, Len(bt) \in Nat,
         NEW N \in Nat, N <= Len(at), N <= Len(bt),
         \A m \in 1 .. N : at[m] = bt[m]
  PROVE  \A m \in 0 .. N : Along(v, at)[m] = Along(v, bt)[m]
<1> DEFINE S == {m \in Nat : m <= N => Along(v, at)[m] = Along(v, bt)[m]}
<1>1. /\ Down(v, at, Len(at), Along(v, at))
      /\ Down(v, bt, Len(bt), Along(v, bt))
  BY AlongIs
<1>2. 0 \in S
  BY <1>1 DEF Down
<1>3. ASSUME NEW m \in Nat, m \in S PROVE m + 1 \in S
  <2> SUFFICES ASSUME m + 1 <= N PROVE Along(v, at)[m + 1] = Along(v, bt)[m + 1]
    OBVIOUS
  <2>1. /\ m + 1 \in 0 .. Len(at) /\ m + 1 \in 0 .. Len(bt) /\ m + 1 # 0
        /\ m + 1 \in 1 .. N /\ (m + 1) - 1 = m
    OBVIOUS
  <2>2. Along(v, at)[m + 1] = Child(Along(v, at)[m], at[m + 1])
    BY <1>1, <2>1 DEF Down
  <2>3. Along(v, bt)[m + 1] = Child(Along(v, bt)[m], bt[m + 1])
    BY <1>1, <2>1 DEF Down
  <2> QED
    BY <1>3, <2>1, <2>2, <2>3
<1> HIDE DEF S
<1>4. \A m \in Nat : m \in S
  BY <1>2, <1>3, Upwards
<1> QED
  BY <1>4 DEF S

LEMMA AlongAppend ==
  ASSUME NEW v, NEW at \in Seq(Nat), NEW k \in Nat
  PROVE  /\ \A m \in 0 .. Len(at) : Along(v, Append(at, k))[m] = Along(v, at)[m]
         /\ Along(v, Append(at, k))[Len(at) + 1] = Child(Along(v, at)[Len(at)], k)
<1> DEFINE bt == Append(at, k)
<1>1. /\ Len(at) \in Nat /\ Len(bt) = Len(at) + 1 /\ bt[Len(at) + 1] = k
      /\ \A m \in 1 .. Len(at) : at[m] = bt[m]
  OBVIOUS
<1> HIDE DEF bt
<1>2. \A m \in 0 .. Len(at) : Along(v, bt)[m] = Along(v, at)[m]
  <2>1. PICK N : N = Len(at)
    OBVIOUS
  <2>2. /\ N \in Nat /\ Len(bt) \in Nat /\ N <= Len(at) /\ N <= Len(bt)
        /\ \A m \in 1 .. N : at[m] = bt[m]
    BY <1>1, <2>1
  <2>3. \A m \in 0 .. N : Along(v, at)[m] = Along(v, bt)[m]
    BY <1>1, <2>2, AlongSame
  <2> QED
    BY <2>1, <2>3
<1>3. Down(v, bt, Len(bt), Along(v, bt))
  BY <1>1, AlongIs
<1>4. Along(v, bt)[Len(at) + 1] = Child(Along(v, bt)[Len(at)], k)
  BY <1>1, <1>3 DEF Down
<1>5. Along(v, bt)[Len(at)] = Along(v, at)[Len(at)]
  BY <1>1, <1>2
<1> QED
  BY <1>1, <1>2, <1>4, <1>5 DEF bt

LEMMA AtTheTop ==
  ASSUME NEW v PROVE Along(v, <<>>)[0] = v
<1>1. Len(<<>>) = 0
  OBVIOUS
<1>2. Down(v, <<>>, 0, Along(v, <<>>))
  BY <1>1, AlongIs
<1> QED
  BY <1>2 DEF Down

-----------------------------------------------------------------------------
(* The children that a segment names.                                      *)

IsSegment(s) ==
  \/ s = Key(s.of)
  \/ s = Index(s.of) /\ s.of \in 0 .. kMaxIndex

IsNode(v) ==
  v[1] \in {"List", "Compound"} =>
    /\ Len(v[2]) \in Nat /\ DOMAIN v[2] = 1 .. Len(v[2])
    /\ \A k \in DOMAIN v[2] : Child(v, k) \in Nodes

LEMMA NodesAre == \A v \in Nodes : IsNode(v)
BY PathAssumption DEF IsNode

\* Where a name occurs at all, find stops at its least position.
LEMMA FindsFirst ==
  ASSUME NEW entries, Len(entries) \in Nat, DOMAIN entries = 1 .. Len(entries),
         NEW key
  PROVE  /\ find(entries, key) \in Nat
         /\ find(entries, key) = 0 =>
              \A k \in DOMAIN entries : entries[k][1] # key
         /\ find(entries, key) # 0 =>
              /\ find(entries, key) \in DOMAIN entries
              /\ entries[find(entries, key)][1] = key
              /\ \A k \in 1 .. find(entries, key) - 1 : entries[k][1] # key
<1> DEFINE hits == {k \in DOMAIN entries : entries[k][1] = key}
<1>1. CASE hits = {}
  BY <1>1 DEF find
<1>2. CASE hits # {}
  <2>1. hits \subseteq Nat
    OBVIOUS
  <2>2. PICK k \in hits : \A m \in hits : k <= m
    <3> HIDE DEF hits
    <3> QED
      BY <1>2, <2>1, LeastPosition
  <2>3. find(entries, key) = Min(hits)
    BY <1>2 DEF find
  <2>4. Min(hits) \in hits /\ \A m \in hits : Min(hits) <= m
    <3> HIDE DEF hits
    <3> QED
      BY <2>2 DEF Min
  <2>5. Min(hits) \in 1 .. Len(entries) /\ entries[Min(hits)][1] = key
    BY <2>4
  <2>6. ASSUME NEW m \in 1 .. Min(hits) - 1 PROVE entries[m][1] # key
    <3>1. m \in 1 .. Len(entries) /\ ~ (Min(hits) <= m)
      BY <2>5
    <3> QED
      BY <2>4, <3>1
  <2> HIDE DEF hits
  <2> QED
    BY <2>3, <2>5, <2>6
<1> QED
  BY <1>1, <1>2

LEMMA KeyNames ==
  ASSUME NEW v \in Nodes, v[1] = "Compound", NEW key
  PROVE  Named(v, Key(key)) = IF find(v[2], key) = 0 THEN {}
                              ELSE {find(v[2], key)}
<1> DEFINE f == find(v[2], key)
<1>1. Len(v[2]) \in Nat /\ DOMAIN v[2] = 1 .. Len(v[2])
  BY NodesAre DEF IsNode
<1>2. /\ f \in Nat
      /\ f = 0 => \A k \in DOMAIN v[2] : v[2][k][1] # key
      /\ f # 0 => /\ f \in DOMAIN v[2] /\ v[2][f][1] = key
                  /\ \A k \in 1 .. f - 1 : v[2][k][1] # key
  BY <1>1, FindsFirst
<1>3. ASSUME NEW k PROVE Key(key) = Key(v[2][k][1]) <=> v[2][k][1] = key
  BY DEF Key
<1>4. \A k : k \in Named(v, Key(key)) <=>
        /\ k \in DOMAIN v[2] /\ v[2][k][1] = key
        /\ \A m \in 1 .. k - 1 : v[2][m][1] # v[2][k][1]
  <2>1. Children(v) = DOMAIN v[2] /\ v[1] # "List"
    BY DEF Children
  <2> QED
    BY <1>3, <2>1 DEF Named
<1> HIDE DEF f
<1>5. CASE f = 0
  <2>1. Named(v, Key(key)) = {}
    BY <1>2, <1>4, <1>5
  <2> QED
    BY <1>5, <2>1 DEF f
<1>6. CASE f # 0
  <2>1. f \in Named(v, Key(key))
    BY <1>2, <1>4, <1>6
  <2>2. ASSUME NEW k \in Named(v, Key(key)) PROVE k = f
    <3>1. k \in 1 .. Len(v[2]) /\ f \in 1 .. Len(v[2])
      BY <1>1, <1>2, <1>4, <1>6
    <3>2. v[2][k][1] = key /\ v[2][f][1] = key
      BY <1>2, <1>4, <1>6
    <3>3. ~ (k < f)
      BY <1>2, <1>6, <3>1, <3>2
    <3>4. ~ (f < k)
      BY <1>4, <3>1, <3>2
    <3> QED
      BY <3>1, <3>3, <3>4
  <2>3. Named(v, Key(key)) = {f}
    BY <2>1, <2>2
  <2> QED
    BY <1>6, <2>3 DEF f
<1> QED
  BY <1>5, <1>6

LEMMA IndexNames ==
  ASSUME NEW v \in Nodes, v[1] = "List", NEW x \in Nat
  PROVE  Named(v, Index(x)) = IF x >= Len(v[2]) THEN {} ELSE {x + 1}
<1>1. Len(v[2]) \in Nat /\ DOMAIN v[2] = 1 .. Len(v[2])
  BY NodesAre DEF IsNode
<1>2. ASSUME NEW k PROVE Index(x) = Index(k - 1) <=> x = k - 1
  BY DEF Index
<1>3. Children(v) = DOMAIN v[2] /\ v[1] # "Compound"
  BY DEF Children
<1>4. \A k : k \in Named(v, Index(x)) <=> k \in 1 .. Len(v[2]) /\ x = k - 1
  BY <1>1, <1>2, <1>3 DEF Named
<1>5. CASE x >= Len(v[2])
  BY <1>1, <1>4, <1>5
<1>6. CASE ~ (x >= Len(v[2]))
  <2>1. x + 1 \in 1 .. Len(v[2]) /\ x = (x + 1) - 1
    BY <1>1, <1>6
  <2>2. \A k \in 1 .. Len(v[2]) : x = k - 1 => k = x + 1
    OBVIOUS
  <2>3. Named(v, Index(x)) = {x + 1}
    BY <1>4, <2>1, <2>2
  <2> QED
    BY <1>6, <2>3
<1> QED
  BY <1>5, <1>6

LEMMA WrongKind ==
  ASSUME NEW v, NEW key
  PROVE  /\ v[1] # "Compound" => Named(v, Key(key)) = {}
         /\ v[1] # "List" => Named(v, Index(key)) = {}
<1>1. ASSUME NEW k PROVE Key(key) # Index(k) /\ Index(key) # Key(k)
  BY DEF Key, Index
<1> QED
  BY <1>1 DEF Named

-----------------------------------------------------------------------------
(* The parser stays in its text.                                           *)

\* A set of numbers from k to N with N in it has a least element.
LEMMA MinOf ==
  ASSUME NEW k \in Nat, NEW N \in Nat, NEW T, T \subseteq k .. N, N \in T
  PROVE  /\ Min(T) \in T
         /\ \A m \in T : Min(T) <= m
<1>1. T \subseteq Nat /\ T # {}
  OBVIOUS
<1>2. PICK m \in T : \A x \in T : m <= x
  BY <1>1, LeastPosition
<1> QED
  BY <1>2 DEF Min

\* A run ends where its characters do, or with the text.
LEMMA DigitsEnd ==
  ASSUME n \in Nat, NEW k \in 0 .. n
  PROVE  /\ RunEnd(k, is_digit) \in k .. n
         /\ \A m \in k .. RunEnd(k, is_digit) - 1 : is_digit(At(m))
<1> DEFINE T == {m \in k .. n : m = n \/ ~ is_digit(At(m))}
<1>1. RunEnd(k, is_digit) = Min(T)
  BY DEF RunEnd
<1>2. k \in Nat /\ T \subseteq k .. n /\ n \in T
  OBVIOUS
<1>3. Min(T) \in T /\ \A m \in T : Min(T) <= m
  <2> HIDE DEF T
  <2> QED
    BY <1>2, MinOf
<1>4. Min(T) \in k .. n
  BY <1>3
<1>5. ASSUME NEW m \in k .. Min(T) - 1 PROVE is_digit(At(m))
  <2>1. m \in k .. n /\ m # n /\ ~ (Min(T) <= m)
    BY <1>4
  <2>2. m \notin T
    BY <1>3, <2>1
  <2> QED
    BY <2>1, <2>2
<1> HIDE DEF T
<1> QED
  BY <1>1, <1>4, <1>5

LEMMA KeyEnd ==
  ASSUME n \in Nat, NEW k \in 0 .. n
  PROVE  RunEnd(k, is_unquoted_id_char) \in k .. n
<1> DEFINE T == {m \in k .. n : m = n \/ ~ is_unquoted_id_char(At(m))}
<1>1. RunEnd(k, is_unquoted_id_char) = Min(T)
  BY DEF RunEnd
<1>2. k \in Nat /\ T \subseteq k .. n /\ n \in T
  OBVIOUS
<1>3. Min(T) \in T
  <2> HIDE DEF T
  <2> QED
    BY <1>2, MinOf
<1> QED
  BY <1>1, <1>3

\* from_chars, as its recursion has it, over the digits from k to m - 1.
digit_at(k) == (CHOOSE x \in 1 .. 10 : Digits[x] = At(k)) - 1

Value(k, m, f) ==
  f = [d \in k .. m |-> IF d = k THEN 0 ELSE f[d - 1] * 10 + digit_at(d - 1)]

LEMMA DigitsAreNumbers ==
  ASSUME NEW k, is_digit(At(k)) PROVE digit_at(k) \in 0 .. 9
<1>1. Len(Digits) = 10
  BY DEF Digits
<1>2. \E x \in 1 .. 10 : Digits[x] = At(k)
  BY <1>1 DEF is_digit, Contains
<1>3. (CHOOSE x \in 1 .. 10 : Digits[x] = At(k)) \in 1 .. 10
  BY <1>2
<1> QED
  BY <1>3 DEF digit_at

LEMMA FromCharsIs ==
  ASSUME NEW k \in Nat, NEW m \in Nat, k <= m,
         \A d \in k .. m - 1 : is_digit(At(d))
  PROVE  from_chars(k, m) \in Nat
<1> DEFINE S == {j \in Nat : \E f : Value(k, k + j, f)}
<1>1. 0 \in S
  <2>1. Value(k, k + 0, [d \in k .. k + 0 |-> 0])
    BY DEF Value
  <2> QED
    BY <2>1
<1>2. ASSUME NEW j \in Nat, j \in S PROVE j + 1 \in S
  <2>1. PICK e \in Nat : e = k + j
    OBVIOUS
  <2>2. PICK f : Value(k, e, f)
    BY <1>2, <2>1
  <2> DEFINE g == [d \in k .. e + 1 |->
                     IF d = e + 1 THEN f[e] * 10 + digit_at(e) ELSE f[d]]
             h == [d \in k .. e + 1 |->
                     IF d = k THEN 0 ELSE g[d - 1] * 10 + digit_at(d - 1)]
  <2>3. ASSUME NEW d \in k .. e + 1 PROVE g[d] = h[d]
    <3>1. CASE d = e + 1
      <4>1. d # k /\ d - 1 = e /\ e \in k .. e + 1 /\ e # e + 1
        BY <2>1, <3>1
      <4>2. g[d] = f[e] * 10 + digit_at(e) /\ g[e] = f[e]
        BY <3>1, <4>1
      <4>3. h[d] = g[d - 1] * 10 + digit_at(d - 1)
        BY <4>1
      <4> HIDE DEF g, h
      <4> QED
        BY <4>1, <4>2, <4>3
    <3>2. CASE d # e + 1
      <4>1. d \in k .. e /\ g[d] = f[d]
        BY <2>1, <3>2
      <4>2. d # k => d - 1 \in k .. e + 1 /\ d - 1 # e + 1
        BY <2>1, <3>2
      <4>3. d # k => g[d - 1] = f[d - 1]
        BY <4>2
      <4>4. f[d] = IF d = k THEN 0 ELSE f[d - 1] * 10 + digit_at(d - 1)
        BY <2>2, <4>1 DEF Value
      <4>5. h[d] = IF d = k THEN 0 ELSE g[d - 1] * 10 + digit_at(d - 1)
        OBVIOUS
      <4> HIDE DEF g, h
      <4> QED
        BY <4>1, <4>3, <4>4, <4>5
    <3> QED
      BY <3>1, <3>2
  <2>4. g = h
    BY <2>3
  <2>5. Value(k, e + 1, g)
    <3> HIDE DEF g
    <3> QED
      BY <2>4 DEF Value
  <2>6. k + (j + 1) = e + 1
    BY <2>1
  <2> HIDE DEF g
  <2> QED
    BY <2>5, <2>6
<1>3. PICK j \in Nat : m = k + j
  <2>1. m - k \in Nat /\ m = k + (m - k)
    OBVIOUS
  <2> QED
    BY <2>1
<1>4. j \in S
  <2> HIDE DEF S
  <2> QED
    BY <1>1, <1>2, Upwards
<1>5. \E f : Value(k, m, f)
  BY <1>3, <1>4
<1>6. from_chars(k, m) = (CHOOSE g : Value(k, m, g))[m]
  BY DEF from_chars, Value, digit_at
<1> DEFINE v == CHOOSE g : Value(k, m, g)
<1>7. Value(k, m, v)
  BY <1>5
<1> HIDE DEF v
<1> DEFINE D == {d \in Nat : k + d <= m => v[k + d] \in Nat}
<1>8. 0 \in D
  <2>1. k + 0 \in k .. m /\ k + 0 = k
    OBVIOUS
  <2> QED
    BY <1>7, <2>1 DEF Value
<1>9. ASSUME NEW d \in Nat, d \in D PROVE d + 1 \in D
  <2> SUFFICES ASSUME k + (d + 1) <= m PROVE v[k + (d + 1)] \in Nat
    OBVIOUS
  <2>1. /\ k + (d + 1) \in k .. m /\ k + (d + 1) # k
        /\ (k + (d + 1)) - 1 = k + d /\ k + d \in k .. m - 1 /\ k + d <= m
    OBVIOUS
  <2>2. v[k + d] \in Nat
    BY <1>9, <2>1
  <2>3. v[k + (d + 1)] = v[k + d] * 10 + digit_at(k + d)
    BY <1>7, <2>1 DEF Value
  <2>4. digit_at(k + d) \in 0 .. 9
    BY <2>1, DigitsAreNumbers
  <2> QED
    BY <2>2, <2>3, <2>4
<1>10. j \in D
  <2> HIDE DEF D
  <2> QED
    BY <1>8, <1>9, Upwards
<1> QED
  BY <1>3, <1>6, <1>10 DEF v

\* quoted_key, as its recursion has it.
QuotedStep(quote, f, m) ==
  IF m = n THEN [ok |-> FALSE, key |-> <<>>, end |-> n]
  ELSE IF At(m) = quote THEN [ok |-> TRUE, key |-> <<>>, end |-> m + 1]
  ELSE IF Escapes(m) THEN [f[m + 2] EXCEPT !.key = <<At(m + 1)>> \o @]
  ELSE [f[m + 1] EXCEPT !.key = <<At(m)>> \o @]

Quoted(k, quote, f) == f = [m \in k .. n |-> QuotedStep(quote, f, m)]

LEMMA QuotedStepLater ==
  ASSUME n \in Nat, NEW quote, NEW f, NEW g, NEW m \in 0 .. n,
         \A j \in m + 1 .. n : f[j] = g[j]
  PROVE  QuotedStep(quote, f, m) = QuotedStep(quote, g, m)
<1>1. m # n => m + 1 \in m + 1 .. n
  OBVIOUS
<1>2. Escapes(m) => m + 2 \in m + 1 .. n
  BY DEF Escapes
<1>3. /\ m # n => f[m + 1] = g[m + 1]
      /\ Escapes(m) => f[m + 2] = g[m + 2]
  BY <1>1, <1>2
<1> QED
  BY <1>3, Zenon DEF QuotedStep

LEMMA QuotedIs ==
  ASSUME n \in Nat, NEW k \in 0 .. n, NEW quote
  PROVE  \E f : Quoted(k, quote, f)
<1> DEFINE S == {j \in Nat : j <= n => \E f : Quoted(n - j, quote, f)}
<1>1. 0 \in S
  <2> DEFINE g == [m \in n - 0 .. n |-> [ok |-> FALSE, key |-> <<>>, end |-> n]]
  <2>1. \A m \in n - 0 .. n : g[m] = QuotedStep(quote, g, m)
    BY DEF QuotedStep
  <2>2. g = [m \in n - 0 .. n |-> g[m]]
    OBVIOUS
  <2> HIDE DEF g
  <2>3. Quoted(n - 0, quote, g)
    BY <2>1, <2>2 DEF Quoted
  <2> QED
    BY <2>3
<1>2. ASSUME NEW j \in Nat, j \in S PROVE j + 1 \in S
  <2> SUFFICES ASSUME j + 1 <= n PROVE \E f : Quoted(n - (j + 1), quote, f)
    OBVIOUS
  <2>1. PICK e \in 0 .. n - 1 : e = n - (j + 1)
    OBVIOUS
  <2>2. PICK f : Quoted(e + 1, quote, f)
    <3>1. e + 1 = n - j
      BY <2>1
    <3> QED
      BY <1>2, <3>1
  <2> DEFINE g == [m \in e .. n |-> IF m = e THEN QuotedStep(quote, f, e) ELSE f[m]]
  <2>3. \A m \in e + 1 .. n : g[m] = f[m]
    OBVIOUS
  <2>4. g = [m \in e .. n |-> g[m]] /\ g[e] = QuotedStep(quote, f, e)
    OBVIOUS
  <2> HIDE DEF g
  <2>5. ASSUME NEW m \in e .. n PROVE g[m] = QuotedStep(quote, g, m)
    <3>1. m \in 0 .. n /\ \A q \in m + 1 .. n : f[q] = g[q]
      BY <2>3
    <3>2. QuotedStep(quote, f, m) = QuotedStep(quote, g, m)
      BY <3>1, QuotedStepLater
    <3>3. CASE m = e
      BY <2>4, <3>2, <3>3
    <3>4. CASE m # e
      <4>1. m \in e + 1 .. n
        BY <3>4
      <4>2. f[m] = QuotedStep(quote, f, m)
        BY <2>2, <4>1 DEF Quoted
      <4> QED
        BY <2>3, <3>2, <4>1, <4>2
    <3> QED
      BY <3>3, <3>4
  <2>6. Quoted(e, quote, g)
    BY <2>4, <2>5 DEF Quoted
  <2> QED
    BY <2>1, <2>6
<1>3. PICK j \in Nat : j <= n /\ k = n - j
  <2>1. n - k \in Nat /\ n - k <= n /\ k = n - (n - k)
    OBVIOUS
  <2> QED
    BY <2>1
<1>4. j \in S
  <2> HIDE DEF S
  <2> QED
    BY <1>1, <1>2, Upwards
<1> QED
  BY <1>3, <1>4

LEMMA QuotedEnds ==
  ASSUME n \in Nat, NEW k \in 0 .. n, NEW quote
  PROVE  quoted_key(k, quote).end \in k .. n
<1> DEFINE v == CHOOSE f : Quoted(k, quote, f)
<1>1. quoted_key(k, quote) = v[k]
  BY DEF quoted_key, Quoted, QuotedStep
<1>2. Quoted(k, quote, v)
  BY QuotedIs
<1> HIDE DEF v
<1> DEFINE Ends(m) == "end" \in DOMAIN v[m] /\ v[m].end \in m .. n
<1> DEFINE S == {j \in Nat : \A m \in k .. n : n <= m + j => Ends(m)}
<1>3. ASSUME NEW m \in k .. n, \A q \in m + 1 .. n : Ends(q) PROVE Ends(m)
  <2>1. v[m] = QuotedStep(quote, v, m)
    BY <1>2 DEF Quoted
  <2>2. CASE m = n
    <3>1. v[m] = [ok |-> FALSE, key |-> <<>>, end |-> n]
      BY <2>1, <2>2 DEF QuotedStep
    <3> QED
      BY <2>2, <3>1
  <2>3. CASE m # n /\ At(m) = quote
    <3>1. v[m] = [ok |-> TRUE, key |-> <<>>, end |-> m + 1]
      BY <2>1, <2>3 DEF QuotedStep
    <3> QED
      BY <2>3, <3>1
  <2>4. ASSUME NEW q \in m + 1 .. n, NEW x, v[m] = [v[q] EXCEPT !.key = x]
        PROVE  Ends(m)
    <3>1. "end" \in DOMAIN v[q] /\ v[q].end \in q .. n
      BY <1>3
    <3>2. "end" # "key"
      OBVIOUS
    <3>3. "end" \in DOMAIN v[m] /\ v[m].end = v[q].end
      BY <2>4, <3>1, <3>2
    <3> QED
      BY <3>1, <3>3
  <2>5. CASE m # n /\ At(m) # quote /\ Escapes(m)
    <3>1. m + 2 \in m + 1 .. n
      BY <2>5 DEF Escapes
    <3>2. v[m] = [v[m + 2] EXCEPT !.key = <<At(m + 1)>> \o @]
      BY <2>1, <2>5 DEF QuotedStep
    <3> HIDE DEF Ends
    <3> QED
      BY <2>4, <3>1, <3>2
  <2>6. CASE m # n /\ At(m) # quote /\ ~ Escapes(m)
    <3>1. m + 1 \in m + 1 .. n
      BY <2>6
    <3>2. v[m] = [v[m + 1] EXCEPT !.key = <<At(m)>> \o @]
      BY <2>1, <2>6 DEF QuotedStep
    <3> HIDE DEF Ends
    <3> QED
      BY <2>4, <3>1, <3>2
  <2> QED
    BY <2>2, <2>3, <2>5, <2>6
<1> HIDE DEF Ends
<1>4. 0 \in S
  <2>1. ASSUME NEW m \in k .. n, n <= m + 0 PROVE Ends(m)
    <3>1. \A q \in m + 1 .. n : Ends(q)
      BY <2>1
    <3> QED
      BY <1>3, <3>1
  <2> QED
    BY <2>1
<1>5. ASSUME NEW j \in Nat, j \in S PROVE j + 1 \in S
  <2>1. ASSUME NEW m \in k .. n, n <= m + (j + 1) PROVE Ends(m)
    <3>1. ASSUME NEW q \in m + 1 .. n PROVE Ends(q)
      <4>1. q \in k .. n /\ n <= q + j
        BY <2>1
      <4> QED
        BY <1>5, <4>1
    <3> QED
      BY <1>3, <3>1
  <2> QED
    BY <2>1
<1>6. n - k \in Nat /\ n <= k + (n - k) /\ k \in k .. n
  OBVIOUS
<1>7. n - k \in S
  <2> HIDE DEF S
  <2> QED
    BY <1>4, <1>5, <1>6, Upwards
<1>8. Ends(k)
  BY <1>6, <1>7
<1> QED
  BY <1>1, <1>8 DEF Ends

-----------------------------------------------------------------------------
(* The invariant.  The parser: where it is, and what it has found.         *)

IsSegments(s) ==
  /\ Len(s) \in Nat /\ s \in Seq({s[k] : k \in DOMAIN s})
  /\ \A k \in DOMAIN s : IsSegment(s[k])

Parsed ==
  /\ text \in Texts /\ i \in 0 .. n
  /\ phase \in {"parse", "walk", "found", "error"}
  /\ IsSegments(segs)
  /\ phase = "error" <=> error # <<>>
  /\ phase = "error" => error[2] \in 0 .. n \/ error[2] \in 0 .. Len(segs)

\* The walk: it is the only one that its segments allow, and where it fails
\* there is no way on.
Walked ==
  /\ step \in 0 .. Len(segs)
  /\ cur \in Seq(Nat) /\ Len(cur) = step
  /\ phase = "parse" => root = NoTree /\ step = 0
  /\ phase # "parse" /\ root # NoTree => root \in Nodes /\ Cur \in Nodes
  /\ phase = "walk" => root \in Nodes /\ Cur \in Nodes
  /\ \A m \in 1 .. step :
       Named(Along(root, cur)[m - 1], segs[m]) = {cur[m]}
  /\ phase = "found" => step = Len(segs)
  /\ phase = "error" /\ root # NoTree =>
       step < Len(segs) /\ Named(Cur, segs[step + 1]) = {}

PathInv == Parsed /\ Walked

LEMMA MaxOfTwo ==
  ASSUME NEW x \in Nat, NEW y \in Nat, NEW z, z \in 0 .. x \/ z \in 0 .. y
  PROVE  z \in 0 .. Max({x, y})
<1>1. \E m \in {x, y} : \A k \in {x, y} : m >= k
  <2>1. CASE x >= y
    BY <2>1
  <2>2. CASE y >= x
    BY <2>2
  <2> QED
    BY <2>1, <2>2
<1>2. Max({x, y}) \in {x, y} /\ \A k \in {x, y} : Max({x, y}) >= k
  BY <1>1 DEF Max
<1> QED
  BY <1>2

LEMMA InvTypeOK == PathInv => PathTypeOK
<1> SUFFICES ASSUME PathInv PROVE PathTypeOK
  OBVIOUS
<1> USE DEF PathInv
<1>1. n \in Nat /\ Len(segs) \in Nat
  BY PathAssumption DEF Parsed, IsSegments, n
<1>2. phase = "error" => error[2] \in 0 .. Max({n, Len(segs)})
  BY <1>1, MaxOfTwo DEF Parsed
<1>3. ASSUME NEW k \in DOMAIN segs, segs[k].kind = "Index"
      PROVE  segs[k].of \in 0 .. kMaxIndex
  BY <1>3 DEF Parsed, IsSegments, IsSegment, Key, Index
<1>4. ASSUME NEW k \in DOMAIN cur
      PROVE  cur[k] \in DOMAIN Along(root, cur)[k - 1][2]
  <2>1. k \in 1 .. step
    BY <1>1 DEF Walked
  <2>2. cur[k] \in Named(Along(root, cur)[k - 1], segs[k])
    BY <2>1 DEF Walked
  <2> QED
    BY <2>2 DEF Named, Children
<1> QED
  BY <1>2, <1>3, <1>4 DEF PathTypeOK, Parsed, Walked

LEMMA WayWalked ==
  ASSUME PathInv
  PROVE  /\ Len(segs) \in Nat /\ DOMAIN segs = 1 .. Len(segs)
         /\ step \in 0 .. Len(segs) /\ cur \in Seq(Nat) /\ Len(cur) = step
         /\ \A m \in 1 .. step :
              Named(Along(root, cur)[m - 1], segs[m]) = {cur[m]}
<1>1. /\ step \in 0 .. Len(segs) /\ cur \in Seq(Nat) /\ Len(cur) = step
      /\ \A m \in 1 .. step :
           Named(Along(root, cur)[m - 1], segs[m]) = {cur[m]}
  BY DEF PathInv, Walked
<1>2. Len(segs) \in Nat /\ DOMAIN segs = 1 .. Len(segs)
  BY DEF PathInv, Parsed, IsSegments
<1> QED
  BY <1>1, <1>2

\* Whatever node the segments lead to, it is on the way that was walked.
LEMMA OneWay ==
  ASSUME PathInv, NEW at, Leads(at)
  PROVE  /\ at \in Seq(Nat) /\ Len(at) = Len(segs)
         /\ \A m \in 1 .. step : at[m] = cur[m]
         /\ \A m \in 0 .. step : Along(root, at)[m] = Along(root, cur)[m]
<1>1. /\ Len(segs) \in Nat /\ DOMAIN segs = 1 .. Len(segs)
      /\ step \in 0 .. Len(segs) /\ cur \in Seq(Nat) /\ Len(cur) = step
      /\ \A m \in 1 .. step :
           Named(Along(root, cur)[m - 1], segs[m]) = {cur[m]}
  BY WayWalked
<1>2. /\ at \in Seq(Nat) /\ Len(at) = Len(segs)
      /\ \A m \in 1 .. Len(segs) :
           at[m] \in Named(Along(root, at)[m - 1], segs[m])
  BY <1>1 DEF Leads
<1>3. ASSUME NEW m \in Nat, m <= step, \A q \in 1 .. m : at[q] = cur[q]
      PROVE  \A q \in 0 .. m : Along(root, at)[q] = Along(root, cur)[q]
  <2>1. Len(at) \in Nat /\ Len(cur) \in Nat /\ m <= Len(at) /\ m <= Len(cur)
    BY <1>1, <1>2, <1>3
  <2> QED
    BY <1>3, <2>1, AlongSame
<1> DEFINE S == {m \in Nat : m <= step => \A q \in 1 .. m : at[q] = cur[q]}
<1>4. 0 \in S
  OBVIOUS
<1>5. ASSUME NEW m \in Nat, m \in S PROVE m + 1 \in S
  <2> SUFFICES ASSUME m + 1 <= step, NEW q \in 1 .. m + 1
               PROVE  at[q] = cur[q]
    OBVIOUS
  <2>1. m <= step /\ \A x \in 1 .. m : at[x] = cur[x]
    BY <1>1, <1>5
  <2>2. CASE q # m + 1
    BY <2>1, <2>2
  <2>3. CASE q = m + 1
    <3>1. Along(root, at)[m] = Along(root, cur)[m]
      BY <1>3, <2>1
    <3>2. /\ m + 1 \in 1 .. step /\ m + 1 \in 1 .. Len(segs)
          /\ (m + 1) - 1 = m
      BY <1>1
    <3>3. at[m + 1] \in Named(Along(root, at)[m], segs[m + 1])
      BY <1>2, <3>2
    <3>4. Named(Along(root, cur)[m], segs[m + 1]) = {cur[m + 1]}
      BY <1>1, <3>2
    <3> QED
      BY <2>3, <3>1, <3>3, <3>4
  <2> QED
    BY <2>2, <2>3
<1>6. step \in S
  <2> HIDE DEF S
  <2> QED
    BY <1>1, <1>4, <1>5, Upwards
<1>7. \A q \in 1 .. step : at[q] = cur[q]
  BY <1>1, <1>6
<1>8. \A q \in 0 .. step : Along(root, at)[q] = Along(root, cur)[q]
  BY <1>1, <1>3, <1>7
<1> QED
  BY <1>2, <1>7, <1>8

LEMMA InvFinds == PathInv => FindsTheNode
<1> SUFFICES ASSUME PathInv PROVE FindsTheNode
  OBVIOUS
<1>1. /\ Len(segs) \in Nat /\ DOMAIN segs = 1 .. Len(segs)
      /\ step \in 0 .. Len(segs) /\ cur \in Seq(Nat) /\ Len(cur) = step
      /\ \A m \in 1 .. step :
           Named(Along(root, cur)[m - 1], segs[m]) = {cur[m]}
  BY WayWalked
<1>2. ASSUME phase = "found"
      PROVE  Leads(cur) /\ \A at \in Places : Leads(at) => at = cur
  <2>1. step = Len(segs)
    BY <1>2 DEF PathInv, Walked
  <2>2. cur \in [DOMAIN segs -> Nat]
    BY <1>1, <2>1
  <2>3. Leads(cur)
    BY <1>1, <2>1, <2>2 DEF Leads
  <2>4. ASSUME NEW at, Leads(at) PROVE at = cur
    <3>1. /\ at \in Seq(Nat) /\ Len(at) = Len(segs)
          /\ \A m \in 1 .. step : at[m] = cur[m]
      BY <2>4, OneWay
    <3>2. Len(at) = Len(cur) /\ \A m \in 1 .. Len(cur) : at[m] = cur[m]
      BY <1>1, <2>1, <3>1
    <3> QED
      BY <1>1, <3>1, <3>2, SeqEqual
  <2> QED
    BY <2>3, <2>4
<1>3. ASSUME phase = "error", root # NoTree, NEW at, Leads(at) PROVE FALSE
  <2>1. step < Len(segs) /\ Named(Along(root, cur)[step], segs[step + 1]) = {}
    BY <1>1, <1>3 DEF PathInv, Walked, Cur, NodeAt
  <2>2. Along(root, at)[step] = Along(root, cur)[step]
    BY <1>1, <1>3, OneWay
  <2>3. step + 1 \in DOMAIN segs /\ (step + 1) - 1 = step
    BY <1>1, <2>1
  <2>4. at[step + 1] \in Named(Along(root, at)[step], segs[step + 1])
    BY <1>3, <2>3 DEF Leads
  <2> QED
    BY <2>1, <2>2, <2>4
<1> QED
  BY <1>2, <1>3, InvTypeOK DEF FindsTheNode

-----------------------------------------------------------------------------
(* Every step keeps the invariant.                                         *)

LEMMA PathInitInv == PathInit => PathInv
<1> SUFFICES ASSUME PathInit PROVE PathInv
  OBVIOUS
<1>1. Len(text) \in Nat
  BY PathAssumption DEF PathInit
<1>2. IsSegments(<<>>)
  BY DEF IsSegments
<1>3. Parsed
  BY <1>1, <1>2 DEF PathInit, Parsed, n
<1>4. Walked
  BY DEF PathInit, Walked
<1> QED
  BY <1>3, <1>4 DEF PathInv

LEMMA OneMoreSegment ==
  ASSUME NEW s, IsSegments(s), NEW e, IsSegment(e)
  PROVE  IsSegments(Append(s, e)) /\ Len(Append(s, e)) = Len(s) + 1
<1> DEFINE A == {s[k] : k \in DOMAIN s}
           t == Append(s, e)
<1>1. Len(s) \in Nat /\ s \in Seq(A) /\ \A k \in DOMAIN s : IsSegment(s[k])
  BY DEF IsSegments
<1>2. s \in Seq(A \cup {e})
  <2> HIDE DEF A
  <2> QED
    BY <1>1
<1>3. /\ Len(t) = Len(s) + 1 /\ DOMAIN t = 1 .. Len(s) + 1
      /\ DOMAIN s = 1 .. Len(s)
      /\ t[Len(s) + 1] = e /\ \A k \in 1 .. Len(s) : t[k] = s[k]
  <2> HIDE DEF A
  <2> QED
    BY <1>1, <1>2
<1>4. t = [k \in 1 .. Len(s) + 1 |-> t[k]]
  <2> HIDE DEF A
  <2>1. t \in Seq(A \cup {e})
    BY <1>2
  <2> HIDE DEF t
  <2> QED
    BY <1>3, <2>1
<1> HIDE DEF A, t
<1>5. \A k \in DOMAIN t : IsSegment(t[k])
  <2> SUFFICES ASSUME NEW k \in 1 .. Len(s) + 1 PROVE IsSegment(t[k])
    BY <1>3
  <2>1. CASE k = Len(s) + 1
    BY <1>3, <2>1
  <2>2. CASE k # Len(s) + 1
    <3>1. k \in 1 .. Len(s)
      BY <1>1, <2>2
    <3> QED
      BY <1>1, <1>3, <3>1
  <2> QED
    BY <2>1, <2>2
<1> DEFINE B == {t[k] : k \in DOMAIN t}
<1>6. t \in Seq(B)
  <2>1. \A k \in 1 .. Len(s) + 1 : t[k] \in B
    BY <1>3
  <2>2. Len(s) + 1 \in Nat
    BY <1>1
  <2> HIDE DEF B
  <2> QED
    BY <1>4, <2>1, <2>2
<1>7. Len(t) \in Nat
  BY <1>1, <1>3
<1> QED
  BY <1>3, <1>5, <1>6, <1>7 DEF IsSegments, t

LEMMA AddInvPath ==
  ASSUME PathInv, phase = "parse", NEW e, IsSegment(e), NEW next \in 0 .. n,
         AddSegment(e, next)
  PROVE  PathInv'
<1>1. /\ IsSegments(Append(segs, e))
      /\ Len(Append(segs, e)) = Len(segs) + 1 /\ Len(segs) \in Nat
  BY OneMoreSegment DEF PathInv, Parsed, IsSegments
<1>2. /\ segs' = Append(segs, e) /\ i' = next
      /\ UNCHANGED <<text, phase, root, overload, step, cur, error>>
  BY DEF AddSegment
<1>3. Parsed'
  BY <1>1, <1>2 DEF PathInv, Parsed, n
<1>4. step = 0 /\ root = NoTree /\ cur \in Seq(Nat) /\ Len(cur) = step
  BY DEF PathInv, Walked
<1>5. Walked'
  BY <1>1, <1>2, <1>4 DEF Walked
<1> QED
  BY <1>3, <1>5 DEF PathInv

LEMMA ParseFails ==
  ASSUME PathInv, phase = "parse", NEW code, NEW where, Fail(code, where),
         where \in 0 .. n \/ where \in 0 .. Len(segs)
  PROVE  PathInv'
<1>1. /\ phase' = "error" /\ error' = <<code, where>>
      /\ UNCHANGED <<text, i, segs, root, overload, step, cur>>
  BY DEF Fail
<1>2. Parsed'
  BY <1>1 DEF PathInv, Parsed, n
<1>3. /\ step = 0 /\ root = NoTree /\ cur \in Seq(Nat) /\ Len(cur) = step
      /\ step \in 0 .. Len(segs)
  BY DEF PathInv, Walked
<1>4. Walked'
  BY <1>1, <1>3 DEF Walked
<1> QED
  BY <1>2, <1>4 DEF PathInv

LEMMA WalkFails ==
  ASSUME PathInv, phase = "walk", step < Len(segs), NEW code,
         Fail(code, step), Named(Cur, segs[step + 1]) = {}
  PROVE  PathInv'
<1>1. /\ phase' = "error" /\ error' = <<code, step>>
      /\ UNCHANGED <<text, i, segs, root, overload, step, cur>>
  BY DEF Fail
<1>2. step \in 0 .. Len(segs)
  BY DEF PathInv, Walked
<1>3. Parsed'
  BY <1>1, <1>2 DEF PathInv, Parsed, n
<1>4. Cur' = Cur
  BY <1>1 DEF Cur, NodeAt
<1>5. Walked'
  BY <1>1, <1>4 DEF PathInv, Walked
<1> QED
  BY <1>3, <1>5 DEF PathInv

LEMMA GoesOn ==
  ASSUME PathInv, phase = "walk", step < Len(segs), NEW k, Go(k),
         Named(Cur, segs[step + 1]) = {k}
  PROVE  PathInv'
<1>1. /\ cur' = Append(cur, k) /\ step' = step + 1
      /\ UNCHANGED <<text, i, segs, phase, root, overload, error>>
  BY DEF Go
<1>2. /\ Len(segs) \in Nat /\ step \in 0 .. Len(segs)
      /\ cur \in Seq(Nat) /\ Len(cur) = step
      /\ \A m \in 1 .. step :
           Named(Along(root, cur)[m - 1], segs[m]) = {cur[m]}
  BY WayWalked
<1>3. Cur \in Nodes /\ root \in Nodes
  BY DEF PathInv, Walked
<1>4. k \in Children(Cur)
  BY DEF Named
<1>5. k \in Nat /\ Child(Cur, k) \in Nodes
  BY <1>3, <1>4, NodesAre DEF Children, IsNode
<1>6. /\ \A m \in 0 .. step : Along(root, cur')[m] = Along(root, cur)[m]
      /\ Along(root, cur')[step + 1] = Child(Along(root, cur)[step], k)
  BY <1>1, <1>2, <1>5, AlongAppend
<1>7. /\ cur' \in Seq(Nat) /\ Len(cur') = step + 1 /\ cur'[step + 1] = k
      /\ \A m \in 1 .. step : cur'[m] = cur[m]
  BY <1>1, <1>2, <1>5
<1>8. Cur' \in Nodes
  <2>1. Cur' = Along(root, cur')[step + 1]
    BY <1>1, <1>7 DEF Cur, NodeAt
  <2>2. Cur = Along(root, cur)[step]
    BY <1>2 DEF Cur, NodeAt
  <2> QED
    BY <1>5, <1>6, <2>1, <2>2
<1>9. ASSUME NEW m \in 1 .. step + 1
      PROVE  Named(Along(root, cur')[m - 1], segs[m]) = {cur'[m]}
  <2>1. CASE m = step + 1
    <3>1. (step + 1) - 1 = step /\ step \in 0 .. step
      BY <1>2
    <3>2. Cur = Along(root, cur)[step]
      BY <1>2 DEF Cur, NodeAt
    <3> QED
      BY <1>6, <1>7, <2>1, <3>1, <3>2
  <2>2. CASE m # step + 1
    <3>1. m \in 1 .. step /\ m - 1 \in 0 .. step
      BY <1>2, <2>2
    <3> QED
      BY <1>2, <1>6, <1>7, <3>1
  <2> QED
    BY <2>1, <2>2
<1>10. Parsed'
  BY <1>1 DEF PathInv, Parsed, n
<1>11. step + 1 \in 0 .. Len(segs)
  BY <1>2
<1>12. Walked'
  BY <1>1, <1>3, <1>7, <1>8, <1>9, <1>11 DEF Walked
<1> QED
  BY <1>10, <1>12 DEF PathInv

LEMMA EnterInv ==
  ASSUME PathInv, Finished, NEW r \in Roots, NEW o, Enter(r, o)
  PROVE  PathInv'
<1>1. /\ phase' = "walk" /\ root' = r
      /\ UNCHANGED <<text, i, segs, step, cur, error>>
  BY DEF Enter
<1>2. /\ phase = "parse" /\ step = 0 /\ cur \in Seq(Nat) /\ Len(cur) = 0
      /\ step \in 0 .. Len(segs)
  BY DEF PathInv, Walked, Finished
<1>3. cur = <<>>
  BY <1>2
<1>4. r \in Nodes
  BY PathAssumption
<1>5. Cur' = r
  <2>1. Cur' = Along(r, <<>>)[Len(<<>>)]
    BY <1>1, <1>3 DEF Cur, NodeAt
  <2>2. Len(<<>>) = 0
    OBVIOUS
  <2> QED
    BY <2>1, <2>2, AtTheTop
<1>6. Parsed'
  BY <1>1, <1>2 DEF PathInv, Parsed, n
<1>7. Walked'
  BY <1>1, <1>2, <1>4, <1>5 DEF Walked
<1> QED
  BY <1>6, <1>7 DEF PathInv

LEMMA StartsInText ==
  ASSUME PathInv, Parsing
  PROVE  n \in Nat /\ phase = "parse" /\ SegmentStart \in 0 .. n
<1>1. n \in Nat /\ i \in 0 .. n /\ phase = "parse" /\ i < n
  BY PathAssumption DEF PathInv, Parsed, Parsing, n
<1> QED
  BY <1>1 DEF SegmentStart

LEMMA QuotedKeyInv ==
  ASSUME PathInv, ParseQuotedKey PROVE PathInv'
<1> DEFINE s == SegmentStart + 1
<1>1. /\ n \in Nat /\ phase = "parse" /\ SegmentStart \in 0 .. n
      /\ SegmentStart + 1 < n
  BY StartsInText DEF ParseQuotedKey, Bracket
<1>2. PICK q : /\ q = quoted_key(s + 1, At(s))
               /\ IF q.ok /\ q.end < n /\ text[q.end + 1] = "]"
                  THEN AddSegment(Key(q.key), q.end + 1)
                  ELSE Fail("SnbtSyntax", q.end)
  BY DEF ParseQuotedKey
<1>3. s + 1 \in 0 .. n
  BY <1>1
<1>4. q.end \in 0 .. n
  <2>1. q.end \in s + 1 .. n
    BY <1>1, <1>2, <1>3, QuotedEnds
  <2> QED
    BY <1>3, <2>1
<1>5. CASE q.ok /\ q.end < n /\ text[q.end + 1] = "]"
  <2>1. q.end + 1 \in 0 .. n
    BY <1>1, <1>4, <1>5
  <2>2. IsSegment(Key(q.key))
    BY DEF IsSegment, Key
  <2> QED
    BY <1>1, <1>2, <1>5, <2>1, <2>2, AddInvPath
<1>6. CASE ~ (q.ok /\ q.end < n /\ text[q.end + 1] = "]")
  BY <1>1, <1>2, <1>4, <1>6, ParseFails
<1> QED
  BY <1>5, <1>6

LEMMA IndexInv ==
  ASSUME PathInv, ParseIndex PROVE PathInv'
<1>1. /\ n \in Nat /\ phase = "parse" /\ SegmentStart \in 0 .. n
      /\ SegmentStart + 1 < n
  BY StartsInText DEF ParseIndex, Bracket
<1>2. PICK s : s = SegmentStart + 1
  OBVIOUS
<1>3. PICK e : e = RunEnd(s, is_digit)
  OBVIOUS
<1>4. PICK x : x = from_chars(s, e)
  OBVIOUS
<1>5. IF e = s THEN Fail("SnbtSyntax", s)
      ELSE IF x > kMaxIndex THEN Fail("SnbtNumberOutOfRange", s)
      ELSE IF e < n /\ text[e + 1] = "]" THEN AddSegment(Index(x), e + 1)
      ELSE Fail("SnbtSyntax", e)
  BY <1>2, <1>3, <1>4 DEF ParseIndex
<1>6. s \in 0 .. n
  BY <1>1, <1>2
<1>7. e \in s .. n /\ \A m \in s .. e - 1 : is_digit(At(m))
  BY <1>1, <1>3, <1>6, DigitsEnd
<1>8. s \in Nat /\ e \in Nat /\ s <= e /\ e \in 0 .. n
  BY <1>6, <1>7
<1>9. x \in Nat
  BY <1>4, <1>7, <1>8, FromCharsIs
<1>10. ASSUME NEW code, NEW where \in 0 .. n, Fail(code, where)
       PROVE  PathInv'
  BY <1>1, <1>10, ParseFails
<1>11. ASSUME ~ (x > kMaxIndex), e < n, AddSegment(Index(x), e + 1)
       PROVE  PathInv'
  <2>1. e + 1 \in 0 .. n
    BY <1>1, <1>8, <1>11
  <2>2. x \in 0 .. kMaxIndex
    BY <1>9, <1>11, PathAssumption
  <2>3. IsSegment(Index(x))
    BY <2>2 DEF IsSegment, Index
  <2> QED
    BY <1>1, <1>11, <2>1, <2>3, AddInvPath
<1> QED
  BY <1>5, <1>6, <1>8, <1>10, <1>11

LEMMA KeyInv ==
  ASSUME PathInv, ParseKey PROVE PathInv'
<1>1. /\ n \in Nat /\ phase = "parse" /\ SegmentStart \in 0 .. n
  BY StartsInText DEF ParseKey
<1>2. PICK s : s = SegmentStart
  OBVIOUS
<1>3. PICK e : e = RunEnd(s, is_unquoted_id_char)
  OBVIOUS
<1>4. IF e = s THEN Fail("SnbtSyntax", s)
      ELSE AddSegment(Key(SubSeq(text, s + 1, e)), e)
  BY <1>2, <1>3 DEF ParseKey
<1>5. s \in 0 .. n
  BY <1>1, <1>2
<1>6. e \in s .. n
  BY <1>1, <1>3, <1>5, KeyEnd
<1>7. e \in 0 .. n
  BY <1>5, <1>6
<1>8. IsSegment(Key(SubSeq(text, s + 1, e)))
  BY DEF IsSegment, Key
<1>9. CASE e = s
  BY <1>1, <1>4, <1>5, <1>9, ParseFails
<1>10. CASE e # s
  BY <1>1, <1>4, <1>7, <1>8, <1>10, AddInvPath
<1> QED
  BY <1>9, <1>10

\* What the walk knows of the segment it is at.
LEMMA AtSegment ==
  ASSUME PathInv, NEW kind, Walking(kind)
  PROVE  /\ phase = "walk" /\ step < Len(segs) /\ Cur \in Nodes
         /\ IsSegment(segs[step + 1]) /\ segs[step + 1].kind = kind
<1>1. phase = "walk" /\ step < Len(segs) /\ segs[step + 1].kind = kind
  BY DEF Walking
<1>2. Cur \in Nodes
  BY <1>1 DEF PathInv, Walked
<1>3. step + 1 \in DOMAIN segs
  BY <1>1, WayWalked
<1>4. IsSegment(segs[step + 1])
  BY <1>3 DEF PathInv, Parsed, IsSegments
<1> QED
  BY <1>1, <1>2, <1>4

LEMMA WalkKeyInv ==
  ASSUME PathInv, WalkKey PROVE PathInv'
<1>1. /\ phase = "walk" /\ step < Len(segs) /\ Cur \in Nodes
      /\ IsSegment(segs[step + 1]) /\ segs[step + 1].kind = "Key"
  BY AtSegment DEF WalkKey
<1>2. PICK key : key = segs[step + 1].of
  OBVIOUS
<1>3. segs[step + 1] = Key(key)
  BY <1>1, <1>2 DEF IsSegment, Index
<1>4. PICK k : k = find(Cur[2], key)
  OBVIOUS
<1>5. IF Cur[1] # "Compound" THEN Fail("UnexpectedRootType", step)
      ELSE IF k = 0 THEN Fail("UnknownTagId", step) ELSE Go(k)
  BY <1>2, <1>4 DEF WalkKey
<1>6. CASE Cur[1] # "Compound"
  <2>1. Named(Cur, segs[step + 1]) = {}
    BY <1>3, <1>6, WrongKind
  <2> QED
    BY <1>1, <1>5, <1>6, <2>1, WalkFails
<1>7. CASE Cur[1] = "Compound"
  <2>1. Named(Cur, segs[step + 1]) = IF k = 0 THEN {} ELSE {k}
    BY <1>1, <1>3, <1>4, <1>7, KeyNames
  <2>2. CASE k = 0
    BY <1>1, <1>5, <1>7, <2>1, <2>2, WalkFails
  <2>3. CASE k # 0
    BY <1>1, <1>5, <1>7, <2>1, <2>3, GoesOn
  <2> QED
    BY <2>2, <2>3
<1> QED
  BY <1>6, <1>7

LEMMA WalkIndexInv ==
  ASSUME PathInv, WalkIndex PROVE PathInv'
<1>1. /\ phase = "walk" /\ step < Len(segs) /\ Cur \in Nodes
      /\ IsSegment(segs[step + 1]) /\ segs[step + 1].kind = "Index"
  BY AtSegment DEF WalkIndex
<1>2. PICK x : x = segs[step + 1].of
  OBVIOUS
<1>3. segs[step + 1] = Index(x) /\ x \in Nat
  <2>1. segs[step + 1] # Key(x)
    BY <1>1 DEF Key
  <2> QED
    BY <1>1, <1>2, <2>1, PathAssumption DEF IsSegment
<1>4. IF Cur[1] # "List" THEN Fail("UnexpectedRootType", step)
      ELSE IF x >= Len(Cur[2]) THEN Fail("LengthOverflow", step)
      ELSE Go(x + 1)
  BY <1>2 DEF WalkIndex
<1>5. CASE Cur[1] # "List"
  <2>1. Named(Cur, segs[step + 1]) = {}
    BY <1>3, <1>5, WrongKind
  <2> QED
    BY <1>1, <1>4, <1>5, <2>1, WalkFails
<1>6. CASE Cur[1] = "List"
  <2>1. Named(Cur, segs[step + 1]) =
          IF x >= Len(Cur[2]) THEN {} ELSE {x + 1}
    BY <1>1, <1>3, <1>6, IndexNames
  <2>2. CASE x >= Len(Cur[2])
    BY <1>1, <1>4, <1>6, <2>1, <2>2, WalkFails
  <2>3. CASE ~ (x >= Len(Cur[2]))
    BY <1>1, <1>4, <1>6, <2>1, <2>3, GoesOn
  <2> QED
    BY <2>2, <2>3
<1> QED
  BY <1>5, <1>6

LEMMA ArriveInv ==
  ASSUME PathInv, Arrive PROVE PathInv'
<1>1. /\ phase = "walk" /\ phase' = "found" /\ step = Len(segs)
      /\ UNCHANGED <<text, i, segs, root, overload, step, cur, error>>
  BY DEF Arrive
<1>2. Parsed'
  BY <1>1 DEF PathInv, Parsed, n
<1>3. Cur' = Cur
  BY <1>1 DEF Cur, NodeAt
<1>4. Walked'
  BY <1>1, <1>3 DEF PathInv, Walked
<1> QED
  BY <1>2, <1>4 DEF PathInv

LEMMA PathNextInv == PathInv /\ [PathNext]_pathVars => PathInv'
<1> SUFFICES ASSUME PathInv, [PathNext]_pathVars PROVE PathInv'
  OBVIOUS
<1>1. ASSUME ParseCutShort PROVE PathInv'
  <2>1. /\ n \in Nat /\ phase = "parse" /\ Fail("SnbtSyntax", n)
    BY <1>1, StartsInText DEF ParseCutShort
  <2>2. n \in 0 .. n
    BY <2>1
  <2> QED
    BY <2>1, <2>2, ParseFails
<1>2. ASSUME GetAtValue PROVE PathInv'
  BY <1>2, EnterInv DEF GetAtValue
<1>3. ASSUME GetAtCompound PROVE PathInv'
  <2>1. Finished /\ phase = "parse"
    BY <1>3 DEF GetAtCompound, Finished
  <2>2. CASE segs = <<>> \/ segs[1].kind # "Key"
    <3>1. Fail("UnexpectedRootType", 0)
      BY <1>3, <2>2 DEF GetAtCompound
    <3>2. 0 \in 0 .. Len(segs)
      BY WayWalked
    <3> QED
      BY <2>1, <3>1, <3>2, ParseFails
  <2>3. CASE ~ (segs = <<>> \/ segs[1].kind # "Key")
    <3>1. PICK r \in Roots : Enter(r, "Compound")
      BY <1>3, <2>3 DEF GetAtCompound
    <3> QED
      BY <2>1, <3>1, EnterInv
  <2> QED
    BY <2>2, <2>3
<1>4. CASE UNCHANGED pathVars
  <2>1. UNCHANGED <<text, i, segs, phase, root, overload, step, cur, error>>
    BY <1>4 DEF pathVars
  <2>2. Parsed'
    BY <2>1 DEF PathInv, Parsed, n
  <2>3. Cur' = Cur
    BY <2>1 DEF Cur, NodeAt
  <2>4. Walked'
    BY <2>1, <2>3 DEF PathInv, Walked
  <2> QED
    BY <2>2, <2>4 DEF PathInv
<1> QED
  BY <1>1, <1>2, <1>3, <1>4, QuotedKeyInv, IndexInv, KeyInv, WalkKeyInv,
     WalkIndexInv, ArriveInv
     DEF PathNext

\* parse_path stays inside its text and the walk inside its tree, and an error
\* says where: a place in the text or a segment (path.cpp:36-174).
THEOREM PathTypeCorrect == PathSpec => []PathTypeOK
BY PathInitInv, PathNextInv, InvTypeOK, PTL DEF PathSpec

\* get_at finds the one node that the segments lead to, through either
\* overload, and fails only where they lead to none (path.cpp:133-219).
THEOREM GetAtFinds == PathSpec => []FindsTheNode
BY PathInitInv, PathNextInv, InvFinds, PTL DEF PathSpec

=============================================================================
