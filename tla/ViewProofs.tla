----------------------------- MODULE ViewProofs -----------------------------
(***************************************************************************)
(* ViewNames for any number of View objects, blocks and names; NbtView for *)
(* any buffer.                                                             *)
(***************************************************************************)
EXTENDS ViewNames, NbtView, CodecProofs

\* Owners and blocks, one to one.
HeapInv ==
  /\ \A o \in Objects, b \in Blocks :
       owned[o] = InBlock(b) => heap[b] = root[o] /\ heap[b] # Free
  /\ \A o, p \in Objects, b \in Blocks :
       owned[o] = InBlock(b) /\ owned[p] = InBlock(b) => o = p
  /\ \A b \in Blocks : heap[b] # Free => \E o \in Objects : owned[o] = InBlock(b)

\* A view that was only moved points at what it owns, unless that is inside it.
MovesInv ==
  \A o \in moves :
    /\ Alive(o)
    /\ root[o] \in Plain => ptr[o] = ToBuffer
    /\ root[o] \in Long => \E b \in Blocks : owned[o] = InBlock(b) /\ ptr[o] = ToBlock(b)
    /\ root[o] \in Names

Inv == TypeOK /\ HeapInv /\ MovesInv

-----------------------------------------------------------------------------

\* The kinds of string differ.
LEMMA StringFacts ==
  /\ Dead.at = "dead" /\ Empty.at = "empty"
  /\ \A n : Inside(n).at = "inside"
  /\ \A b : InBlock(b).at = "block" /\ InBlock(b).block = b
BY DEF Dead, Empty, Inside, InBlock

LEMMA StringKinds ==
  /\ \A b, c : InBlock(b) = InBlock(c) => b = c
  /\ \A b : InBlock(b) # Dead /\ InBlock(b) # Empty
  /\ \A b, n : InBlock(b) # Inside(n)
BY StringFacts

LEMMA BlockString ==
  ASSUME TypeOK, NEW o \in Objects, owned[o].at = "block"
  PROVE  \E b \in Blocks : owned[o] = InBlock(b) /\ owned[o].block = b
BY StringFacts DEF TypeOK, Strings

LEMMA InitInv == Init => Inv
<1> SUFFICES ASSUME Init PROVE Inv
  OBVIOUS
<1>1. TypeOK
  BY DEF Init, TypeOK, Strings, Targets
<1>2. HeapInv /\ MovesInv
  BY StringKinds DEF Init, HeapInv, MovesInv
<1> QED
  BY <1>1, <1>2 DEF Inv

-----------------------------------------------------------------------------
(* Decoding, copying, moving and destroying, one lemma each.               *)

\* A view whose name is not in a block.
LEMMA DecodeKeeps ==
  ASSUME Inv, NEW o \in Objects, NEW n \in Plain \cup Short, NEW p \in Targets,
         ~ Alive(o), n \in Plain => p = ToBuffer,
         Becomes(o, Empty, p, n) \/ (n \in Short /\ Becomes(o, Inside(n), p, n)),
         heap' = heap
  PROVE  Inv'
<1> USE StringFacts, StringKinds
<1>0. TypeOK /\ HeapInv /\ MovesInv
  BY DEF Inv
<1>1. PICK s \in Strings : Becomes(o, s, p, n) /\ s.at # "dead" /\ s.at # "block"
  BY DEF Strings
<1>2. TypeOK'
  BY <1>0, <1>1 DEF TypeOK, Becomes, Names
<1>3. \A b \in Blocks : s # InBlock(b) /\ owned[o] # InBlock(b)
  BY <1>1 DEF Alive
<1>4. \A q \in Objects, b \in Blocks : owned'[q] = InBlock(b) <=> owned[q] = InBlock(b)
  BY <1>0, <1>1, <1>3 DEF TypeOK, Becomes
<1>5. \A q \in Objects : q # o => root'[q] = root[q] /\ ptr'[q] = ptr[q] /\ owned'[q] = owned[q]
  BY <1>0, <1>1 DEF TypeOK, Becomes
<1>6. owned'[o] = s /\ root'[o] = n /\ ptr'[o] = p
  BY <1>0, <1>1 DEF TypeOK, Becomes
<1>7. HeapInv'
  BY <1>0, <1>3, <1>4, <1>5 DEF HeapInv
<1>8. MovesInv'
  BY <1>0, <1>1, <1>5, <1>6, NamesAreDistinct DEF TypeOK, MovesInv, Becomes, Alive, Names
<1> QED
  BY <1>2, <1>7, <1>8 DEF Inv

LEMMA DecodeLongKeeps ==
  ASSUME Inv, NEW o \in Objects, NEW c \in Blocks, NEW n \in Long, DecodeLong(o, c, n)
  PROVE  Inv'
<1> USE StringFacts, StringKinds
<1>0. TypeOK /\ HeapInv /\ MovesInv /\ ~ Alive(o) /\ heap[c] = Free
  BY DEF Inv, DecodeLong, FreeBlocks
<1>1. /\ \A q \in Objects : q # o =>
           root'[q] = root[q] /\ ptr'[q] = ptr[q] /\ owned'[q] = owned[q]
      /\ owned'[o] = InBlock(c) /\ root'[o] = n /\ ptr'[o] = ToBlock(c)
      /\ \A b \in Blocks : b # c => heap'[b] = heap[b]
      /\ heap'[c] = n /\ moves' = moves \cup {o}
  BY <1>0 DEF TypeOK, Becomes, DecodeLong
<1>2. TypeOK'
  BY <1>0 DEF TypeOK, Becomes, DecodeLong, Strings, Targets, Names
<1>3. n # Free
  BY NamesAreDistinct DEF Names
<1>4. \A q \in Objects : owned[q] # InBlock(c)
  BY <1>0 DEF HeapInv
<1>5. HeapInv'
  <2>1. \A q \in Objects, b \in Blocks :
          owned'[q] = InBlock(b) <=> (IF q = o THEN b = c ELSE owned[q] = InBlock(b))
    BY <1>1
  <2>2. \A b \in Blocks : owned[o] # InBlock(b)
    BY <1>0 DEF Alive
  <2>3. \A b \in Blocks :
          heap'[b] # Free => \E q \in Objects : owned'[q] = InBlock(b)
    BY <1>0, <1>1, <2>1, <2>2 DEF HeapInv
  <2> QED
    BY <1>0, <1>1, <1>3, <1>4, <2>1, <2>3 DEF HeapInv
<1>6. MovesInv'
  BY <1>0, <1>1, NamesAreDistinct DEF TypeOK, MovesInv, Alive, Names
<1> QED
  BY <1>2, <1>5, <1>6 DEF Inv

LEMMA CopyKeeps ==
  ASSUME Inv, NEW old \in Objects, NEW to \in Objects, Copy(old, to)
  PROVE  Inv'
<1> USE StringFacts, StringKinds
<1>0. TypeOK /\ HeapInv /\ MovesInv /\ Alive(old) /\ ~ Alive(to)
  BY DEF Inv, Copy
<1>1. PICK s \in Strings :
        /\ IF owned[old].at = "block" THEN \E c \in FreeBlocks : s = InBlock(c)
           ELSE s = owned[old]
        /\ owned' = [owned EXCEPT ![to] = s]
        /\ heap' = [b \in Blocks |->
                      IF s.at = "block" /\ s = InBlock(b)
                      THEN heap[owned[old].block] ELSE heap[b]]
  <2>1. PICK s \in IF owned[old].at = "block" THEN {InBlock(b) : b \in FreeBlocks}
                  ELSE {owned[old]} :
          /\ owned' = [owned EXCEPT ![to] = s]
          /\ heap' = [b \in Blocks |->
                        IF s.at = "block" /\ s = InBlock(b)
                        THEN heap[owned[old].block] ELSE heap[b]]
    BY DEF Copy
  <2>2. \A c \in FreeBlocks : InBlock(c) \in Strings
    BY DEF FreeBlocks, Strings
  <2>3. owned[old] \in Strings
    BY <1>0 DEF TypeOK
  <2>4. s \in Strings /\ IF owned[old].at = "block" THEN \E c \in FreeBlocks : s = InBlock(c)
                         ELSE s = owned[old]
    BY <2>1, <2>2, <2>3
  <2> QED
    BY <2>1, <2>4
<1>2. /\ \A q \in Objects : q # to =>
           root'[q] = root[q] /\ ptr'[q] = ptr[q] /\ owned'[q] = owned[q]
      /\ owned'[to] = s /\ root'[to] = root[old] /\ moves' = moves
  BY <1>0, <1>1 DEF Copy, TypeOK
<1>3. old # to /\ to \notin moves /\ \A b \in Blocks : owned[to] # InBlock(b)
  BY <1>0 DEF Alive, MovesInv
<1>4. CASE \E c \in FreeBlocks : s = InBlock(c)
  <2>1. PICK c \in Blocks : s = InBlock(c) /\ heap[c] = Free
    BY <1>4 DEF FreeBlocks
  <2>2. PICK d \in Blocks : owned[old] = InBlock(d) /\ owned[old].block = d
    BY <1>0, <1>1, <2>1, BlockString DEF TypeOK
  <2>3. heap[d] = root[old] /\ heap[d] # Free /\ heap[d] \in Long
    BY <1>0, <2>2 DEF HeapInv, TypeOK
  <2>4. heap'[c] = heap[d] /\ \A b \in Blocks : b # c => heap'[b] = heap[b]
    BY <1>1, <2>1, <2>2
  <2>5. TypeOK'
    BY <1>0, <1>1, <2>1, <2>2, <2>3 DEF TypeOK, Copy
  <2>6. \A q \in Objects : owned[q] # InBlock(c)
    BY <1>0, <2>1 DEF HeapInv
  <2>7. \A q \in Objects, b \in Blocks :
          owned'[q] = InBlock(b) <=> (IF q = to THEN b = c ELSE owned[q] = InBlock(b))
    BY <1>2, <2>1
  <2>8. HeapInv'
    <3>1. \A b \in Blocks : heap'[b] # Free => \E q \in Objects : owned'[q] = InBlock(b)
      BY <1>0, <1>3, <2>4, <2>7 DEF HeapInv
    <3>2. \A q \in Objects, b \in Blocks :
            owned'[q] = InBlock(b) => heap'[b] = root'[q] /\ heap'[b] # Free
      BY <1>0, <1>2, <2>3, <2>4, <2>6, <2>7 DEF HeapInv
    <3> QED
      BY <1>0, <2>6, <2>7, <3>1, <3>2 DEF HeapInv
  <2>9. MovesInv'
    BY <1>0, <1>2, <1>3 DEF MovesInv, Alive, TypeOK
  <2> QED
    BY <2>5, <2>8, <2>9 DEF Inv
<1>5. CASE ~ \E c \in FreeBlocks : s = InBlock(c)
  <2>1. s = owned[old] /\ s.at # "block"
    BY <1>1, <1>5
  <2>2. heap' = heap
    BY <1>0, <1>1, <2>1 DEF TypeOK
  <2>3. TypeOK'
    BY <1>0, <1>1, <2>2 DEF TypeOK, Copy
  <2>4. \A q \in Objects, b \in Blocks : owned'[q] = InBlock(b) <=> owned[q] = InBlock(b)
    BY <1>2, <1>3, <2>1
  <2>5. HeapInv'
    BY <1>0, <1>2, <1>3, <2>2, <2>4 DEF HeapInv
  <2>6. MovesInv'
    BY <1>0, <1>2, <1>3 DEF MovesInv, Alive, TypeOK
  <2> QED
    BY <2>3, <2>5, <2>6 DEF Inv
<1> QED
  BY <1>4, <1>5

LEMMA MoveKeepsInv ==
  ASSUME Inv, NEW old \in Objects, NEW to \in Objects, Move(old, to)
  PROVE  Inv'
<1> USE StringFacts, StringKinds
<1>0. TypeOK /\ HeapInv /\ MovesInv /\ Alive(old) /\ ~ Alive(to)
  BY DEF Inv, Move
<1>1. old # to /\ to \notin moves /\ \A b \in Blocks : owned[to] # InBlock(b)
  BY <1>0 DEF Alive, MovesInv
<1>2. /\ \A q \in Objects : q # to => root'[q] = root[q] /\ ptr'[q] = ptr[q]
      /\ \A q \in Objects : q # to /\ q # old => owned'[q] = owned[q]
      /\ owned'[to] = owned[old] /\ owned'[old] = Empty
      /\ root'[to] = root[old] /\ ptr'[to] = ptr[old] /\ heap' = heap
      /\ moves' = IF old \in moves THEN (moves \ {old}) \cup {to} ELSE moves
  BY <1>0, <1>1 DEF Move, TypeOK
<1>3. TypeOK'
  BY <1>0 DEF TypeOK, Move, Strings
<1>4. \A q \in Objects, b \in Blocks :
        owned'[q] = InBlock(b) <=> /\ q # old
                                   /\ IF q = to THEN owned[old] = InBlock(b)
                                      ELSE owned[q] = InBlock(b)
  BY <1>1, <1>2
<1>5. HeapInv'
  <2>1. \A b \in Blocks : heap'[b] # Free => \E q \in Objects : owned'[q] = InBlock(b)
    BY <1>0, <1>1, <1>2, <1>4 DEF HeapInv
  <2>2. \A q \in Objects, b \in Blocks :
          owned'[q] = InBlock(b) => heap'[b] = root'[q] /\ heap'[b] # Free
    BY <1>0, <1>2, <1>4 DEF HeapInv
  <2> QED
    BY <1>0, <1>4, <2>1, <2>2 DEF HeapInv
<1>6. MovesInv'
  <2> SUFFICES ASSUME NEW o \in moves'
               PROVE  /\ Alive(o)'
                      /\ root'[o] \in Plain => ptr'[o] = ToBuffer
                      /\ root'[o] \in Long =>
                           \E b \in Blocks : owned'[o] = InBlock(b) /\ ptr'[o] = ToBlock(b)
                      /\ root'[o] \in Names
    BY DEF MovesInv
  <2>1. CASE o = to
    BY <1>0, <1>1, <1>2, <2>1 DEF MovesInv, Alive
  <2>2. CASE o # to
    <3>1. o \in moves /\ o \in Objects /\ (o = old => old \notin moves)
      BY <1>0, <1>2, <2>2 DEF TypeOK
    <3> QED
      BY <1>0, <1>2, <2>2, <3>1 DEF MovesInv, Alive
  <2> QED
    BY <2>1, <2>2
<1> QED
  BY <1>3, <1>5, <1>6 DEF Inv

LEMMA DestroyKeeps ==
  ASSUME Inv, NEW o \in Objects, Destroy(o)
  PROVE  Inv'
<1> USE StringFacts, StringKinds
<1>0. TypeOK /\ HeapInv /\ MovesInv
  BY DEF Inv
<1>1. /\ \A q \in Objects : q # o =>
           root'[q] = root[q] /\ ptr'[q] = ptr[q] /\ owned'[q] = owned[q]
      /\ owned'[o] = Dead /\ moves' = moves \ {o}
  BY <1>0 DEF Destroy, TypeOK
<1>2. \A b \in Blocks : heap'[b] = IF owned[o] = InBlock(b) THEN Free ELSE heap[b]
  BY DEF Destroy
<1>3. TypeOK'
  BY <1>0 DEF TypeOK, Destroy, Strings, Targets
<1>4. \A q \in Objects, b \in Blocks :
        owned'[q] = InBlock(b) <=> q # o /\ owned[q] = InBlock(b)
  BY <1>1
<1>5. HeapInv'
  <2>1. \A q \in Objects, b \in Blocks :
          owned'[q] = InBlock(b) => heap'[b] = root'[q] /\ heap'[b] # Free
    BY <1>0, <1>1, <1>2, <1>4 DEF HeapInv
  <2>2. \A b \in Blocks : heap'[b] # Free => \E q \in Objects : owned'[q] = InBlock(b)
    BY <1>0, <1>2, <1>4 DEF HeapInv
  <2> QED
    BY <1>0, <1>4, <2>1, <2>2 DEF HeapInv
<1>6. MovesInv'
  BY <1>0, <1>1 DEF MovesInv, Alive, TypeOK
<1> QED
  BY <1>3, <1>5, <1>6 DEF Inv

-----------------------------------------------------------------------------

LEMMA NextInv == Inv /\ [Next]_vars => Inv'
<1> SUFFICES ASSUME Inv, [Next]_vars PROVE Inv'
  OBVIOUS
<1>1. ASSUME NEW o \in Objects, NEW n \in Plain, DecodePlain(o, n) PROVE Inv'
  <2>1. ToBuffer \in Targets
    BY DEF Targets
  <2> QED
    BY <1>1, <2>1, DecodeKeeps DEF DecodePlain
<1>2. ASSUME NEW o \in Objects, NEW l \in Objects, NEW n \in Short, DecodeShort(o, l, n)
      PROVE  Inv'
  <2>1. ToInside(l) \in Targets /\ n \notin Plain
    BY NamesAreDistinct DEF Targets
  <2> QED
    BY <1>2, <2>1, DecodeKeeps DEF DecodeShort
<1>3. CASE UNCHANGED vars
  BY <1>3 DEF vars, Inv, TypeOK, HeapInv, MovesInv, Alive
<1> QED
  BY <1>1, <1>2, <1>3, DecodeLongKeeps, CopyKeeps, MoveKeepsInv, DestroyKeeps DEF Next

LEMMA SpecInv == Spec => []Inv
BY InitInv, NextInv, PTL DEF Spec

\* Every state of the objects and blocks is well formed.
THEOREM TypeCorrect == Spec => []TypeOK
<1>1. Inv => TypeOK
  BY DEF Inv
<1> QED
  BY <1>1, SpecInv, PTL

\* What decode returned keeps its name through every move, and while others
\* are destroyed, unless the name is one that is stored inside the View.
THEOREM MovesKeepNames == Spec => []MovedNamesSurvive
<1>1. Inv => MovedNamesSurvive
  <2> SUFFICES ASSUME Inv, NEW o \in moves, root[o] \notin Short
               PROVE  Shows(o, root[o])
    BY DEF MovedNamesSurvive
  <2>1. root[o] \in Plain \/ root[o] \in Long
    BY DEF Inv, MovesInv, Names
  <2>2. CASE root[o] \in Plain
    BY <2>2 DEF Inv, MovesInv, Shows, ToBuffer
  <2>3. CASE root[o] \in Long
    <3>1. PICK b \in Blocks : owned[o] = InBlock(b) /\ ptr[o] = ToBlock(b)
      BY <2>3 DEF Inv, MovesInv
    <3>2. heap[b] = root[o]
      BY <3>1 DEF Inv, TypeOK, HeapInv
    <3> QED
      BY <3>1, <3>2 DEF Shows, ToBlock
  <2> QED
    BY <2>1, <2>2, <2>3
<1> QED
  BY <1>1, SpecInv, PTL

-----------------------------------------------------------------------------
(* NbtView: every child that is handed out lies in the buffer.             *)

LEMMA SizeInside ==
  ASSUME NEW f \in Formats, NEW in \in Seq(Byte), NEW p \in Offsets(in), NEW kind \in Kinds
  PROVE  Yields(view_payload_size(f, in, p, kind), p, Len(in))
<1>1. PICK n \in Nat : n = Len(in) + 1
  OBVIOUS
<1>2. /\ "JavaNamedRoot" \in Formats /\ "BedrockLittleEndian" \in Formats
      /\ "BedrockVarInt" \in Formats
  BY DEF Formats, Java, Bedrock
<1>3. \A g \in Formats : Yields(skip_payloads(g, in, n)[kind][p], p, Len(in))
  BY SkipsInside
<1> QED
  BY <1>1, <1>2, <1>3 DEF view_payload_size, java_payload_size,
     bedrock_le_payload_size, bedrock_varint_payload_size

\* An entry, if it is one, has a payload between its beginning and its end.
EntryWithin(rec, off, n) ==
  /\ rec.ok \in BOOLEAN
  /\ rec.ok => /\ rec.pos \in off + 1 .. n
               /\ rec.v.payload \in off .. rec.pos

LEMMA ChildInside ==
  ASSUME NEW f \in Formats, NEW in \in Seq(Byte), NEW off \in Offsets(in)
  PROVE  EntryWithin(view_read_child(f, in, off), off, Len(in))
<1> DEFINE t == read_tag_byte(in, off)
           s == skip_string(f, in, t.pos)
           x == view_payload_size(f, in, s.pos, t.v)
           e == [tag |-> t.v, name |-> <<>>, payload |-> t.pos]
           c == [tag |-> t.v, name |-> s.v, payload |-> s.pos]
           rec == view_read_child(f, in, off)
           N == Len(in)
<1>1. rec = IF ~ t.ok THEN t ELSE IF t.v = "End" THEN Ok(e, t.pos)
            ELSE IF ~ s.ok THEN s ELSE IF x.ok THEN Ok(c, x.pos) ELSE x
  BY DEF view_read_child, Then
<1>2. e.payload = t.pos /\ c.payload = s.pos
  OBVIOUS
<1>3. t.ok \in BOOLEAN /\ (t.ok => t.pos = off + 1 /\ t.pos \in Offsets(in) /\ (t.v = "End" \/ t.v \in Kinds))
  BY TagByteYields DEF Yields, Offsets
<1>4. t.ok => s.ok \in BOOLEAN /\ s.pos \in t.pos .. N
  <2>1. t.ok => Yields(s, t.pos, N)
    BY <1>3, SkipStringYields
  <2> QED
    BY <2>1 DEF Yields
<1>5. t.ok /\ t.v # "End" /\ s.ok => x.ok \in BOOLEAN /\ x.pos \in s.pos .. N
  <2>1. t.ok => s.pos \in Offsets(in)
    BY <1>3, <1>4 DEF Offsets
  <2>2. t.ok /\ t.v # "End" /\ s.ok => Yields(x, s.pos, N)
    BY <1>3, <2>1, SizeInside
  <2> QED
    BY <2>2 DEF Yields
<1>6. off \in Nat /\ N \in Nat
  BY DEF Offsets
<1> HIDE DEF t, s, x, e, c, rec, N
<1>7. CASE ~ t.ok
  BY <1>1, <1>3, <1>7 DEF EntryWithin, rec, N
<1>8. CASE t.ok /\ t.v = "End"
  <2>1. rec = Ok(e, t.pos)
    BY <1>1, <1>8
  <2>2. rec.ok = TRUE /\ rec.v = e /\ rec.pos = t.pos
    BY <2>1, OkIs
  <2>3. t.pos = off + 1 /\ t.pos \in 0 .. N
    BY <1>3, <1>8 DEF Offsets, N
  <2>4. rec.pos \in off + 1 .. N /\ rec.v.payload \in off .. rec.pos
    BY <1>2, <1>6, <2>2, <2>3
  <2> QED
    BY <2>2, <2>4 DEF EntryWithin, rec, N
<1>9. CASE t.ok /\ t.v # "End"
  <2>1. t.pos = off + 1 /\ s.pos \in t.pos .. N
    BY <1>3, <1>4, <1>9
  <2>2. CASE ~ s.ok
    BY <1>1, <1>4, <1>9, <2>2 DEF EntryWithin, rec, N
  <2>3. CASE s.ok /\ ~ x.ok
    BY <1>1, <1>5, <1>9, <2>3 DEF EntryWithin, rec, N
  <2>4. CASE s.ok /\ x.ok
    <3>1. rec = Ok(c, x.pos)
      BY <1>1, <1>9, <2>4
    <3>2. rec.ok = TRUE /\ rec.v = c /\ rec.pos = x.pos
      BY <3>1, OkIs
    <3>3. x.pos \in s.pos .. N
      BY <1>5, <1>9, <2>4
    <3>4. rec.pos \in off + 1 .. N /\ rec.v.payload \in off .. rec.pos
      BY <1>2, <1>6, <2>1, <3>2, <3>3
    <3> QED
      BY <3>2, <3>4 DEF EntryWithin, rec, N
  <2> QED
    BY <1>9, <2>2, <2>3, <2>4
<1> QED
  BY <1>3, <1>7, <1>8, <1>9

\* A root has its payload in the buffer.
LEMMA RootInside ==
  ASSUME NEW f \in Formats, NEW in \in Seq(Byte), make_view_root(f, in).ok
  PROVE  make_view_root(f, in).v.payload \in Offsets(in)
<1> DEFINE t == read_tag_byte(in, 0)
           s == read_string(f, in, t.pos)
           r == make_view_root(f, in)
           e == [tag |-> t.v, payload |-> t.pos]
           c == [tag |-> t.v, payload |-> s.pos]
<1>1. r = IF ~ t.ok THEN t
          ELSE IF t.v = "End" \/ f = "JavaAnonymousRoot" THEN Ok(e, t.pos)
          ELSE IF s.ok THEN Ok(c, s.pos) ELSE s
  BY DEF make_view_root, Then
<1>2. e.payload = t.pos /\ c.payload = s.pos
  OBVIOUS
<1>3. 0 \in Offsets(in)
  BY DEF Offsets
<1>4. t.ok => t.pos \in Offsets(in)
  BY <1>3, TagByteYields DEF Yields, Offsets
<1>5. t.ok => s.pos \in Offsets(in)
  <2>1. t.ok => Yields(s, t.pos, Len(in))
    BY <1>4, StringSkipped DEF Same
  <2> QED
    BY <1>4, <2>1 DEF Yields, Offsets
<1> HIDE DEF t, s, e, c
<1>6. CASE r = Ok(e, t.pos) /\ t.ok
  BY <1>2, <1>4, <1>6, OkIs
<1>7. CASE r = Ok(c, s.pos) /\ t.ok
  BY <1>2, <1>5, <1>7, OkIs
<1> QED
  BY <1>1, <1>6, <1>7

-----------------------------------------------------------------------------
(* The loop over a buffer's root.                                          *)

\* The iterator stands between two entries of the buffer, or is done.
LoopInv ==
  /\ format \in Formats
  /\ bytes \in Seq(Byte)
  /\ it.done \in BOOLEAN
  /\ ~ it.done => it.next \in Offsets(bytes) /\ it.child.payload \in 0 .. it.next

\* A round from anywhere in the buffer ends the loop or moves it on.
LEMMA RoundMoves ==
  ASSUME LoopInv, NEW off \in Offsets(bytes), advance_to_next(off),
         format' = format, bytes' = bytes
  PROVE  LoopInv' /\ (it'.done \/ it'.next > off)
<1> DEFINE rec == view_read_child(format, bytes, off)
<1>1. format \in Formats /\ bytes \in Seq(Byte)
  BY DEF LoopInv
<1>2. EntryWithin(rec, off, Len(bytes))
  BY <1>1, ChildInside
<1>3. off \in Nat /\ Len(bytes) \in Nat
  BY <1>1 DEF Offsets
<1>4. CASE Readable(rec)
  <2>1. it' = [done |-> FALSE, next |-> rec.pos, name |-> entry_name(rec.v.name).v,
               child |-> Child(rec)]
    BY <1>4, Zenon DEF advance_to_next
  <2>2. it'.done = FALSE /\ it'.next = rec.pos /\ it'.child = Child(rec)
    BY <2>1
  <2>3. it'.child.payload = rec.v.payload
    BY <2>2 DEF Child
  <2>4. rec.ok
    BY <1>4 DEF Readable
  <2>5. rec.pos \in off + 1 .. Len(bytes) /\ rec.v.payload \in off .. rec.pos
    BY <1>2, <2>4 DEF EntryWithin
  <2> HIDE DEF rec
  <2>6. rec.pos > off /\ rec.pos \in Offsets(bytes) /\ rec.v.payload \in 0 .. rec.pos
    BY <1>3, <2>5 DEF Offsets
  <2> QED
    BY <1>1, <2>2, <2>3, <2>6 DEF LoopInv
<1>5. CASE ~ Readable(rec)
  <2>1. it' = Done
    BY <1>5, Zenon DEF advance_to_next
  <2>2. it'.done = TRUE
    BY <2>1 DEF Done
  <2> QED
    BY <1>1, <2>2 DEF LoopInv
<1> QED
  BY <1>4, <1>5

LEMMA IncrementMoves ==
  ASSUME LoopInv, Increment
  PROVE  LoopInv' /\ (it'.done \/ it'.next > it.next)
<1>1. it.next \in Offsets(bytes)
  BY DEF LoopInv, Increment
<1>2. advance_to_next(it.next) /\ format' = format /\ bytes' = bytes
  BY DEF Increment
<1> QED
  BY <1>1, <1>2, RoundMoves

LEMMA BeginMoves ==
  ASSUME LoopInv, BeginIteration
  PROVE  LoopInv'
<1>1. Root.ok /\ advance_to_next(Root.v.payload) /\ format' = format /\ bytes' = bytes
  BY DEF BeginIteration
<1>2. Root.v.payload \in Offsets(bytes)
  BY <1>1, RootInside DEF LoopInv, Root
<1> QED
  BY <1>1, <1>2, RoundMoves

LEMMA BufferStarts == BufferInit => LoopInv
<1> SUFFICES ASSUME BufferInit PROVE LoopInv
  OBVIOUS
<1>1. PICK d \in Docs :
        /\ format = d[1]
        /\ \E w \in {encode(d[1], d[2]).out} :
             \/ bytes = w
             \/ \E b \in Damage, i \in DOMAIN w : bytes = [w EXCEPT ![i] = b]
  BY DEF BufferInit
<1>2. PICK w : /\ w = encode(d[1], d[2]).out
               /\ \/ bytes = w
                  \/ \E b \in Damage, i \in DOMAIN w : bytes = [w EXCEPT ![i] = b]
  BY <1>1
<1>3. format \in Formats /\ w \in Seq(Byte) /\ Damage \subseteq Byte
  BY <1>1, <1>2, BuffersAreBytes
<1>4. bytes \in Seq(Byte)
  <2>1. ASSUME NEW b \in Damage, NEW i \in DOMAIN w, bytes = [w EXCEPT ![i] = b]
        PROVE  bytes \in Seq(Byte)
    BY <1>3, <2>1
  <2> QED
    BY <1>2, <1>3, <2>1
<1>5. it.done = TRUE
  BY DEF BufferInit, Done
<1> QED
  BY <1>3, <1>4, <1>5 DEF LoopInv

LEMMA LoopStays == BufferSpec => []LoopInv
<1>1. LoopInv /\ [BufferNext]_bufferVars => LoopInv'
  <2>1. ASSUME LoopInv, UNCHANGED bufferVars PROVE LoopInv'
    BY <2>1 DEF LoopInv, bufferVars
  <2> QED
    BY <2>1, IncrementMoves, BeginMoves DEF BufferNext
<1> QED
  BY <1>1, BufferStarts, PTL DEF BufferSpec

\* Every child the loop hands out lies inside the buffer, also one that was
\* damaged or nests deeper than decode goes.
THEOREM ChildrenInBuffer == BufferSpec => []BufferTypeOK
<1>1. LoopInv => BufferTypeOK
  <2> SUFFICES ASSUME LoopInv PROVE BufferTypeOK
    OBVIOUS
  <2>1. \A i \in DOMAIN bytes : bytes[i] \in Byte
    BY DEF LoopInv
  <2>2. ~ it.done => it.child.payload <= it.next /\ it.next <= Len(bytes)
    BY DEF LoopInv, Offsets
  <2> QED
    BY <2>1, <2>2 DEF LoopInv, BufferTypeOK
<1> QED
  BY <1>1, LoopStays, PTL

\* The loop over a compound ends on every buffer: each increment finishes the
\* loop or moves it further into the buffer, which it never leaves.
THEOREM LoopAdvances == BufferSpec => IterationAdvances
<1>1. LoopInv => [Increment => it'.done \/ it'.next > it.next]_bufferVars
  BY IncrementMoves
<1> QED
  BY <1>1, LoopStays, PTL DEF IterationAdvances

-----------------------------------------------------------------------------
(* What decode makes of bytes does not depend on where they stand.         *)

\* From p in the one buffer and q in the other there are the same bytes to the
\* end, and at most w of them.
Abreast(A, p, B, q, w) ==
  /\ p \in Offsets(A) /\ q \in Offsets(B)
  /\ Len(A) - p = Len(B) - q
  /\ Len(A) - p <= w
  /\ \A i \in 1 .. Len(A) - p : A[p + i] = B[q + i]

\* If the one was read, the other was, as the same, and what is left is the same.
Echoes(A, B, r, s, w) ==
  r.ok => s.ok = TRUE /\ s.v = r.v /\ Abreast(A, r.pos, B, s.pos, w)

\* Two formats that differ at most in the name of the root.
Twins(f, g) == f \in Formats /\ g \in Formats /\ (f = g \/ {f, g} \subseteq Java)

LEMMA TwinsRead ==
  ASSUME NEW f, NEW g, Twins(f, g)
  PROVE  /\ \A kind : IsVarInt(f, kind) <=> IsVarInt(g, kind)
         /\ f = "BedrockVarInt" <=> g = "BedrockVarInt"
         /\ f \in Bedrock <=> g \in Bedrock
         /\ f \in Java <=> g \in Java
         /\ \A b : big_endian(f, b) = big_endian(g, b)
BY DEF Twins, IsVarInt, big_endian, Java, Bedrock, Formats

\* n bytes further on, and with less to come than was allowed for.
LEMMA AbreastOn ==
  ASSUME NEW A \in Seq(Byte), NEW B \in Seq(Byte), NEW p, NEW q, NEW w \in Int,
         Abreast(A, p, B, q, w), NEW n \in Nat, p + n <= Len(A)
  PROVE  Abreast(A, p + n, B, q + n, w - n) /\ Abreast(A, p + n, B, q + n, w)
<1>0. p \in Nat /\ q \in Nat /\ Len(A) \in Nat /\ Len(B) \in Nat
      /\ Len(A) - p = Len(B) - q /\ Len(A) - p <= w
  BY DEF Abreast, Offsets
<1>1. p + n \in Offsets(A) /\ q + n \in Offsets(B)
  BY <1>0 DEF Offsets
<1>2. Len(A) - (p + n) = Len(B) - (q + n) /\ Len(A) - (p + n) <= w - n
      /\ Len(A) - (p + n) <= w
  BY <1>0
<1>3. ASSUME NEW i \in 1 .. Len(A) - (p + n) PROVE A[(p + n) + i] = B[(q + n) + i]
  <2>1. n + i \in 1 .. Len(A) - p
    BY <1>0
  <2>2. A[p + (n + i)] = B[q + (n + i)]
    BY <2>1 DEF Abreast
  <2>3. (p + n) + i = p + (n + i) /\ (q + n) + i = q + (n + i)
    BY <1>0
  <2> QED
    BY <2>2, <2>3
<1> QED
  BY <1>1, <1>2, <1>3 DEF Abreast

LEMMA AbreastWide ==
  ASSUME NEW A \in Seq(Byte), NEW B \in Seq(Byte), NEW p, NEW q, NEW w \in Int,
         NEW m \in Int, Abreast(A, p, B, q, w), w <= m
  PROVE  Abreast(A, p, B, q, m)
<1>1. Len(A) - p \in Int
  BY DEF Abreast, Offsets
<1> QED
  BY <1>1 DEF Abreast

LEMMA AbreastTurned ==
  ASSUME NEW A \in Seq(Byte), NEW B \in Seq(Byte), NEW p, NEW q, NEW w,
         Abreast(A, p, B, q, w)
  PROVE  Abreast(B, q, A, p, w)
BY DEF Abreast

\* A buffer alongside itself.
LEMMA AbreastSelf ==
  ASSUME NEW A \in Seq(Byte), NEW p \in Offsets(A), NEW w \in Int, Len(A) - p <= w
  PROVE  Abreast(A, p, A, p, w)
BY DEF Abreast

LEMMA EchoesWide ==
  ASSUME NEW A \in Seq(Byte), NEW B \in Seq(Byte), NEW r, NEW s, NEW w \in Int,
         NEW m \in Int, Echoes(A, B, r, s, w), w <= m
  PROVE  Echoes(A, B, r, s, m)
BY AbreastWide DEF Echoes

\* One reading after another.
LEMMA EchoesOn ==
  ASSUME NEW A, NEW B, NEW w, NEW r, NEW s, NEW x, NEW y, NEW r2, NEW s2,
         Echoes(A, B, r, s, w), r.ok /\ s.ok => Echoes(A, B, x, y, w),
         r2 = IF r.ok THEN x ELSE r, s2 = IF s.ok THEN y ELSE s
  PROVE  Echoes(A, B, r2, s2, w)
BY DEF Echoes

LEMMA EchoesErr ==
  ASSUME NEW A, NEW B, NEW w, NEW r, NEW s, r.ok = FALSE
  PROVE  Echoes(A, B, r, s, w)
BY DEF Echoes

LEMMA EchoesOk ==
  ASSUME NEW A, NEW B, NEW w, NEW x, NEW p, NEW q, Abreast(A, p, B, q, w)
  PROVE  Echoes(A, B, Ok(x, p), Ok(x, q), w)
BY OkIs DEF Echoes

\* The value wrapped.
LEMMA EchoesWrapped ==
  ASSUME NEW A, NEW B, NEW w, NEW r, NEW s, Echoes(A, B, r, s, w),
         NEW x, NEW y, r.ok /\ s.ok => x = y,
         NEW r2, NEW s2,
         r2 = IF r.ok THEN Ok(x, r.pos) ELSE r, s2 = IF s.ok THEN Ok(y, s.pos) ELSE s
  PROVE  Echoes(A, B, r2, s2, w)
<1>1. CASE r.ok
  <2>1. s.ok = TRUE /\ Abreast(A, r.pos, B, s.pos, w)
    BY <1>1 DEF Echoes
  <2>2. r2 = Ok(x, r.pos) /\ s2 = Ok(x, s.pos)
    BY <1>1, <2>1
  <2> QED
    BY <2>1, <2>2, EchoesOk
<1>2. CASE ~ r.ok
  BY <1>2 DEF Echoes
<1> QED
  BY <1>1, <1>2

-----------------------------------------------------------------------------
\* take.
LEMMA TakeEchoes ==
  ASSUME NEW A \in Seq(Byte), NEW B \in Seq(Byte), NEW p, NEW q, NEW w \in Int,
         Abreast(A, p, B, q, w), NEW n \in Nat, NEW size \in {1, 2, 4, 8},
         NEW m \in Nat, Spans(m, n, size)
  PROVE  Echoes(A, B, take(A, p, n, size), take(B, q, n, size), w - m)
<1> DEFINE r == take(A, p, n, size)
           s == take(B, q, n, size)
<1>0. p \in Offsets(A) /\ q \in Offsets(B) /\ Len(A) - p = Len(B) - q
  BY DEF Abreast
<1>1. p \in Nat /\ q \in Nat /\ Len(A) \in Nat /\ Len(B) \in Nat
  BY <1>0 DEF Offsets
<1>2. /\ r.ok <=> p + m <= Len(A)
      /\ r.ok => /\ r.v \in Seq(Byte) /\ Len(r.v) = m /\ r.pos = p + m
                 /\ \A i \in 1 .. m : r.v[i] = A[p + i]
  BY <1>0, TakeYields
<1>3. /\ s.ok <=> q + m <= Len(B)
      /\ s.ok => /\ s.v \in Seq(Byte) /\ Len(s.v) = m /\ s.pos = q + m
                 /\ \A i \in 1 .. m : s.v[i] = B[q + i]
  BY <1>0, TakeYields
<1>4. Yields(s, q, Len(B))
  BY <1>0, TakeYields
<1> HIDE DEF r, s
<1> SUFFICES ASSUME r.ok
             PROVE  s.ok = TRUE /\ s.v = r.v /\ Abreast(A, r.pos, B, s.pos, w - m)
  BY DEF Echoes, r, s
<1>5. p + m <= Len(A)
  BY <1>2
<1>6. s.ok = TRUE
  <2>1. q + m <= Len(B)
    BY <1>0, <1>1, <1>5
  <2> QED
    BY <1>3, <1>4, <2>1 DEF Yields
<1>7. s.v = r.v
  <2>1. \A i \in 1 .. m : A[p + i] = B[q + i]
    <3>1. \A i \in 1 .. m : i \in 1 .. Len(A) - p
      BY <1>1, <1>5
    <3> QED
      BY <3>1 DEF Abreast
  <2>2. r.v \in Seq(Byte) /\ s.v \in Seq(Byte) /\ Len(s.v) = Len(r.v)
    BY <1>2, <1>3, <1>6
  <2>3. \A i \in 1 .. m : s.v[i] = r.v[i]
    BY <1>2, <1>3, <1>6, <2>1
  <2>4. \A i \in 1 .. Len(r.v) : s.v[i] = r.v[i]
    BY <1>2, <2>3
  <2> QED
    BY <2>2, <2>4, SameBytes
<1>8. Abreast(A, p + m, B, q + m, w - m)
  BY <1>5, AbreastOn
<1> QED
  BY <1>2, <1>3, <1>6, <1>7, <1>8

\* ... of one item, and of bytes.
LEMMA ItemsEchoes ==
  ASSUME NEW A \in Seq(Byte), NEW B \in Seq(Byte), NEW p, NEW q, NEW w \in Int,
         Abreast(A, p, B, q, w)
  PROVE  /\ \A n \in Nat : Echoes(A, B, take(A, p, n, 1), take(B, q, n, 1), w)
         /\ \A size \in {1, 2, 4, 8} :
              Echoes(A, B, take(A, p, 1, size), take(B, q, 1, size), w)
         /\ Echoes(A, B, take(A, p, 1, 1), take(B, q, 1, 1), w - 1)
<1>1. ASSUME NEW n \in Nat
      PROVE  Echoes(A, B, take(A, p, n, 1), take(B, q, n, 1), w - n)
  <2>1. Spans(n, n, 1) /\ 1 \in {1, 2, 4, 8}
    BY DEF Spans
  <2> QED
    BY <2>1, TakeEchoes
<1>2. ASSUME NEW n \in Nat
      PROVE  Echoes(A, B, take(A, p, n, 1), take(B, q, n, 1), w)
  <2>1. w - n \in Int /\ w - n <= w
    OBVIOUS
  <2> QED
    BY <1>1, <2>1, EchoesWide
<1>3. ASSUME NEW size \in {1, 2, 4, 8}
      PROVE  Echoes(A, B, take(A, p, 1, size), take(B, q, 1, size), w)
  <2>1. Spans(size, 1, size) /\ 1 \in Nat /\ size \in Nat
    BY DEF Spans
  <2>2. Echoes(A, B, take(A, p, 1, size), take(B, q, 1, size), w - size)
    BY <2>1, TakeEchoes
  <2>3. w - size \in Int /\ w - size <= w
    BY <2>1
  <2> QED
    BY <2>2, <2>3, EchoesWide
<1>4. 1 \in Nat
  OBVIOUS
<1> QED
  BY <1>1, <1>2, <1>3, <1>4

\* A tag, which takes a byte.
LEMMA TagEchoes ==
  ASSUME NEW A \in Seq(Byte), NEW B \in Seq(Byte), NEW p, NEW q, NEW w \in Int,
         Abreast(A, p, B, q, w)
  PROVE  Echoes(A, B, read_tag_byte(A, p), read_tag_byte(B, q), w - 1)
<1> DEFINE a == take(A, p, 1, 1)
           b == take(B, q, 1, 1)
           r == read_tag_byte(A, p)
           s == read_tag_byte(B, q)
           R(u) == IF u.v[1] = 0 THEN Ok("End", u.pos)
                   ELSE IF u.v[1] \in DOMAIN TagIds THEN Ok(TagIds[u.v[1]], u.pos)
                   ELSE Err("UnknownTagId", u.pos)
<1>1. Echoes(A, B, a, b, w - 1)
  BY ItemsEchoes
<1>2. r = (IF a.ok THEN R(a) ELSE a) /\ s = (IF b.ok THEN R(b) ELSE b)
  BY DEF read_tag_byte, Then
<1>3. a.ok /\ b.ok => Echoes(A, B, R(a), R(b), w - 1)
  <2> HIDE DEF a, b
  <2> SUFFICES ASSUME a.ok, b.ok PROVE Echoes(A, B, R(a), R(b), w - 1)
    OBVIOUS
  <2>1. b.v = a.v /\ Abreast(A, a.pos, B, b.pos, w - 1)
    BY <1>1 DEF Echoes
  <2>2. CASE a.v[1] = 0
    BY <2>1, <2>2, EchoesOk
  <2>3. CASE a.v[1] # 0 /\ a.v[1] \in DOMAIN TagIds
    BY <2>1, <2>3, EchoesOk
  <2>4. CASE a.v[1] # 0 /\ a.v[1] \notin DOMAIN TagIds
    <3>1. R(a).ok = FALSE
      BY <2>4 DEF Err
    <3> QED
      BY <3>1, EchoesErr
  <2> QED
    BY <2>2, <2>3, <2>4
<1> HIDE DEF a, b, r, s, R
<1> QED
  BY <1>1, <1>2, <1>3, EchoesOn DEF r, s

\* The digits of a VarInt.
LEMMA UvarintEchoes ==
  ASSUME NEW A \in Seq(Byte), NEW B \in Seq(Byte), NEW p, NEW q, NEW w \in Int,
         Abreast(A, p, B, q, w), NEW most \in {5, 10}
  PROVE  Echoes(A, B, read_uvarint(A, p, most), read_uvarint(B, q, most), w)
<1> DEFINE left == Len(A) - p
           last == {i \in 1 .. most : i <= left /\ A[p + i] < 128}
           n == CHOOSE i \in last : \A j \in last : i <= j
           r == read_uvarint(A, p, most)
           s == read_uvarint(B, q, most)
<1>1. left \in Nat /\ p \in Nat /\ q \in Nat /\ Len(B) - q = left /\ p + left = Len(A)
  BY DEF Abreast, Offsets
<1>2. \A i \in 1 .. left : A[p + i] = B[q + i]
  BY DEF Abreast
<1>3. last = {i \in 1 .. most : i <= Len(B) - q /\ B[q + i] < 128}
  <2>1. \A i \in 1 .. most : i <= left => A[p + i] = B[q + i]
    <3>1. \A i \in 1 .. most : i <= left => i \in 1 .. left
      BY <1>1
    <3> QED
      BY <1>2, <3>1
  <2> QED
    BY <1>1, <2>1
<1>4. CASE last # {}
  <2>1. \E i \in last : \A j \in last : i <= j
    <3>1. last \subseteq Nat
      OBVIOUS
    <3> HIDE DEF last
    <3> QED
      BY <1>4, <3>1, Least
  <2>2. n \in last
    BY <2>1
  <2>3. n \in Nat /\ n <= left /\ \A i \in 1 .. n : i \in 1 .. left
    <3>1. n \in 1 .. most /\ n <= left /\ most \in Nat
      BY <2>2
    <3> HIDE DEF n, last, left
    <3> QED
      BY <1>1, <3>1
  <2>4. r = Ok([i \in 1 .. n |-> A[p + i] % 128], p + n)
    BY <1>4 DEF read_uvarint
  <2>5. s = Ok([i \in 1 .. n |-> B[q + i] % 128], q + n)
    BY <1>3, <1>4 DEF read_uvarint
  <2> HIDE DEF n, r, s, last
  <2>6. [i \in 1 .. n |-> A[p + i] % 128] = [i \in 1 .. n |-> B[q + i] % 128]
    BY <1>2, <2>3
  <2>7. Abreast(A, p + n, B, q + n, w)
    <3>1. p + n <= Len(A)
      BY <1>1, <2>3
    <3> QED
      BY <2>3, <3>1, AbreastOn
  <2>8. PICK ds : ds = [i \in 1 .. n |-> A[p + i] % 128]
    OBVIOUS
  <2>9. r = Ok(ds, p + n) /\ s = Ok(ds, q + n)
    BY <2>4, <2>5, <2>6, <2>8
  <2>10. Echoes(A, B, r, s, w)
    BY <2>7, <2>9, EchoesOk
  <2> QED
    BY <2>10 DEF r, s
<1>5. CASE last = {}
  <2>1. r.ok = FALSE
    BY <1>5 DEF read_uvarint, Err
  <2> QED
    BY <2>1, EchoesErr
<1> QED
  BY <1>4, <1>5

\* A number.
LEMMA NumberEchoes ==
  ASSUME NEW A \in Seq(Byte), NEW B \in Seq(Byte), NEW p, NEW q, NEW w \in Int,
         Abreast(A, p, B, q, w), NEW f, NEW g, Twins(f, g), NEW kind \in DOMAIN Size
  PROVE  Echoes(A, B, read_number(f, A, p, kind), read_number(g, B, q, kind), w)
<1> DEFINE r == read_number(f, A, p, kind)
           s == read_number(g, B, q, kind)
<1>1. CASE IsVarInt(f, kind)
  <2> DEFINE most == IF kind = "Int" THEN 5 ELSE 10
             a == read_uvarint(A, p, most)
             b == read_uvarint(B, q, most)
             V(ds) == IF kind = "Long" /\ ~ fits32(ds) THEN Wide ELSE zigzag(ds)
  <2>1. Echoes(A, B, a, b, w)
    BY UvarintEchoes
  <2>2. r = IF a.ok THEN Ok(V(a.v), a.pos) ELSE a
    BY <1>1 DEF read_number, Then
  <2>3. s = IF b.ok THEN Ok(V(b.v), b.pos) ELSE b
    BY <1>1, TwinsRead DEF read_number, Then
  <2>4. a.ok /\ b.ok => V(a.v) = V(b.v)
    <3> HIDE DEF a, b, V
    <3> QED
      BY <2>1 DEF Echoes
  <2> HIDE DEF a, b, r, s, V, most
  <2> QED
    BY <2>1, <2>2, <2>3, <2>4, EchoesWrapped DEF r, s
<1>2. CASE ~ IsVarInt(f, kind)
  <2> DEFINE a == take(A, p, Size[kind], 1)
             b == take(B, q, Size[kind], 1)
  <2>0. Size[kind] \in Nat
    BY DEF Size
  <2>1. Echoes(A, B, a, b, w)
    BY <2>0, ItemsEchoes
  <2>2. r = IF a.ok THEN Ok(signed(big_endian(f, a.v)), a.pos) ELSE a
    BY <1>2 DEF read_number, read_int, Then
  <2>3. s = IF b.ok THEN Ok(signed(big_endian(g, b.v)), b.pos) ELSE b
    BY <1>2, TwinsRead DEF read_number, read_int, Then
  <2>4. a.ok /\ b.ok => signed(big_endian(f, a.v)) = signed(big_endian(g, b.v))
    <3> HIDE DEF a, b
    <3> QED
      BY <2>1, TwinsRead DEF Echoes
  <2> HIDE DEF a, b, r, s
  <2> QED
    BY <2>1, <2>2, <2>3, <2>4, EchoesWrapped DEF r, s
<1> QED
  BY <1>1, <1>2

\* A length.
LEMMA ArrayLengthEchoes ==
  ASSUME NEW A \in Seq(Byte), NEW B \in Seq(Byte), NEW p, NEW q, NEW w \in Int,
         Abreast(A, p, B, q, w), NEW f, NEW g, Twins(f, g)
  PROVE  Echoes(A, B, read_array_length(f, A, p), read_array_length(g, B, q), w)
<1> DEFINE r == read_array_length(f, A, p)
           s == read_array_length(g, B, q)
           a == read_number(f, A, p, "Int")
           b == read_number(g, B, q, "Int")
           R(u) == IF u.v < 0 THEN Err("NegativeLength", u.pos) ELSE Ok(u.v, u.pos)
<1>1. Echoes(A, B, a, b, w)
  <2>1. "Int" \in DOMAIN Size
    BY DEF Size
  <2> QED
    BY <2>1, NumberEchoes
<1>2. r = (IF a.ok THEN R(a) ELSE a) /\ s = (IF b.ok THEN R(b) ELSE b)
  BY DEF read_array_length, Then
<1> HIDE DEF a, b, r, s
<1>3. ASSUME a.ok, b.ok PROVE Echoes(A, B, R(a), R(b), w)
  <2>1. b.v = a.v /\ Abreast(A, a.pos, B, b.pos, w)
    BY <1>1, <1>3 DEF Echoes
  <2>2. CASE a.v < 0
    <3>1. R(a).ok = FALSE
      BY <2>2 DEF Err
    <3> QED
      BY <3>1, EchoesErr
  <2>3. CASE ~ (a.v < 0)
    BY <2>1, <2>3, EchoesOk
  <2> QED
    BY <2>2, <2>3
<1> HIDE DEF R
<1> QED
  BY <1>1, <1>2, <1>3, EchoesOn DEF r, s

LEMMA StringLengthEchoes ==
  ASSUME NEW A \in Seq(Byte), NEW B \in Seq(Byte), NEW p, NEW q, NEW w \in Int,
         Abreast(A, p, B, q, w), NEW f, NEW g, Twins(f, g)
  PROVE  Echoes(A, B, read_string_length(f, A, p), read_string_length(g, B, q), w)
<1> DEFINE r == read_string_length(f, A, p)
           s == read_string_length(g, B, q)
<1>1. CASE f = "BedrockVarInt"
  <2> DEFINE a == read_uvarint(A, p, 5)
             b == read_uvarint(B, q, 5)
  <2>1. Echoes(A, B, a, b, w)
    BY UvarintEchoes
  <2>2. r = IF a.ok THEN Ok(as_length(a.v), a.pos) ELSE a
    BY <1>1 DEF read_string_length, Then
  <2>3. s = IF b.ok THEN Ok(as_length(b.v), b.pos) ELSE b
    BY <1>1, TwinsRead DEF read_string_length, Then
  <2>4. a.ok /\ b.ok => as_length(a.v) = as_length(b.v)
    <3> HIDE DEF a, b
    <3> QED
      BY <2>1 DEF Echoes
  <2> HIDE DEF a, b, r, s
  <2> QED
    BY <2>1, <2>2, <2>3, <2>4, EchoesWrapped DEF r, s
<1>2. CASE f # "BedrockVarInt"
  <2> DEFINE a == take(A, p, 2, 1)
             b == take(B, q, 2, 1)
  <2>0. 2 \in Nat
    OBVIOUS
  <2>1. Echoes(A, B, a, b, w)
    BY <2>0, ItemsEchoes
  <2>2. r = IF a.ok THEN Ok(unsigned(big_endian(f, a.v)), a.pos) ELSE a
    BY <1>2 DEF read_string_length, Then
  <2>3. s = IF b.ok THEN Ok(unsigned(big_endian(g, b.v)), b.pos) ELSE b
    BY <1>2, TwinsRead DEF read_string_length, Then
  <2>4. a.ok /\ b.ok => unsigned(big_endian(f, a.v)) = unsigned(big_endian(g, b.v))
    <3> HIDE DEF a, b
    <3> QED
      BY <2>1, TwinsRead DEF Echoes
  <2> HIDE DEF a, b, r, s
  <2> QED
    BY <2>1, <2>2, <2>3, <2>4, EchoesWrapped DEF r, s
<1> QED
  BY <1>1, <1>2

\* A string's bytes, and the string.
LEMMA SkipStringEchoes ==
  ASSUME NEW A \in Seq(Byte), NEW B \in Seq(Byte), NEW p, NEW q, NEW w \in Int,
         Abreast(A, p, B, q, w), NEW f, NEW g, Twins(f, g)
  PROVE  Echoes(A, B, skip_string(f, A, p), skip_string(g, B, q), w)
<1> DEFINE r == skip_string(f, A, p)
           s == skip_string(g, B, q)
           a == read_string_length(f, A, p)
           b == read_string_length(g, B, q)
           x == take(A, a.pos, a.v, 1)
           y == take(B, b.pos, b.v, 1)
<1>1. Echoes(A, B, a, b, w)
  BY StringLengthEchoes
<1>2. r = (IF a.ok THEN x ELSE a) /\ s = (IF b.ok THEN y ELSE b)
  BY DEF skip_string, Then
<1>3. a.ok => a.v \in Nat
  <2>1. p \in Offsets(A)
    BY DEF Abreast
  <2> QED
    BY <2>1, StringLengthYields
<1> HIDE DEF a, b, r, s
<1>4. ASSUME a.ok, b.ok PROVE Echoes(A, B, x, y, w)
  <2>1. b.v = a.v /\ Abreast(A, a.pos, B, b.pos, w)
    BY <1>1, <1>4 DEF Echoes
  <2>2. a.v \in Nat
    BY <1>3, <1>4
  <2> QED
    BY <2>1, <2>2, ItemsEchoes
<1> HIDE DEF x, y
<1> QED
  BY <1>1, <1>2, <1>4, EchoesOn DEF r, s

LEMMA StringEchoes ==
  ASSUME NEW A \in Seq(Byte), NEW B \in Seq(Byte), NEW p, NEW q, NEW w \in Int,
         Abreast(A, p, B, q, w), NEW f, NEW g, Twins(f, g)
  PROVE  Echoes(A, B, read_string(f, A, p), read_string(g, B, q), w)
<1> DEFINE r == read_string(f, A, p)
           s == read_string(g, B, q)
           a == skip_string(f, A, p)
           b == skip_string(g, B, q)
           t == mutf8_to_utf8(a.v)
           R(h, u) == IF h \in Bedrock \/ is_pure_ascii(u.v) THEN Ok(u.v, u.pos)
                      ELSE Placed(mutf8_to_utf8(u.v), u.pos)
<1>1. Echoes(A, B, a, b, w)
  BY SkipStringEchoes
<1>2. r = (IF a.ok THEN R(f, a) ELSE a) /\ s = (IF b.ok THEN R(g, b) ELSE b)
  BY DEF read_string, Then, Placed
<1>3. a.ok => a.v \in Seq(Byte)
  <2>1. p \in Offsets(A)
    BY DEF Abreast
  <2> QED
    BY <2>1, SkipStringYields
<1> HIDE DEF a, b, r, s
<1>4. ASSUME a.ok, b.ok PROVE Echoes(A, B, R(f, a), R(g, b), w)
  <2>1. b.v = a.v /\ Abreast(A, a.pos, B, b.pos, w)
    BY <1>1, <1>4 DEF Echoes
  <2>2. CASE f \in Bedrock \/ is_pure_ascii(a.v)
    <3>1. R(f, a) = Ok(a.v, a.pos) /\ R(g, b) = Ok(a.v, b.pos)
      BY <2>1, <2>2, TwinsRead
    <3> QED
      BY <2>1, <3>1, EchoesOk
  <2>3. CASE ~ (f \in Bedrock \/ is_pure_ascii(a.v))
    <3>1. R(f, a) = Placed(t, a.pos) /\ R(g, b) = Placed(t, b.pos)
      BY <2>1, <2>3, TwinsRead
    <3>2. IsResult(t, Bad)
      BY <1>3, <1>4, TextResult
    <3> HIDE DEF t, R
    <3>3. CASE t = Ok(t.v, t.pos)
      <4>1. PICK o, e : t = Ok(o, e)
        BY <3>3
      <4>2. R(f, a) = Ok(o, a.pos) /\ R(g, b) = Ok(o, b.pos)
        BY <3>1, <4>1, PlacedAs
      <4> QED
        BY <2>1, <4>2, EchoesOk
    <3>4. CASE t = Err(t.v, t.pos)
      <4>1. PICK o, e : t = Err(o, e)
        BY <3>4
      <4>2. ErrAt(Placed(t, a.pos), o, a.pos)
        BY <4>1, PlacedErr
      <4>3. R(f, a).ok = FALSE
        BY <3>1, <4>2 DEF ErrAt
      <4> QED
        BY <4>3, EchoesErr
    <3> QED
      BY <3>2, <3>3, <3>4 DEF IsResult
  <2> QED
    BY <2>2, <2>3
<1> HIDE DEF R
<1> QED
  BY <1>1, <1>2, <1>4, EchoesOn DEF r, s

-----------------------------------------------------------------------------
(* Loops of such readings.                                                 *)

\* A round.
LEMMA GoesEchoes ==
  ASSUME NEW A, NEW B, NEW w, NEW one, NEW two, NEW later, NEW after, NEW r, NEW s,
         Goes(r, one, later), Goes(s, two, after), Echoes(A, B, one, two, w),
         one.ok /\ one.v # <<>> => Echoes(A, B, later[one.pos], after[two.pos], w)
  PROVE  Echoes(A, B, r, s, w)
<1>1. CASE ~ one.ok
  BY <1>1 DEF Goes, Echoes
<1>2. CASE one.ok
  <2>1. two.ok = TRUE /\ two.v = one.v /\ Abreast(A, one.pos, B, two.pos, w)
    BY <1>2 DEF Echoes
  <2>2. CASE one.v = <<>>
    <3>1. r = Ok(<<>>, one.pos) /\ s = Ok(<<>>, two.pos)
      BY <1>2, <2>1, <2>2 DEF Goes
    <3> QED
      BY <2>1, <3>1, EchoesOk
  <2>3. CASE one.v # <<>>
    <3>1. Echoes(A, B, later[one.pos], after[two.pos], w)
      BY <1>2, <2>3
    <3>2. CASE ~ later[one.pos].ok
      BY <1>2, <2>3, <3>2 DEF Goes, Echoes
    <3>3. CASE later[one.pos].ok
      <4>1. after[two.pos].ok = TRUE /\ after[two.pos].v = later[one.pos].v
            /\ Abreast(A, later[one.pos].pos, B, after[two.pos].pos, w)
        BY <3>1, <3>3 DEF Echoes
      <4>2. r = Ok(one.v \o later[one.pos].v, later[one.pos].pos)
        BY <1>2, <2>3, <3>3 DEF Goes
      <4>3. s = Ok(one.v \o later[one.pos].v, after[two.pos].pos)
        BY <2>1, <2>3, <4>1 DEF Goes
      <4> QED
        BY <4>1, <4>2, <4>3, EchoesOk
    <3> QED
      BY <3>2, <3>3
  <2> QED
    BY <2>2, <2>3
<1> QED
  BY <1>1, <1>2

\* Steps that make the same of the same bytes.
StepsEcho(A, B, D, E, w) ==
  \A p, q : Abreast(A, p, B, q, w) => Echoes(A, B, D[p], E[q], w)

\* A loop with a number of rounds.
LEMMA CountedEchoes ==
  ASSUME NEW A, NEW B, NEW w, NEW D, NEW E, DOMAIN D = Offsets(A), DOMAIN E = Offsets(B),
         Closed(D), Closed(E), StepsEcho(A, B, D, E, w), NEW n \in Nat,
         NEW p, NEW q, Abreast(A, p, B, q, w)
  PROVE  Echoes(A, B, Rounds(D, n, p), Rounds(E, n, q), w)
<1>1. PICK d : /\ \A k \in 0 .. n : \A x \in DOMAIN D : d[k][x] = round(D, n, d, k, x)
               /\ \A x : Rounds(D, n, x) = d[0][x]
  BY RoundsAre
<1>2. PICK e : /\ \A k \in 0 .. n : \A x \in DOMAIN E : e[k][x] = round(E, n, e, k, x)
               /\ \A x : Rounds(E, n, x) = e[0][x]
  BY RoundsAre
<1> DEFINE S == {k \in 0 .. n : StepsEcho(A, B, d[k], e[k], w)}
<1>3. \A x, y : Abreast(A, x, B, y, w) => x \in DOMAIN D /\ y \in DOMAIN E
  BY DEF Abreast
<1>4. n \in S
  <2> SUFFICES ASSUME NEW x, NEW y, Abreast(A, x, B, y, w)
               PROVE  Echoes(A, B, d[n][x], e[n][y], w)
    BY DEF StepsEcho
  <2>1. n \in 0 .. n /\ x \in DOMAIN D /\ y \in DOMAIN E
    BY <1>3
  <2>2. d[n][x] = round(D, n, d, n, x) /\ e[n][y] = round(E, n, e, n, y)
    BY <1>1, <1>2, <2>1
  <2>3. d[n][x] = Ok(<<>>, x) /\ e[n][y] = Ok(<<>>, y)
    BY <2>2 DEF round
  <2> QED
    BY <2>3, EchoesOk
<1>5. ASSUME NEW k \in 0 .. n, k # n, k + 1 \in S
      PROVE  StepsEcho(A, B, d[k], e[k], w)
  <2> SUFFICES ASSUME NEW x, NEW y, Abreast(A, x, B, y, w)
               PROVE  Echoes(A, B, d[k][x], e[k][y], w)
    BY DEF StepsEcho
  <2>1. x \in DOMAIN D /\ y \in DOMAIN E
    BY <1>3
  <2>2. d[k][x] = round(D, n, d, k, x) /\ e[k][y] = round(E, n, e, k, y)
    BY <1>1, <1>2, <2>1
  <2>3. Goes(d[k][x], D[x], d[k + 1]) /\ Goes(e[k][y], E[y], e[k + 1])
    BY <1>5, <2>2, RoundGoes
  <2>4. Echoes(A, B, D[x], E[y], w)
    BY DEF StepsEcho
  <2>5. StepsEcho(A, B, d[k + 1], e[k + 1], w)
    BY <1>5
  <2>6. D[x].ok => Echoes(A, B, d[k + 1][D[x].pos], e[k + 1][E[y].pos], w)
    BY <2>4, <2>5 DEF Echoes, StepsEcho
  <2> QED
    BY <2>3, <2>4, <2>6, GoesEchoes
<1>6. \A k \in 0 .. n : k \in S
  <2>1. \A k \in 0 .. n : k # n /\ k + 1 \in S => k \in S
    BY <1>5
  <2> HIDE DEF S
  <2> QED
    BY <1>4, <2>1, Downward
<1>7. 0 \in S
  <2>1. 0 \in 0 .. n
    OBVIOUS
  <2> QED
    BY <1>6, <2>1
<1>8. StepsEcho(A, B, d[0], e[0], w)
  BY <1>7
<1>9. Echoes(A, B, d[0][p], e[0][q], w)
  BY <1>8 DEF StepsEcho
<1> QED
  BY <1>1, <1>2, <1>9

\* A loop that goes on to its end.
LEMMA WholeEchoes ==
  ASSUME NEW A \in Seq(Byte), NEW B \in Seq(Byte), NEW w, NEW D, NEW E,
         Taking(D, Len(A)), Taking(E, Len(B)), StepsEcho(A, B, D, E, w),
         NEW p, NEW q, Abreast(A, p, B, q, w)
  PROVE  Echoes(A, B, Rounds(D, Len(A) + 1, p), Rounds(E, Len(B) + 1, q), w)
<1>0. PICK M \in Nat, N \in Nat : M = Len(A) /\ N = Len(B)
  OBVIOUS
<1>1. PICK d : \A x \in 0 .. M : d[x] = from(D, d, x) /\ Rounds(D, M + 1, x) = d[x]
  BY <1>0, WholeLoop
<1>2. PICK e : \A x \in 0 .. N : e[x] = from(E, e, x) /\ Rounds(E, N + 1, x) = e[x]
  BY <1>0, WholeLoop
<1>3. \A x, y : Abreast(A, x, B, y, w) => x \in 0 .. M /\ y \in 0 .. N
  BY <1>0 DEF Abreast, Offsets
<1> DEFINE S == {x \in 0 .. M : \A y : Abreast(A, x, B, y, w) => Echoes(A, B, d[x], e[y], w)}
<1>4. ASSUME NEW x \in 0 .. M, \A z \in x + 1 .. M : z \in S, NEW y, Abreast(A, x, B, y, w)
      PROVE  Echoes(A, B, d[x], e[y], w)
  <2>1. y \in 0 .. N
    BY <1>3, <1>4
  <2>2. d[x] = from(D, d, x) /\ e[y] = from(E, e, y)
    BY <1>1, <1>2, <2>1
  <2>3. Goes(d[x], D[x], d) /\ Goes(e[y], E[y], e)
    BY <2>2, FromGoes
  <2>4. Echoes(A, B, D[x], E[y], w)
    BY <1>4 DEF StepsEcho
  <2>5. ASSUME D[x].ok, D[x].v # <<>> PROVE Echoes(A, B, d[D[x].pos], e[E[y].pos], w)
    <3>1. D[x].pos \in x .. M /\ D[x].pos # x
      BY <1>0, <2>5 DEF Taking
    <3>2. D[x].pos \in x + 1 .. M
      BY <3>1
    <3>3. D[x].pos \in S
      BY <1>4, <3>2
    <3> QED
      BY <2>4, <2>5, <3>3 DEF Echoes
  <2> QED
    BY <2>3, <2>4, <2>5, GoesEchoes
<1>5. \A x \in 0 .. M : x \in S
  <2>1. \A x \in 0 .. M : (\A z \in x + 1 .. M : z \in S) => x \in S
    BY <1>4
  <2> HIDE DEF S
  <2> QED
    BY <2>1, FromLater
<1>6. p \in 0 .. M /\ q \in 0 .. N
  BY <1>3
<1>7. Echoes(A, B, d[p], e[q], w)
  BY <1>5, <1>6
<1> QED
  BY <1>0, <1>1, <1>2, <1>6, <1>7

\* A loop of calls each of which is one round.
LEMMA EachEchoes ==
  ASSUME NEW A \in Seq(Byte), NEW B \in Seq(Byte), NEW w, NEW I, NEW J,
         Within(A, I), Within(B, J), StepsEcho(A, B, I, J, w), NEW n \in Nat,
         NEW p, NEW q, Abreast(A, p, B, q, w)
  PROVE  Echoes(A, B, decode_list(A, p, n, I), decode_list(B, q, n, J), w)
<1> DEFINE D == [x \in Offsets(A) |-> Then(I[x], LAMBDA v, r : Ok(<<v>>, r))]
           E == [x \in Offsets(B) |-> Then(J[x], LAMBDA v, r : Ok(<<v>>, r))]
<1>1. decode_list(A, p, n, I) = Rounds(D, n, p) /\ decode_list(B, q, n, J) = Rounds(E, n, q)
  BY Zenon DEF decode_list
<1>2. \A x \in Offsets(A) : D[x] = IF I[x].ok THEN Ok(<<I[x].v>>, I[x].pos) ELSE I[x]
  BY DEF Then
<1>3. \A x \in Offsets(B) : E[x] = IF J[x].ok THEN Ok(<<J[x].v>>, J[x].pos) ELSE J[x]
  BY DEF Then
<1>4. DOMAIN D = Offsets(A) /\ DOMAIN E = Offsets(B)
  OBVIOUS
<1> HIDE DEF D, E
<1>5. EndsAs(A, D, I) /\ EndsAs(B, E, J)
  <2>1. ASSUME NEW x \in Offsets(A), D[x].ok PROVE I[x].ok /\ D[x].pos = I[x].pos
    <3>1. I[x].ok
      BY <1>2, <2>1
    <3>2. D[x] = Ok(<<I[x].v>>, I[x].pos)
      BY <1>2, <3>1
    <3>3. Ok(<<I[x].v>>, I[x].pos).pos = I[x].pos
      BY OkIs, Zenon
    <3>4. D[x].pos = I[x].pos
      BY <3>2, <3>3
    <3> QED
      BY <3>1, <3>4
  <2>2. ASSUME NEW x \in Offsets(B), E[x].ok PROVE J[x].ok /\ E[x].pos = J[x].pos
    <3>1. J[x].ok
      BY <1>3, <2>2
    <3>2. E[x] = Ok(<<J[x].v>>, J[x].pos)
      BY <1>3, <3>1
    <3>3. Ok(<<J[x].v>>, J[x].pos).pos = J[x].pos
      BY OkIs, Zenon
    <3>4. E[x].pos = J[x].pos
      BY <3>2, <3>3
    <3> QED
      BY <3>1, <3>4
  <2> QED
    BY <2>1, <2>2 DEF EndsAs
<1>6. Closed(D) /\ Closed(E)
  BY <1>4, <1>5, WrappedClosed
<1>7. StepsEcho(A, B, D, E, w)
  <2> SUFFICES ASSUME NEW x, NEW y, Abreast(A, x, B, y, w)
               PROVE  Echoes(A, B, D[x], E[y], w)
    BY DEF StepsEcho
  <2>1. x \in Offsets(A) /\ y \in Offsets(B)
    BY DEF Abreast
  <2>2. Echoes(A, B, I[x], J[y], w)
    BY DEF StepsEcho
  <2>3. I[x].ok /\ J[y].ok => <<I[x].v>> = <<J[y].v>>
    BY <2>2 DEF Echoes
  <2> QED
    BY <1>2, <1>3, <2>1, <2>2, <2>3, EchoesWrapped
<1> QED
  BY <1>1, <1>4, <1>6, <1>7, CountedEchoes

\* An array's numbers.
LEMMA ArrayEchoes ==
  ASSUME NEW A \in Seq(Byte), NEW B \in Seq(Byte), NEW p, NEW q, NEW w \in Int,
         Abreast(A, p, B, q, w), NEW f, NEW g, Twins(f, g), NEW kind \in DOMAIN Size,
         NEW n \in Nat
  PROVE  Echoes(A, B, decode_array(f, A, p, kind, n), decode_array(g, B, q, kind, n), w)
<1> DEFINE I == [x \in Offsets(A) |-> read_number(f, A, x, kind)]
           J == [x \in Offsets(B) |-> read_number(g, B, x, kind)]
           D == [x \in Offsets(A) |-> Then(I[x], LAMBDA v, r : Ok(<<v>>, r))]
           E == [x \in Offsets(B) |-> Then(J[x], LAMBDA v, r : Ok(<<v>>, r))]
           D2 == [x \in Offsets(A) |->
                    Then(read_number(f, A, x, kind), LAMBDA v, r : Ok(<<v>>, r))]
           E2 == [x \in Offsets(B) |->
                    Then(read_number(g, B, x, kind), LAMBDA v, r : Ok(<<v>>, r))]
<1>1. D = D2 /\ E = E2
  OBVIOUS
<1>2. decode_array(f, A, p, kind, n) = Rounds(D2, n, p)
      /\ decode_array(g, B, q, kind, n) = Rounds(E2, n, q)
  BY Zenon DEF decode_array
<1>3. decode_list(A, p, n, I) = Rounds(D, n, p) /\ decode_list(B, q, n, J) = Rounds(E, n, q)
  BY Zenon DEF decode_list
<1>4. Within(A, I) /\ Within(B, J)
  BY NumberYields DEF Within
<1>5. StepsEcho(A, B, I, J, w)
  <2> SUFFICES ASSUME NEW x, NEW y, Abreast(A, x, B, y, w)
               PROVE  Echoes(A, B, I[x], J[y], w)
    BY DEF StepsEcho
  <2>1. x \in Offsets(A) /\ y \in Offsets(B)
    BY DEF Abreast
  <2>2. Echoes(A, B, read_number(f, A, x, kind), read_number(g, B, y, kind), w)
    BY NumberEchoes
  <2> QED
    BY <2>1, <2>2
<1> HIDE DEF I, J, D, E, D2, E2
<1>6. Echoes(A, B, decode_list(A, p, n, I), decode_list(B, q, n, J), w)
  BY <1>4, <1>5, EachEchoes
<1> QED
  BY <1>1, <1>2, <1>3, <1>6

\* An array.
LEMMA ArrayPayloadEchoes ==
  ASSUME NEW A \in Seq(Byte), NEW B \in Seq(Byte), NEW p, NEW q, NEW w \in Int,
         Abreast(A, p, B, q, w), NEW f, NEW g, Twins(f, g), NEW kind \in DOMAIN Elem
  PROVE  Echoes(A, B, decode_array_payload(f, A, p, kind),
                decode_array_payload(g, B, q, kind), w)
<1> DEFINE r == decode_array_payload(f, A, p, kind)
           s == decode_array_payload(g, B, q, kind)
           a == read_array_length(f, A, p)
           b == read_array_length(g, B, q)
           Taken(in, u) == IF kind = "ByteArray" THEN take(in, u.pos, u.v, 1)
                           ELSE Ok(<<>>, u.pos)
           Read(h, in, u) == decode_array(h, in, u.pos, Elem[kind], u.v)
           Made(xs) == IF xs.ok THEN Ok(<<kind, xs.v>>, xs.pos) ELSE xs
           x == Made(Read(f, A, a))
           y == Made(Read(g, B, b))
           c == Taken(A, a)
           d == Taken(B, b)
           x2 == IF c.ok THEN x ELSE c
           y2 == IF d.ok THEN y ELSE d
<1>1. Echoes(A, B, a, b, w)
  BY ArrayLengthEchoes
<1>2. r = (IF a.ok THEN x2 ELSE a) /\ s = (IF b.ok THEN y2 ELSE b)
  BY DEF decode_array_payload, Then
<1>3. a.ok => a.v \in Nat
  <2>1. p \in Offsets(A)
    BY DEF Abreast
  <2> QED
    BY <2>1, ArrayLengthYields
<1> HIDE DEF a, b, r, s
<1>4. ASSUME a.ok, b.ok PROVE Echoes(A, B, x2, y2, w)
  <2>1. b.v = a.v /\ Abreast(A, a.pos, B, b.pos, w) /\ a.v \in Nat
    BY <1>1, <1>3, <1>4 DEF Echoes
  <2>2. Echoes(A, B, c, d, w)
    <3>1. CASE kind = "ByteArray"
      BY <2>1, <3>1, ItemsEchoes
    <3>2. CASE kind # "ByteArray"
      BY <2>1, <3>2, EchoesOk
    <3> QED
      BY <3>1, <3>2
  <2>3. Echoes(A, B, Read(f, A, a), Read(g, B, b), w)
    <3>1. PICK e \in DOMAIN Size : e = Elem[kind]
      BY ElemSize
    <3> QED
      BY <2>1, <3>1, ArrayEchoes
  <2> HIDE DEF c, d, Read, Taken
  <2>4. Echoes(A, B, x, y, w)
    <3> DEFINE xs == Read(f, A, a)
               ys == Read(g, B, b)
    <3>1. xs.ok /\ ys.ok => <<kind, xs.v>> = <<kind, ys.v>>
      BY <2>3 DEF Echoes
    <3>2. x = (IF xs.ok THEN Ok(<<kind, xs.v>>, xs.pos) ELSE xs)
          /\ y = (IF ys.ok THEN Ok(<<kind, ys.v>>, ys.pos) ELSE ys)
      OBVIOUS
    <3> HIDE DEF xs, ys, x, y
    <3>3. Echoes(A, B, xs, ys, w)
      BY <2>3 DEF xs, ys
    <3> QED
      BY <3>1, <3>2, <3>3, EchoesWrapped
  <2> HIDE DEF x, y
  <2> QED
    BY <2>2, <2>4, EchoesOn
<1> HIDE DEF x2, y2
<1> QED
  BY <1>1, <1>2, <1>4, EchoesOn DEF r, s

-----------------------------------------------------------------------------
(* Lists and compounds, by what is one level down.                         *)

InnerEchoes(A, B, I, J, w) ==
  \A kind \in Kinds : StepsEcho(A, B, I[kind], J[kind], w)

LEMMA ListEchoes ==
  ASSUME NEW A \in Seq(Byte), NEW B \in Seq(Byte), NEW p, NEW q, NEW w \in Int,
         Abreast(A, p, B, q, w), NEW f, NEW g, Twins(f, g),
         NEW I, NEW I2, NEW J, NEW J2, Agree(f, A, I, I2), Agree(g, B, J, J2),
         InnerEchoes(A, B, I, J, w - 1)
  PROVE  Echoes(A, B, decode_list_payload(f, A, p, I), decode_list_payload(g, B, q, J), w - 1)
<1> DEFINE v == w - 1
           r == decode_list_payload(f, A, p, I)
           s == decode_list_payload(g, B, q, J)
           t == read_tag_byte(A, p)
           u == read_tag_byte(B, q)
           a == read_array_length(f, A, t.pos)
           b == read_array_length(g, B, u.pos)
           xs == IF t.v = "End" THEN Ok(<<>>, a.pos) ELSE decode_list(A, a.pos, a.v, I[t.v])
           ys == IF u.v = "End" THEN Ok(<<>>, b.pos) ELSE decode_list(B, b.pos, b.v, J[u.v])
           x == IF xs.ok THEN Ok(<<"List", xs.v>>, xs.pos) ELSE xs
           y == IF ys.ok THEN Ok(<<"List", ys.v>>, ys.pos) ELSE ys
           x2 == IF a.ok THEN x ELSE a
           y2 == IF b.ok THEN y ELSE b
<1>0. v \in Int
  OBVIOUS
<1>1. Echoes(A, B, t, u, v)
  BY TagEchoes
<1>2. r = (IF t.ok THEN x2 ELSE t) /\ s = (IF u.ok THEN y2 ELSE u)
  BY DEF decode_list_payload, Then
<1>3. t.ok => t.v = "End" \/ t.v \in Kinds
  <2>1. p \in Offsets(A)
    BY DEF Abreast
  <2> QED
    BY <2>1, TagByteYields
<1>4. InnerEchoes(A, B, I, J, v)
  OBVIOUS
<1> HIDE DEF t, u, r, s, v
<1>5. ASSUME t.ok, u.ok PROVE Echoes(A, B, x2, y2, v)
  <2>1. u.v = t.v /\ Abreast(A, t.pos, B, u.pos, v)
    BY <1>1, <1>5 DEF Echoes
  <2>2. Echoes(A, B, a, b, v)
    BY <1>0, <2>1, ArrayLengthEchoes
  <2>3. a.ok => a.v \in Nat
    <3>1. t.pos \in Offsets(A)
      BY <2>1 DEF Abreast
    <3> QED
      BY <3>1, ArrayLengthYields
  <2> HIDE DEF a, b
  <2>4. ASSUME a.ok, b.ok PROVE Echoes(A, B, xs, ys, v)
    <3>1. b.v = a.v /\ Abreast(A, a.pos, B, b.pos, v) /\ a.v \in Nat
      BY <2>2, <2>3, <2>4 DEF Echoes
    <3>2. CASE t.v = "End"
      BY <2>1, <3>1, <3>2, EchoesOk
    <3>3. CASE t.v # "End"
      <4>1. t.v \in Kinds
        BY <1>3, <1>5, <3>3
      <4>2. Within(A, I[t.v]) /\ Within(B, J[t.v])
        BY <4>1 DEF Within, Agree, Same
      <4>3. StepsEcho(A, B, I[t.v], J[t.v], v)
        BY <1>4, <4>1 DEF InnerEchoes
      <4>4. Echoes(A, B, decode_list(A, a.pos, a.v, I[t.v]),
                   decode_list(B, b.pos, a.v, J[t.v]), v)
        BY <3>1, <4>2, <4>3, EachEchoes
      <4> QED
        BY <2>1, <3>1, <3>3, <4>4
    <3> QED
      BY <3>2, <3>3
  <2> HIDE DEF xs, ys
  <2>5. ASSUME a.ok, b.ok PROVE Echoes(A, B, x, y, v)
    <3>1. Echoes(A, B, xs, ys, v)
      BY <2>4, <2>5
    <3>2. xs.ok /\ ys.ok => <<"List", xs.v>> = <<"List", ys.v>>
      BY <3>1 DEF Echoes
    <3> HIDE DEF x, y
    <3> QED
      BY <3>1, <3>2, EchoesWrapped DEF x, y
  <2> HIDE DEF x, y
  <2> QED
    BY <2>2, <2>5, EchoesOn
<1> HIDE DEF x2, y2
<1>6. Echoes(A, B, r, s, v)
  BY <1>1, <1>2, <1>5, EchoesOn
<1> QED
  BY <1>6 DEF r, s, v

LEMMA EntryEchoes ==
  ASSUME NEW A \in Seq(Byte), NEW B \in Seq(Byte), NEW p, NEW q, NEW w \in Int,
         Abreast(A, p, B, q, w), NEW f, NEW g, Twins(f, g), NEW I, NEW J,
         InnerEchoes(A, B, I, J, w - 1)
  PROVE  Echoes(A, B, decode_entry(f, A, p, I), decode_entry(g, B, q, J), w - 1)
<1> DEFINE v == w - 1
           r == decode_entry(f, A, p, I)
           s == decode_entry(g, B, q, J)
           t == read_tag_byte(A, p)
           u == read_tag_byte(B, q)
           a == read_string(f, A, t.pos)
           b == read_string(g, B, u.pos)
           xs == I[t.v][a.pos]
           ys == J[u.v][b.pos]
           x == IF xs.ok THEN Ok(<< <<a.v, xs.v>> >>, xs.pos) ELSE xs
           y == IF ys.ok THEN Ok(<< <<b.v, ys.v>> >>, ys.pos) ELSE ys
           x2 == IF a.ok THEN x ELSE a
           y2 == IF b.ok THEN y ELSE b
           x3 == IF t.v = "End" THEN Ok(<<>>, t.pos) ELSE x2
           y3 == IF u.v = "End" THEN Ok(<<>>, u.pos) ELSE y2
<1>0. v \in Int
  OBVIOUS
<1>1. Echoes(A, B, t, u, v)
  BY TagEchoes
<1>2. r = (IF t.ok THEN x3 ELSE t) /\ s = (IF u.ok THEN y3 ELSE u)
  BY DEF decode_entry, Then
<1>3. t.ok => t.v = "End" \/ t.v \in Kinds
  <2>1. p \in Offsets(A)
    BY DEF Abreast
  <2> QED
    BY <2>1, TagByteYields
<1>4. InnerEchoes(A, B, I, J, v)
  OBVIOUS
<1> HIDE DEF t, u, r, s, v
<1>5. ASSUME t.ok, u.ok PROVE Echoes(A, B, x3, y3, v)
  <2>1. u.v = t.v /\ Abreast(A, t.pos, B, u.pos, v)
    BY <1>1, <1>5 DEF Echoes
  <2>2. Echoes(A, B, a, b, v)
    BY <1>0, <2>1, StringEchoes
  <2> HIDE DEF a, b
  <2>3. CASE t.v = "End"
    BY <2>1, <2>3, EchoesOk
  <2>4. CASE t.v # "End"
    <3>1. t.v \in Kinds
      BY <1>3, <1>5, <2>4
    <3>2. ASSUME a.ok, b.ok PROVE Echoes(A, B, x, y, v)
      <4>1. b.v = a.v /\ Abreast(A, a.pos, B, b.pos, v)
        BY <2>2, <3>2 DEF Echoes
      <4>2. Echoes(A, B, xs, ys, v)
        BY <1>4, <2>1, <3>1, <4>1 DEF InnerEchoes, StepsEcho
      <4>3. xs.ok /\ ys.ok => << <<a.v, xs.v>> >> = << <<b.v, ys.v>> >>
        BY <4>1, <4>2 DEF Echoes
      <4> HIDE DEF x, y, xs, ys
      <4> QED
        BY <4>2, <4>3, EchoesWrapped DEF x, y
    <3> HIDE DEF x, y
    <3>3. Echoes(A, B, x2, y2, v)
      BY <2>2, <3>2, EchoesOn
    <3> QED
      BY <2>1, <2>4, <3>3
  <2> QED
    BY <2>3, <2>4
<1> HIDE DEF x3, y3
<1>6. Echoes(A, B, r, s, v)
  BY <1>1, <1>2, <1>5, EchoesOn
<1> QED
  BY <1>6 DEF r, s, v

LEMMA CompoundEchoes ==
  ASSUME NEW A \in Seq(Byte), NEW B \in Seq(Byte), NEW p, NEW q, NEW w \in Int,
         Abreast(A, p, B, q, w), NEW f, NEW g, Twins(f, g),
         NEW I, NEW I2, NEW J, NEW J2, Agree(f, A, I, I2), Agree(g, B, J, J2),
         InnerEchoes(A, B, I, J, w - 1)
  PROVE  Echoes(A, B, decode_compound(f, A, p, I), decode_compound(g, B, q, J), w)
<1> DEFINE D == [x \in Offsets(A) |-> decode_entry(f, A, x, I)]
           E == [x \in Offsets(B) |-> decode_entry(g, B, x, J)]
<1>0. f \in Formats /\ g \in Formats
  BY DEF Twins
<1>1. decode_compound(f, A, p, I) = Rounds(D, Len(A) + 1, p)
      /\ decode_compound(g, B, q, J) = Rounds(E, Len(B) + 1, q)
  BY Zenon DEF decode_compound
<1>2. Taking(D, Len(A)) /\ Taking(E, Len(B))
  BY <1>0, CompoundTaking
<1>3. StepsEcho(A, B, D, E, w)
  <2> SUFFICES ASSUME NEW x, NEW y, Abreast(A, x, B, y, w)
               PROVE  Echoes(A, B, D[x], E[y], w)
    BY DEF StepsEcho
  <2>1. x \in Offsets(A) /\ y \in Offsets(B)
    BY DEF Abreast
  <2>2. Echoes(A, B, decode_entry(f, A, x, I), decode_entry(g, B, y, J), w - 1)
    BY EntryEchoes
  <2>3. w - 1 \in Int /\ w - 1 <= w
    OBVIOUS
  <2>4. Echoes(A, B, decode_entry(f, A, x, I), decode_entry(g, B, y, J), w)
    BY <2>2, <2>3, EchoesWide
  <2> QED
    BY <2>1, <2>4
<1> HIDE DEF D, E
<1> QED
  BY <1>1, <1>2, <1>3, WholeEchoes

\* A payload of any kind.
LEMMA PayloadEchoes ==
  ASSUME NEW A \in Seq(Byte), NEW B \in Seq(Byte), NEW p, NEW q, NEW w \in Int,
         Abreast(A, p, B, q, w), NEW f, NEW g, Twins(f, g), NEW kind \in Kinds,
         NEW l \in Nat, NEW m \in Nat, m # 0,
         NEW I, NEW I2, NEW J, NEW J2,
         l # 0 => Agree(f, A, I, I2) /\ InnerEchoes(A, B, I, J, w - 1),
         Agree(g, B, J, J2)
  PROVE  Echoes(A, B, decode_payload(f, A, p, kind, l, I),
                decode_payload(g, B, q, kind, m, J), w)
<1> DEFINE r == decode_payload(f, A, p, kind, l, I)
           s == decode_payload(g, B, q, kind, m, J)
<1>1. CASE l = 0
  <2>1. r.ok = FALSE
    BY <1>1 DEF decode_payload, Err
  <2> QED
    BY <2>1, EchoesErr
<1>2. CASE l # 0
  <2>0. Agree(f, A, I, I2) /\ InnerEchoes(A, B, I, J, w - 1)
    BY <1>2
  <2>1. CASE kind \in DOMAIN Size
    <3> DEFINE x == read_number(f, A, p, kind)
               y == read_number(g, B, q, kind)
    <3>1. r = IF x.ok THEN Ok(<<kind, x.v>>, x.pos) ELSE x
      BY <1>2, <2>1 DEF decode_payload, Then
    <3>2. s = IF y.ok THEN Ok(<<kind, y.v>>, y.pos) ELSE y
      BY <2>1 DEF decode_payload, Then
    <3>3. Echoes(A, B, x, y, w)
      BY <2>1, NumberEchoes
    <3> HIDE DEF x, y, r, s
    <3>4. x.ok /\ y.ok => <<kind, x.v>> = <<kind, y.v>>
      BY <3>3 DEF Echoes
    <3> QED
      BY <3>1, <3>2, <3>3, <3>4, EchoesWrapped DEF r, s
  <2>2. CASE kind \notin DOMAIN Size /\ kind \in DOMAIN Elem
    <3>1. r = decode_array_payload(f, A, p, kind) /\ s = decode_array_payload(g, B, q, kind)
      BY <1>2, <2>2 DEF decode_payload
    <3> QED
      BY <2>2, <3>1, ArrayPayloadEchoes
  <2>3. CASE kind \notin DOMAIN Size /\ kind \notin DOMAIN Elem /\ kind = "String"
    <3> DEFINE x == read_string(f, A, p)
               y == read_string(g, B, q)
    <3>1. r = IF x.ok THEN Ok(<<"String", x.v>>, x.pos) ELSE x
      BY <1>2, <2>3 DEF decode_payload, Then
    <3>2. s = IF y.ok THEN Ok(<<"String", y.v>>, y.pos) ELSE y
      BY <2>3 DEF decode_payload, Then
    <3>3. Echoes(A, B, x, y, w)
      BY StringEchoes
    <3> HIDE DEF x, y, r, s
    <3>4. x.ok /\ y.ok => <<"String", x.v>> = <<"String", y.v>>
      BY <3>3 DEF Echoes
    <3> QED
      BY <3>1, <3>2, <3>3, <3>4, EchoesWrapped DEF r, s
  <2>4. CASE /\ kind \notin DOMAIN Size /\ kind \notin DOMAIN Elem /\ kind # "String"
             /\ kind = "List"
    <3>1. r = decode_list_payload(f, A, p, I) /\ s = decode_list_payload(g, B, q, J)
      BY <1>2, <2>4 DEF decode_payload
    <3>2. Echoes(A, B, r, s, w - 1)
      BY <2>0, <3>1, ListEchoes
    <3>3. w - 1 \in Int /\ w - 1 <= w
      OBVIOUS
    <3> HIDE DEF r, s
    <3> QED
      BY <3>2, <3>3, EchoesWide DEF r, s
  <2>5. CASE /\ kind \notin DOMAIN Size /\ kind \notin DOMAIN Elem /\ kind # "String"
             /\ kind # "List" /\ kind = "Compound"
    <3> DEFINE x == decode_compound(f, A, p, I)
               y == decode_compound(g, B, q, J)
    <3>1. r = IF x.ok THEN Ok(<<"Compound", x.v>>, x.pos) ELSE x
      BY <1>2, <2>5 DEF decode_payload, Then
    <3>2. s = IF y.ok THEN Ok(<<"Compound", y.v>>, y.pos) ELSE y
      BY <2>5 DEF decode_payload, Then
    <3>3. Echoes(A, B, x, y, w)
      BY <2>0, CompoundEchoes
    <3> HIDE DEF x, y, r, s
    <3>4. x.ok /\ y.ok => <<"Compound", x.v>> = <<"Compound", y.v>>
      BY <3>3 DEF Echoes
    <3> QED
      BY <3>1, <3>2, <3>3, <3>4, EchoesWrapped DEF r, s
  <2> HIDE DEF r, s
  <2> QED
    BY <2>1, <2>2, <2>3, <2>4, <2>5, KindCases
<1> QED
  BY <1>1, <1>2

\* Decode with l levels in one buffer, and with m in the other: enough, if
\* there are as many, or more than there are bytes.
LEMMA LevelsEcho ==
  ASSUME NEW A \in Seq(Byte), NEW B \in Seq(Byte), NEW f, NEW g, Twins(f, g),
         NEW n \in Nat, NEW o \in Nat, NEW D, NEW D2, NEW E, NEW E2,
         \A k \in 0 .. n : Leveled(f, A, D, D2, k),
         \A k \in 0 .. o : Leveled(g, B, E, E2, k)
  PROVE  \A l \in 0 .. n : \A m \in 0 .. o : \A w \in Int :
           l <= m \/ w < m => InnerEchoes(A, B, D[l], E[m], w)
<1> DEFINE Good(l) == \A m \in 0 .. o : \A w \in Int :
                        l <= m \/ w < m => InnerEchoes(A, B, D[l], E[m], w)
           S == {l \in Nat : l <= n => Good(l)}
<1>1. ASSUME NEW l \in 0 .. n, l # 0 => Good(l - 1) PROVE Good(l)
  <2> SUFFICES ASSUME NEW m \in 0 .. o, NEW w \in Int, l <= m \/ w < m,
                      NEW kind \in Kinds, NEW p, NEW q, Abreast(A, p, B, q, w)
               PROVE  Echoes(A, B, D[l][kind][p], E[m][kind][q], w)
    BY DEF InnerEchoes, StepsEcho
  <2>0. p \in Offsets(A) /\ q \in Offsets(B) /\ l \in Nat /\ m \in Nat
    BY DEF Abreast
  <2>1. D[l][kind][p] = decode_payload(f, A, p, kind, l, D[l - 1])
    BY <2>0 DEF Leveled
  <2>2. CASE l = 0
    <3>1. D[l][kind][p].ok = FALSE
      BY <2>1, <2>2 DEF decode_payload, Err
    <3> QED
      BY <3>1, EchoesErr
  <2>3. CASE l # 0
    <3>1. w >= 0
      BY DEF Abreast, Offsets
    <3>2. m # 0 /\ m - 1 \in 0 .. o /\ l - 1 \in 0 .. n /\ w - 1 \in Int
          /\ (l - 1 <= m - 1 \/ w - 1 < m - 1)
      BY <2>3, <3>1
    <3>3. InnerEchoes(A, B, D[l - 1], E[m - 1], w - 1)
      BY <1>1, <2>3, <3>2
    <3>4. Agree(f, A, D[l - 1], D2[l - 1]) /\ Agree(g, B, E[m - 1], E2[m - 1])
      BY <3>2 DEF Leveled
    <3>5. E[m][kind][q] = decode_payload(g, B, q, kind, m, E[m - 1])
      BY <2>0 DEF Leveled
    <3>6. Echoes(A, B, decode_payload(f, A, p, kind, l, D[l - 1]),
                 decode_payload(g, B, q, kind, m, E[m - 1]), w)
      BY <2>0, <3>2, <3>3, <3>4, PayloadEchoes
    <3> QED
      BY <2>1, <3>5, <3>6
  <2> QED
    BY <2>2, <2>3
<1> HIDE DEF Good
<1>2. 0 \in S
  <2>1. 0 \in 0 .. n
    OBVIOUS
  <2> QED
    BY <1>1, <2>1
<1>3. ASSUME NEW l \in Nat, l \in S PROVE l + 1 \in S
  <2> SUFFICES ASSUME l + 1 <= n PROVE Good(l + 1)
    OBVIOUS
  <2>1. l + 1 \in 0 .. n /\ (l + 1) - 1 = l /\ l <= n
    OBVIOUS
  <2>2. Good(l)
    BY <1>3, <2>1
  <2> QED
    BY <1>1, <2>1, <2>2
<1>4. \A l \in Nat : l \in S
  <2> HIDE DEF S
  <2> QED
    BY <1>2, <1>3, Upward
<1>5. \A l \in 0 .. n : Good(l)
  BY <1>4
<1> QED
  BY <1>5 DEF Good

-----------------------------------------------------------------------------
(* What materialise() makes of a view: what decode makes of the payload.   *)

\* The format materialise() decodes, and what it writes for an empty name.
Unnamed(f) == IF f \in Java THEN "JavaAnonymousRoot" ELSE f
EmptyName(f) ==
  IF f \in Java THEN <<>> ELSE IF f = "BedrockLittleEndian" THEN <<0, 0>> ELSE << 0 >>

LEMMA UnnamedTwins ==
  ASSUME NEW f \in Formats
  PROVE  /\ Unnamed(f) \in Formats /\ Twins(f, Unnamed(f)) /\ Twins(Unnamed(f), f)
         /\ f \in Java => Unnamed(f) = "JavaAnonymousRoot"
         /\ f \notin Java => Unnamed(f) = f
BY DEF Unnamed, Twins, Formats, Java, Bedrock

LEMMA EmptyNameBytes ==
  ASSUME NEW f \in Formats
  PROVE  /\ EmptyName(f) \in Seq(Byte)
         /\ Len(EmptyName(f)) \in Nat
         /\ f \in Java => Len(EmptyName(f)) = 0
         /\ f \notin Java => EmptyName(f) = Header(f, 0)
<1>0. 0 \in Byte /\ 0 \in Nat
  BY DEF Byte
<1>1. EmptyName(f) \in Seq(Byte) /\ Len(EmptyName(f)) \in Nat
      /\ (f \in Java => Len(EmptyName(f)) = 0)
  BY <1>0 DEF EmptyName
<1>2. CASE f = "BedrockLittleEndian"
  <2>1. f \notin Java /\ f # "BedrockVarInt"
    BY <1>2 DEF Java
  <2> DEFINE b == big_endian_bytes(0, 2)
  <2>2. b \in Seq(Byte) /\ Len(b) = 2 /\ b[1] = 0 /\ b[2] = 0
    <3>1. /\ 0 \in Int /\ 2 \in {1, 2, 4, 8} /\ 1 \in 1 .. 2 /\ 2 \in 1 .. 2
          /\ ~ (2 - 1 >= 4) /\ ~ (2 - 2 >= 4) /\ 2 - 1 + 1 = 2 /\ 2 - 2 + 1 = 1
      OBVIOUS
    <3>2. /\ b \in Seq(Byte) /\ Len(b) = 2
          /\ \A i \in 1 .. 2 :
               b[i] = IF 2 - i >= 4 THEN (IF 0 < 0 THEN 255 ELSE 0)
                      ELSE (0 \div Scale[2 - i + 1]) % 256
      BY <3>1, BytesOf
    <3> HIDE DEF b
    <3>3. b[1] = (0 \div Scale[2]) % 256 /\ b[2] = (0 \div Scale[1]) % 256
      BY <3>1, <3>2
    <3>4. (0 \div 256) % 256 = 0 /\ (0 \div 1) % 256 = 0
      BY SMT
    <3> QED
      BY <3>2, <3>3, <3>4, ScaleIs
  <2> HIDE DEF b
  <2>3. Reverse(b) = <<0, 0>>
    <3>1. Reverse(b) = [i \in 1 .. 2 |-> b[(2 - i) + 1]]
      BY <2>2 DEF Reverse
    <3>2. Reverse(b) \in Seq(Byte) /\ Len(Reverse(b)) = 2
          /\ Reverse(b)[1] = b[2] /\ Reverse(b)[2] = b[1]
      BY <2>2, <3>1
    <3>3. <<0, 0>> \in Seq(Byte) /\ Len(<<0, 0>>) = 2
      BY <1>0
    <3>4. \A i \in 1 .. 2 : Reverse(b)[i] = <<0, 0>>[i]
      BY <2>2, <3>2
    <3> QED
      BY <3>2, <3>3, <3>4, SameBytes
  <2>4. Header(f, 0) = Reverse(b)
    BY <2>1 DEF Header, big_endian, b
  <2> QED
    BY <1>1, <1>2, <2>1, <2>3, <2>4 DEF EmptyName
<1>3. CASE f = "BedrockVarInt"
  <2>1. f \notin Java /\ f # "BedrockLittleEndian"
    BY <1>3 DEF Java
  <2>2. uvarint_size(0) = 1
    <3>1. PICK n : n = uvarint_size(0)
      OBVIOUS
    <3>2. n \in 1 .. 5 /\ (n = 1 \/ 0 >= Weights[n])
      BY <1>0, <3>1, UvarintSize
    <3>3. \A i \in 1 .. 5 : ~ (0 >= Weights[i])
      BY DEF Weights
    <3> QED
      BY <3>1, <3>2, <3>3
  <2>3. write_uvarint(0) = << 0 >>
    <3>1. write_uvarint(0) = [i \in 1 .. 1 |->
            ((0 \div Weights[i]) % 128) + (IF i < 1 THEN 128 ELSE 0)]
      BY <2>2 DEF write_uvarint
    <3>2. Weights[1] = 1 /\ (0 \div 1) % 128 = 0
      BY SMT DEF Weights
    <3>3. write_uvarint(0)[1] = 0 /\ Len(write_uvarint(0)) = 1
      BY <3>1, <3>2
    <3>4. write_uvarint(0) \in Seq(Byte) /\ << 0 >> \in Seq(Byte) /\ Len(<< 0 >>) = 1
      BY <1>0, UvarintBytes
    <3>5. \A i \in 1 .. 1 : write_uvarint(0)[i] = << 0 >>[i]
      BY <3>3
    <3> QED
      BY <3>3, <3>4, <3>5, SameBytes
  <2> QED
    BY <1>1, <1>3, <2>1, <2>3 DEF EmptyName, Header
<1> QED
  BY <1>1, <1>2, <1>3 DEF Formats, Java, Bedrock

\* An empty name is read as one.
LEMMA EmptyNameGets ==
  ASSUME NEW f \in Formats, f \notin Java, NEW in \in Seq(Byte), NEW p \in Offsets(in),
         Stand(in, p, EmptyName(f)), NEW deep
  PROVE  Gets(read_string(f, in, p), <<>>, p, Len(EmptyName(f)), Len(in), deep)
<1> DEFINE u == skip_string(f, in, p)
           r == read_string(f, in, p)
           t == <<>>
<1>1. f \in Bedrock
  BY DEF Formats
<1>2. r = IF u.ok THEN Ok(u.v, u.pos) ELSE u
  BY <1>1 DEF read_string, Then
<1>3. t \in Seq(Byte) /\ Len(t) = 0 /\ Countable(f, 0)
  BY DEF Countable, INT32_MAX
<1>4. PICK out : out = EmptyName(f)
  OBVIOUS
<1>5. out = Header(f, 0) /\ out \in Seq(Byte)
  BY <1>4, EmptyNameBytes
<1>6. out = Header(f, Len(t)) \o t
  <2>1. out \o t = out
    BY <1>5
  <2> QED
    BY <1>3, <1>5, <2>1
<1> HIDE DEF u, r, t
<1>7. Gets(u, t, p, Len(out), Len(in), deep)
  BY <1>3, <1>4, <1>6, RawGets DEF u
<1>8. r = IF u.ok THEN Ok(t, u.pos) ELSE u
  BY <1>2, <1>7 DEF Gets
<1>9. Gets(r, t, p, Len(out), Len(in), deep)
  BY <1>7, <1>8, GetsAs
<1> QED
  BY <1>4, <1>9 DEF r, t

\* The second of two pieces.
LEMMA SecondOf ==
  ASSUME NEW s \in Seq(Byte), NEW t \in Seq(Byte)
  PROVE  \A i \in 1 .. Len(t) : (s \o t)[Len(s) + i] = t[i]
OBVIOUS

\* A tag byte, an empty name in the Bedrock dialects, the rest of the buffer.
WireOf(f, in, kind, p) ==
  <<tag_byte(kind)>> \o EmptyName(f) \o SubSeq(in, p + 1, Len(in))

LEMMA WireIs ==
  ASSUME NEW f \in Formats, NEW in \in Seq(Byte), NEW p \in Offsets(in),
         NEW kind \in Kinds, NEW wire, wire = WireOf(f, in, kind, p),
         NEW h, h = 1 + Len(EmptyName(f))
  PROVE  /\ wire \in Seq(Byte) /\ 0 \in Offsets(wire) /\ 1 \in Offsets(wire)
         /\ h <= Len(wire)
         /\ Stand(wire, 0, <<tag_byte(kind)>>) /\ Stand(wire, 1, EmptyName(f))
         /\ Abreast(in, p, wire, h, Len(in) - p)
<1>1. PICK a \in Seq(Byte), b \in Seq(Byte) :
        a = <<tag_byte(kind)>> /\ b = EmptyName(f) /\ Len(a) = 1
  <2>1. <<tag_byte(kind)>> \in Seq(Byte) /\ Len(<<tag_byte(kind)>>) = 1
    BY TagBytes
  <2> QED
    BY <2>1, EmptyNameBytes
<1>2. PICK n \in Nat : n = Len(in) - p
  BY DEF Offsets
<1>3. PICK c : c = SubSeq(in, p + 1, p + n)
  OBVIOUS
<1>4. c \in Seq(Byte) /\ Len(c) = n /\ \A i \in 1 .. n : c[i] = in[p + i]
  <2>1. n <= Len(in) - p
    BY <1>2
  <2> QED
    BY <1>3, <2>1, BytesAt
<1>5. p + n = Len(in) /\ p \in Nat /\ Len(in) \in Nat
  BY <1>2 DEF Offsets
<1>6. PICK ab : ab = a \o b
  OBVIOUS
<1>7. wire = ab \o c
  BY <1>1, <1>3, <1>5, <1>6 DEF WireOf
<1>8. ab \in Seq(Byte) /\ Len(ab) = h /\ h \in Nat /\ Len(b) \in Nat /\ h = 1 + Len(b)
  BY <1>1, <1>6
<1>9. wire \in Seq(Byte) /\ Len(wire) = h + n
  <2>1. Len(ab \o c) = Len(ab) + Len(c)
    BY <1>4, <1>8, BothLong
  <2> QED
    BY <1>4, <1>7, <1>8, <2>1
<1>10. Stand(wire, 0, wire)
  BY DEF Stand
<1>11. Stand(wire, 0, ab)
  BY <1>4, <1>7, <1>8, <1>10, StandBoth
<1>12. Stand(wire, 0, a) /\ Stand(wire, 1, b)
  <2>1. Stand(wire, 0, a) /\ Stand(wire, 0 + Len(a), b)
    BY <1>6, <1>11, StandBoth
  <2>2. 0 + Len(a) = 1
    BY <1>1
  <2> QED
    BY <2>1, <2>2
<1>13. \A i \in 1 .. n : wire[h + i] = c[i]
  <2>1. \A i \in 1 .. Len(c) : (ab \o c)[Len(ab) + i] = c[i]
    BY <1>4, <1>8, SecondOf
  <2> QED
    BY <1>4, <1>7, <1>8, <2>1
<1>14. Abreast(in, p, wire, h, Len(in) - p)
  <2>1. h \in Offsets(wire) /\ Len(in) - p = Len(wire) - h
    <3>1. Offsets(wire) = 0 .. h + n
      BY <1>9 DEF Offsets
    <3> QED
      BY <1>2, <1>8, <1>9, <3>1
  <2>2. \A i \in 1 .. Len(in) - p : in[p + i] = wire[h + i]
    BY <1>2, <1>4, <1>13
  <2> QED
    BY <1>5, <2>1, <2>2 DEF Abreast
<1> QED
  BY <1>1, <1>8, <1>9, <1>12, <1>14 DEF Offsets

\* What decode makes of that.
LEMMA WireReads ==
  ASSUME NEW f \in Formats, NEW in \in Seq(Byte), NEW p \in Offsets(in),
         NEW kind \in Kinds, NEW wire, wire = WireOf(f, in, kind, p),
         NEW h, h = 1 + Len(EmptyName(f)),
         NEW x, x = decode_payloads(Unnamed(f), wire)[kind][h]
  PROVE  decode(Unnamed(f), wire, 0) = IF x.ok THEN Ok(<< <<>>, x.v>>, x.pos) ELSE x
<1> DEFINE g == Unnamed(f)
           t == read_tag_byte(wire, 0)
           d == decode(g, wire, 0)
<1>0. kind # "End" /\ kind \in Kinds \cup {"End"}
  BY EndIsNone
<1>1. wire \in Seq(Byte) /\ 0 \in Offsets(wire) /\ 1 \in Offsets(wire) /\ h <= Len(wire)
      /\ Stand(wire, 0, <<tag_byte(kind)>>) /\ Stand(wire, 1, EmptyName(f))
      /\ Len(wire) \in Nat
  <2>1. wire \in Seq(Byte) /\ 0 \in Offsets(wire) /\ 1 \in Offsets(wire) /\ h <= Len(wire)
        /\ Stand(wire, 0, <<tag_byte(kind)>>) /\ Stand(wire, 1, EmptyName(f))
    BY WireIs
  <2> QED
    BY <2>1
<1>2. PICK deep : deep = FALSE
  OBVIOUS
<1>3. t.ok /\ t.v = kind /\ t.pos = 1
  <2>1. Gets(t, kind, 0, 1, Len(wire), deep)
    BY <1>0, <1>1, TagGets
  <2>2. ~ (0 + 1 > Len(wire)) /\ 0 + 1 = 1
    BY <1>1 DEF Offsets
  <2> HIDE DEF t
  <2> QED
    BY <1>2, <2>1, <2>2 DEF Gets
<1> HIDE DEF t
<1>4. CASE f \in Java
  <2>1. g = "JavaAnonymousRoot"
    BY <1>4 DEF Unnamed
  <2>2. d = decode_java_anonymous(wire, 0)
    BY <2>1 DEF decode
  <2>3. h = 1
    BY <1>4, EmptyNameBytes
  <2>4. x = decode_payloads("JavaAnonymousRoot", wire)[t.v][t.pos]
    BY <1>3, <2>1, <2>3
  <2>5. d = IF x.ok THEN Ok(<< <<>>, x.v>>, x.pos) ELSE x
    BY <1>0, <1>3, <2>2, <2>4 DEF decode_java_anonymous, Then, t
  <2> QED
    BY <2>5
<1>5. CASE f \notin Java
  <2>1. g = f /\ f # "JavaAnonymousRoot"
    BY <1>5 DEF Unnamed, Java
  <2>2. d = decode_named(f, wire, 0)
    BY <1>5, <2>1 DEF decode, decode_java_named, decode_bedrock_le, decode_bedrock_varint,
                      Formats, Java, Bedrock
  <2> DEFINE s == read_string(f, wire, 1)
  <2>3. s.ok /\ s.v = <<>> /\ s.pos = h
    <3>1. Gets(s, <<>>, 1, Len(EmptyName(f)), Len(wire), deep)
      BY <1>1, <1>5, EmptyNameGets
    <3>2. ~ (1 + Len(EmptyName(f)) > Len(wire))
      BY <1>1, EmptyNameBytes
    <3> HIDE DEF s
    <3> QED
      BY <1>2, <3>1, <3>2 DEF Gets
  <2>4. x = decode_payloads(f, wire)[t.v][s.pos]
    BY <1>3, <2>1, <2>3
  <2>5. s = read_string(f, wire, t.pos)
    BY <1>3
  <2> HIDE DEF s
  <2>6. d = IF x.ok THEN Ok(<<s.v, x.v>>, x.pos) ELSE x
    BY <1>0, <1>3, <2>2, <2>3, <2>4, <2>5 DEF decode_named, Then, t
  <2> QED
    BY <2>3, <2>6
<1> QED
  BY <1>4, <1>5

\* What one gives, the other does.
Gives(x, d) == x.ok \in BOOLEAN /\ (x.ok <=> d.ok) /\ (d.ok => x.v = d.v)

\* The same bytes are the same payloads.
LEMMA PayloadsEcho ==
  ASSUME NEW A \in Seq(Byte), NEW B \in Seq(Byte), NEW f, NEW g, Twins(f, g),
         NEW kind \in Kinds, NEW w \in Int, NEW p, NEW q, Abreast(A, p, B, q, w)
  PROVE  Echoes(A, B, decode_payloads(f, A)[kind][p], decode_payloads(g, B)[kind][q], w)
<1>1. f \in Formats /\ g \in Formats
  BY DEF Twins
<1>2. PICK n \in Nat : n = kMaxDecodeDepth
  BY DepthAssumption
<1>3. PICK D, D2 : /\ \A k \in 0 .. n : Leveled(f, A, D, D2, k)
                   /\ decode_payloads(f, A) = D[n]
  BY <1>1, <1>2, LevelsAgree
<1>4. PICK E, E2 : /\ \A k \in 0 .. n : Leveled(g, B, E, E2, k)
                   /\ decode_payloads(g, B) = E[n]
  BY <1>1, <1>2, LevelsAgree
<1>5. n \in 0 .. n /\ n <= n
  OBVIOUS
<1>6. \A l \in 0 .. n : \A m \in 0 .. n : \A v \in Int :
        l <= m \/ v < m => InnerEchoes(A, B, D[l], E[m], v)
  BY <1>3, <1>4, LevelsEcho
<1>7. InnerEchoes(A, B, D[n], E[n], w)
  BY <1>5, <1>6
<1> QED
  BY <1>3, <1>4, <1>7 DEF InnerEchoes, StepsEcho

\* materialise() gives what decode makes of the payload.
LEMMA Materialised ==
  ASSUME NEW f \in Formats, NEW in \in Seq(Byte), NEW v,
         v.tag \in Kinds, v.payload \in Offsets(in)
  PROVE  Gives(materialise(f, in, v), decode_payloads(f, in)[v.tag][v.payload])
<1>1. PICK kind \in Kinds, p \in Offsets(in) : kind = v.tag /\ p = v.payload
  OBVIOUS
<1>2. PICK wire : wire = WireOf(f, in, kind, p)
  OBVIOUS
<1>3. PICK h : h = 1 + Len(EmptyName(f))
  OBVIOUS
<1> DEFINE g == Unnamed(f)
           x == decode_payloads(g, wire)[kind][h]
           y == decode_payloads(f, in)[kind][p]
           d == decode(g, wire, 0)
           m == materialise(f, in, v)
<1>4. m = IF d.ok THEN Ok(d.v[2], d.pos) ELSE d
  <2>1. v.tag # "End"
    BY EndIsNone
  <2>2. wire = <<tag_byte(v.tag)>> \o EmptyName(f) \o SubSeq(in, v.payload + 1, Len(in))
    BY <1>1, <1>2 DEF WireOf
  <2> QED
    BY <2>1, <2>2 DEF materialise, Then, EmptyName, Unnamed
<1>5. d = IF x.ok THEN Ok(<< <<>>, x.v>>, x.pos) ELSE x
  BY <1>2, <1>3, WireReads
<1>6. wire \in Seq(Byte) /\ Abreast(in, p, wire, h, Len(in) - p)
  BY <1>2, <1>3, WireIs
<1>7. Twins(f, g) /\ Twins(g, f) /\ g \in Formats
  BY UnnamedTwins
<1>8. PICK w \in Int : w = Len(in) - p
  BY DEF Offsets
<1>9. Abreast(in, p, wire, h, w) /\ Abreast(wire, h, in, p, w) /\ h \in Offsets(wire)
  BY <1>6, <1>8 DEF Abreast
<1> HIDE DEF g, x, y, d, m
<1>10. Echoes(in, wire, y, x, w) /\ Echoes(wire, in, x, y, w)
  BY <1>6, <1>7, <1>9, PayloadsEcho DEF x, y
<1>11. (y.ok => x.ok /\ x.v = y.v) /\ (x.ok => y.ok)
  BY <1>10 DEF Echoes
<1>12. x.ok \in BOOLEAN
  BY <1>6, <1>7, <1>9, PayloadAt DEF x, Same, Yields
<1>13. Gives(m, y)
  <2>1. CASE x.ok
    <3>1. d = Ok(<< <<>>, x.v>>, x.pos)
      BY <1>5, <2>1
    <3>2. d.ok = TRUE /\ d.v = << <<>>, x.v>>
      BY <3>1, OkIs
    <3>3. m = Ok(d.v[2], d.pos) /\ d.v[2] = x.v
      BY <1>4, <3>2
    <3>4. m.ok = TRUE /\ m.v = x.v
      BY <3>3, OkIs
    <3> QED
      BY <1>11, <2>1, <3>4 DEF Gives
  <2>2. CASE ~ x.ok
    <3>1. d = x
      BY <1>5, <2>2
    <3>2. m = x
      BY <1>4, <2>2, <3>1
    <3> QED
      BY <1>11, <1>12, <2>2, <3>2 DEF Gives
  <2> QED
    BY <2>1, <2>2
<1> QED
  BY <1>1, <1>13 DEF m, y

-----------------------------------------------------------------------------
(* The walkers, and the payloads one level down.                           *)

AsFar(s, d) == s.ok = TRUE /\ s.pos = d.pos

\* What can be decoded the view steps over, to the same place.
LEMMA WalkedAsRead ==
  ASSUME NEW f \in Formats, NEW in \in Seq(Byte), NEW kind \in Kinds, NEW p \in Offsets(in),
         NEW d, d = decode_payloads(f, in)[kind][p], d.ok,
         NEW s, s = view_payload_size(f, in, p, kind)
  PROVE  AsFar(s, d)
<1> DEFINE g == IF f \in Java THEN "JavaNamedRoot" ELSE f
<1>1. PICK n \in Nat, m \in Nat : n = kMaxDecodeDepth /\ m = Len(in) + 1
  <2>1. kMaxDecodeDepth \in Nat /\ Len(in) + 1 \in Nat
    BY DepthAssumption
  <2> QED
    BY <2>1
<1>2. Twins(f, g) /\ g \in Formats
  BY DEF Twins, Formats, Java, Bedrock
<1>3. s = skip_payloads(g, in, m)[kind][p]
  BY <1>1 DEF view_payload_size, java_payload_size, bedrock_le_payload_size,
     bedrock_varint_payload_size, Formats, Java, Bedrock
<1> HIDE DEF g
<1>4. PICK D, D2 : /\ \A k \in 0 .. n : Leveled(f, in, D, D2, k)
                   /\ decode_payloads(f, in) = D[n]
  BY <1>1, LevelsAgree
<1>5. PICK E, E2 : /\ \A k \in 0 .. m : Leveled(g, in, E, E2, k)
                   /\ skip_payloads(g, in, m) = E2[m]
  <2>1. \E E, E2 : /\ \A k \in 0 .. m : Leveled(g, in, E, E2, k)
                   /\ m = kMaxDecodeDepth => decode_payloads(g, in) = E[m]
                   /\ skip_payloads(g, in, m) = E2[m]
    BY <1>2, LevelsAgreeTo
  <2> QED
    BY <2>1
<1>6. \A l \in 0 .. n : \A o \in 0 .. m : \A v \in Int :
        l <= o \/ v < o => InnerEchoes(in, in, D[l], E[o], v)
  BY <1>2, <1>4, <1>5, LevelsEcho
<1>7. PICK w \in Int : w = Len(in) - p
  BY DEF Offsets
<1>8. w < m /\ n \in 0 .. n /\ m \in 0 .. m /\ Len(in) - p <= w
  BY <1>1, <1>7 DEF Offsets
<1>9. InnerEchoes(in, in, D[n], E[m], w) /\ Abreast(in, p, in, p, w)
  BY <1>6, <1>8, AbreastSelf
<1>10. Echoes(in, in, D[n][kind][p], E[m][kind][p], w)
  BY <1>9 DEF InnerEchoes, StepsEcho
<1>11. E[m][kind][p].ok /\ E[m][kind][p].pos = d.pos
  <2>1. PICK e : e = E[m][kind][p]
    OBVIOUS
  <2>2. Echoes(in, in, d, e, w)
    BY <1>4, <1>10, <2>1
  <2>3. e.ok /\ d.pos \in Offsets(in) /\ e.pos \in Offsets(in)
        /\ Len(in) - d.pos = Len(in) - e.pos
    BY <2>2 DEF Echoes, Abreast
  <2> QED
    BY <2>1, <2>3 DEF Offsets
<1>12. Same(g, E[m][kind][p], s, p, Len(in))
  BY <1>3, <1>5, <1>8 DEF Leveled, Agree
<1> QED
  BY <1>11, <1>12 DEF Same, Yields, AsFar

\* The payloads one level below the root's.  What is read there is read at the
\* root's level too.
IsLower(f, in, I) ==
  /\ \E J : Agree(f, in, I, J)
  /\ \A kind \in Kinds : \A p \in Offsets(in) :
       /\ decode_payloads(f, in)[kind][p]
            = decode_payload(f, in, p, kind, kMaxDecodeDepth, I)
       /\ I[kind][p].ok =>
            /\ decode_payloads(f, in)[kind][p].ok = TRUE
            /\ decode_payloads(f, in)[kind][p].v = I[kind][p].v
            /\ decode_payloads(f, in)[kind][p].pos = I[kind][p].pos

Lower(f, in) == CHOOSE I : IsLower(f, in, I)

LEMMA LowerIs ==
  ASSUME NEW f \in Formats, NEW in \in Seq(Byte)
  PROVE  IsLower(f, in, Lower(f, in))
<1>1. PICK n \in Nat : n = kMaxDecodeDepth /\ n # 0
  BY DepthAssumption, DecodesSome
<1>2. PICK D, D2 : /\ \A k \in 0 .. n : Leveled(f, in, D, D2, k)
                   /\ decode_payloads(f, in) = D[n]
  BY <1>1, LevelsAgree
<1>3. n \in 0 .. n /\ n - 1 \in 0 .. n /\ n - 1 <= n
  BY <1>1
<1>4. Agree(f, in, D[n - 1], D2[n - 1])
  BY <1>2, <1>3 DEF Leveled
<1>5. Twins(f, f)
  BY DEF Twins
<1>6. \A l \in 0 .. n : \A o \in 0 .. n : \A v \in Int :
        l <= o \/ v < o => InnerEchoes(in, in, D[l], D[o], v)
  BY <1>2, <1>5, LevelsEcho
<1>7. ASSUME NEW kind \in Kinds, NEW p \in Offsets(in), D[n - 1][kind][p].ok
      PROVE  /\ D[n][kind][p].ok = TRUE /\ D[n][kind][p].v = D[n - 1][kind][p].v
             /\ D[n][kind][p].pos = D[n - 1][kind][p].pos
  <2>1. PICK w \in Int : w = Len(in) - p
    BY DEF Offsets
  <2>2. Abreast(in, p, in, p, w)
    BY <2>1, AbreastSelf
  <2>3. InnerEchoes(in, in, D[n - 1], D[n], w)
    BY <1>3, <1>6
  <2>4. PICK r, s : r = D[n - 1][kind][p] /\ s = D[n][kind][p]
    OBVIOUS
  <2>5. Echoes(in, in, r, s, w)
    BY <2>2, <2>3, <2>4 DEF InnerEchoes, StepsEcho
  <2>6. s.ok = TRUE /\ s.v = r.v /\ r.pos \in Offsets(in) /\ s.pos \in Offsets(in)
        /\ Len(in) - r.pos = Len(in) - s.pos
    BY <1>7, <2>4, <2>5 DEF Echoes, Abreast
  <2>7. s.pos = r.pos
    BY <2>6 DEF Offsets
  <2> QED
    BY <2>4, <2>6, <2>7
<1>8. \A kind \in Kinds : \A p \in Offsets(in) :
        D[n][kind][p] = decode_payload(f, in, p, kind, n, D[n - 1])
  BY <1>2, <1>3 DEF Leveled
<1>9. IsLower(f, in, D[n - 1])
  <2>1. \E J : Agree(f, in, D[n - 1], J)
    BY <1>4
  <2>2. PICK I : I = D[n - 1]
    OBVIOUS
  <2>3. ASSUME NEW kind \in Kinds, NEW p \in Offsets(in)
        PROVE  /\ decode_payloads(f, in)[kind][p]
                    = decode_payload(f, in, p, kind, kMaxDecodeDepth, I)
               /\ I[kind][p].ok =>
                    /\ decode_payloads(f, in)[kind][p].ok = TRUE
                    /\ decode_payloads(f, in)[kind][p].v = I[kind][p].v
                    /\ decode_payloads(f, in)[kind][p].pos = I[kind][p].pos
    <3>1. decode_payloads(f, in)[kind][p]
            = decode_payload(f, in, p, kind, kMaxDecodeDepth, I)
      BY <1>1, <1>2, <1>8, <2>2
    <3>2. PICK r, x : r = decode_payloads(f, in)[kind][p] /\ x = I[kind][p]
      OBVIOUS
    <3>3. x.ok => r.ok = TRUE /\ r.v = x.v /\ r.pos = x.pos
      BY <1>2, <1>7, <2>2, <3>2
    <3> QED
      BY <3>1, <3>2, <3>3
  <2>4. IsLower(f, in, I)
    BY <2>1, <2>2, <2>3 DEF IsLower
  <2> QED
    BY <2>2, <2>4
<1> QED
  BY <1>9 DEF Lower

-----------------------------------------------------------------------------
(* The accessors of a scalar and of a string.                              *)

\* What the decoder makes of bytes is not ASCII unless they are.
LEMMA AsciiFromAscii ==
  ASSUME NEW s \in Seq(Byte), mutf8_to_utf8(s).ok, is_pure_ascii(mutf8_to_utf8(s).v)
  PROVE  is_pure_ascii(s)
<1>1. PICK u : u = mutf8_to_utf8(s).v
  OBVIOUS
<1>2. u \in Seq(Byte) /\ is_pure_ascii(u)
  BY <1>1, Transcoded, Zenon
<1>3. utf8_to_mutf8(u) = Ok(s, Len(u))
  BY <1>1, DecoderInverted, Zenon
<1>4. mutf8_to_utf8(u) = Ok(u, Len(u))
  BY <1>2, AsciiAsIs
<1>5. mutf8_to_utf8(u).ok = TRUE /\ mutf8_to_utf8(u).v = u
  BY <1>4, OkIs
<1>6. utf8_to_mutf8(u) = Ok(u, Len(u))
  <2>1. utf8_to_mutf8(mutf8_to_utf8(u).v) = Ok(u, Len(mutf8_to_utf8(u).v))
    BY <1>2, <1>5, DecoderInverted, Zenon
  <2> QED
    BY <1>5, <2>1
<1>7. Ok(s, Len(u)).v = Ok(u, Len(u)).v
  BY <1>3, <1>6
<1>8. s = u
  BY <1>7, OkIs
<1> QED
  BY <1>2, <1>8

\* A result that is placed is a success if it was one, of the same value.
LEMMA PlacedKeeps ==
  ASSUME NEW r, IsResult(r, Bad), NEW p, Placed(r, p).ok
  PROVE  r.ok /\ Placed(r, p).v = r.v
<1>1. (\E x, q : r = Ok(x, q)) \/ (\E x, q : r = Err(x, q) /\ x \in Bad)
  BY Zenon DEF IsResult
<1>2. ASSUME NEW x, NEW q, r = Ok(x, q) PROVE r.ok /\ Placed(r, p).v = r.v
  <2>1. Placed(r, p) = Ok(x, p)
    BY <1>2, PlacedAs
  <2> QED
    BY <1>2, <2>1, OkIs
<1>3. ASSUME NEW x, NEW q, r = Err(x, q) PROVE FALSE
  <2>1. ErrAt(Placed(r, p), x, p)
    BY <1>3, PlacedErr
  <2> QED
    BY <2>1 DEF ErrAt
<1> QED
  BY <1>1, <1>2, <1>3

\* One view: its tag, and an offset in the buffer.
IsView(in, v) == v.tag \in Kinds \cup {"End"} /\ v.payload \in Offsets(in)

\* The number accessors.
LEMMA NumbersAgree ==
  ASSUME NEW f \in Formats, NEW in \in Seq(Byte), NEW v, IsView(in, v),
         NEW x, x = materialise(f, in, v), NEW kind \in DOMAIN Size,
         NEW n, n = as_number(f, in, v, kind)
  PROVE  /\ n.ok <=> v.tag = kind /\ x.ok
         /\ n.ok => x.v = <<kind, n.v>>
<1>1. CASE v.tag # kind
  <2>1. n.ok = FALSE
    BY <1>1 DEF as_number, Err
  <2> QED
    BY <1>1, <2>1
<1>2. CASE v.tag = kind
  <2>1. kind \in Kinds /\ v.payload \in Offsets(in)
    BY DEF Kinds, TagIds, Size, IsView
  <2>2. n = read_number(f, in, v.payload, kind)
    BY <1>2 DEF as_number
  <2>3. PICK d : d = decode_payloads(f, in)[kind][v.payload]
    OBVIOUS
  <2>4. Gives(x, d)
    BY <1>2, <2>1, <2>3, Materialised
  <2>5. d = decode_payload(f, in, v.payload, kind, kMaxDecodeDepth, Lower(f, in))
    BY <2>1, <2>3, LowerIs DEF IsLower
  <2>6. d = IF n.ok THEN Ok(<<kind, n.v>>, n.pos) ELSE n
    BY <2>2, <2>5, DecodesSome DEF decode_payload, Then
  <2>7. n.ok => d.ok = TRUE /\ d.v = <<kind, n.v>>
    <3>1. n.ok => d = Ok(<<kind, n.v>>, n.pos)
      BY <2>6
    <3> QED
      BY <3>1, OkIs
  <2>8. ~ n.ok => d = n
    BY <2>6
  <2> QED
    BY <1>2, <2>4, <2>7, <2>8 DEF Gives
<1> QED
  BY <1>1, <1>2

\* as_string.
LEMMA StringsAgree ==
  ASSUME NEW f \in Formats, NEW in \in Seq(Byte), NEW v, IsView(in, v),
         NEW x, x = materialise(f, in, v), NEW s, s = as_string(f, in, v)
  PROVE  /\ s.ok <=> v.tag = "String" /\ x.ok /\ is_pure_ascii(x.v[2])
         /\ s.ok => x.v = <<"String", s.v>>
<1>1. CASE v.tag # "String"
  <2>1. s.ok = FALSE
    BY <1>1 DEF as_string, Err
  <2> QED
    BY <1>1, <2>1
<1>2. CASE v.tag = "String"
  <2> DEFINE u == skip_string(f, in, v.payload)
             r == read_string(f, in, v.payload)
             m == mutf8_to_utf8(u.v)
  <2>1. "String" \in Kinds /\ v.payload \in Offsets(in)
    BY DEF Kinds, TagIds, IsView
  <2>2. PICK d : d = decode_payloads(f, in)["String"][v.payload]
    OBVIOUS
  <2>3. Gives(x, d)
    BY <1>2, <2>1, <2>2, Materialised
  <2>4. d = decode_payload(f, in, v.payload, "String", kMaxDecodeDepth, Lower(f, in))
    BY <2>1, <2>2, LowerIs DEF IsLower
  <2>5. d = IF r.ok THEN Ok(<<"String", r.v>>, r.pos) ELSE r
    <3>1. "String" \notin DOMAIN Size /\ "String" \notin DOMAIN Elem
      BY DEF Size, Elem
    <3> QED
      BY <2>4, <3>1, DecodesSome DEF decode_payload, Then
  <2>6. s = IF ~ u.ok THEN u
            ELSE IF is_pure_ascii(u.v) THEN Ok(u.v, u.pos)
            ELSE Err("ViewRequiresMaterialise", u.pos - Len(u.v))
    BY <1>2 DEF as_string, Then
  <2>7. r = IF ~ u.ok THEN u
            ELSE IF f \in Bedrock \/ is_pure_ascii(u.v) THEN Ok(u.v, u.pos)
            ELSE [m EXCEPT !.pos = u.pos]
    BY DEF read_string, Then
  <2>8. u.ok => u.v \in Seq(Byte)
    BY <2>1, SkipStringYields
  <2>9. u.ok /\ ~ is_pure_ascii(u.v) /\ f \notin Bedrock /\ r.ok => m.ok /\ r.v = m.v
    <3>1. u.ok => IsResult(m, Bad)
      BY <2>8, TextResult
    <3>2. u.ok /\ ~ is_pure_ascii(u.v) /\ f \notin Bedrock => r = Placed(m, u.pos)
      BY <2>7 DEF Placed
    <3> HIDE DEF u, m, r
    <3> QED
      BY <3>1, <3>2, PlacedKeeps
  <2> HIDE DEF u, r, m
  <2>10. r.ok => d.ok = TRUE /\ d.v = <<"String", r.v>>
    <3>1. r.ok => d = Ok(<<"String", r.v>>, r.pos)
      BY <2>5
    <3> QED
      BY <3>1, OkIs
  <2>11. ~ r.ok => d = r
    BY <2>5
  <2>12. CASE ~ u.ok
    BY <1>2, <2>3, <2>6, <2>7, <2>11, <2>12 DEF Gives
  <2>13. CASE u.ok /\ is_pure_ascii(u.v)
    <3>1. s = Ok(u.v, u.pos) /\ r = Ok(u.v, u.pos)
      BY <2>6, <2>7, <2>13
    <3>2. s.ok = TRUE /\ s.v = u.v /\ r.ok = TRUE /\ r.v = u.v
      BY <3>1, OkIs
    <3>3. x.ok /\ x.v = <<"String", u.v>>
      BY <2>3, <2>10, <3>2 DEF Gives
    <3>4. x.v[2] = u.v
      BY <3>3
    <3> QED
      BY <1>2, <2>13, <3>2, <3>3, <3>4
  <2>14. CASE u.ok /\ ~ is_pure_ascii(u.v)
    <3>1. s.ok = FALSE
      BY <2>6, <2>14 DEF Err
    <3>2. ASSUME x.ok PROVE ~ is_pure_ascii(x.v[2])
      <4>1. r.ok /\ x.v = <<"String", r.v>>
        BY <2>3, <2>10, <2>11, <3>2 DEF Gives
      <4>2. x.v[2] = r.v
        BY <4>1
      <4>3. ~ is_pure_ascii(r.v)
        <5>1. CASE f \in Bedrock
          <6>1. r = Ok(u.v, u.pos)
            BY <2>7, <2>14, <5>1
          <6>2. r.v = u.v
            BY <6>1, OkIs
          <6> QED
            BY <2>14, <6>2
        <5>2. CASE f \notin Bedrock
          <6>1. m.ok /\ r.v = m.v
            BY <2>9, <2>14, <4>1, <5>2
          <6> QED
            BY <2>8, <2>14, <6>1, AsciiFromAscii DEF m
        <5> QED
          BY <5>1, <5>2
      <4> QED
        BY <4>2, <4>3
    <3> QED
      BY <3>1, <3>2
  <2> QED
    BY <2>12, <2>13, <2>14
<1> QED
  BY <1>1, <1>2

-----------------------------------------------------------------------------
(* The root's view.                                                        *)

\* make_view_root, by what it reads.
LEMMA RootReads ==
  ASSUME NEW f \in Formats, NEW in \in Seq(Byte), NEW r, r = make_view_root(f, in),
         NEW t, t = read_tag_byte(in, 0), NEW s, s = read_string(f, in, t.pos)
  PROVE  /\ r = IF ~ t.ok THEN t
                ELSE IF t.v = "End" \/ f = "JavaAnonymousRoot"
                     THEN Ok([tag |-> t.v, payload |-> t.pos], t.pos)
                ELSE IF s.ok THEN Ok([tag |-> t.v, payload |-> s.pos], s.pos) ELSE s
         /\ t.ok => t.pos \in Offsets(in) /\ t.v \in Kinds \cup {"End"}
         /\ t.ok /\ s.ok => s.pos \in Offsets(in)
<1>1. r = IF ~ t.ok THEN t
          ELSE IF t.v = "End" \/ f = "JavaAnonymousRoot"
               THEN Ok([tag |-> t.v, payload |-> t.pos], t.pos)
          ELSE IF s.ok THEN Ok([tag |-> t.v, payload |-> s.pos], s.pos) ELSE s
  BY DEF make_view_root, Then
<1>2. 0 \in Offsets(in)
  BY DEF Offsets
<1>3. t.ok => t.pos \in Offsets(in) /\ t.v \in Kinds \cup {"End"}
  BY <1>2, TagByteYields DEF Yields, Offsets
<1>4. t.ok => s.pos \in Offsets(in)
  <2>1. t.ok => Yields(s, t.pos, Len(in))
    BY <1>3, StringSkipped DEF Same
  <2> QED
    BY <1>3, <2>1 DEF Yields, Offsets
<1> QED
  BY <1>1, <1>3, <1>4

\* A root's view is one.
LEMMA RootIsView ==
  ASSUME NEW f \in Formats, NEW in \in Seq(Byte), NEW r, r = make_view_root(f, in), r.ok
  PROVE  IsView(in, r.v)
<1>1. PICK t, s : t = read_tag_byte(in, 0) /\ s = read_string(f, in, t.pos)
  OBVIOUS
<1> DEFINE e == [tag |-> t.v, payload |-> t.pos]
           c == [tag |-> t.v, payload |-> s.pos]
<1>2. r = IF ~ t.ok THEN t
          ELSE IF t.v = "End" \/ f = "JavaAnonymousRoot" THEN Ok(e, t.pos)
          ELSE IF s.ok THEN Ok(c, s.pos) ELSE s
  BY <1>1, RootReads
<1>3. /\ t.ok => t.pos \in Offsets(in) /\ t.v \in Kinds \cup {"End"}
      /\ t.ok /\ s.ok => s.pos \in Offsets(in)
  BY <1>1, RootReads
<1>4. e.tag = t.v /\ e.payload = t.pos /\ c.tag = t.v /\ c.payload = s.pos
  OBVIOUS
<1> HIDE DEF e, c
<1>5. CASE t.ok /\ r = Ok(e, t.pos)
  <2>1. r.v = e
    BY <1>5, OkIs
  <2> QED
    BY <1>3, <1>4, <1>5, <2>1 DEF IsView
<1>6. CASE t.ok /\ s.ok /\ r = Ok(c, s.pos)
  <2>1. r.v = c
    BY <1>6, OkIs
  <2> QED
    BY <1>3, <1>4, <1>6, <2>1 DEF IsView
<1> QED
  BY <1>2, <1>5, <1>6

\* The view of a root that can be decoded is of what decode returns.
LEMMA RootShown ==
  ASSUME NEW f \in Formats, NEW in \in Seq(Byte), NEW r, r = make_view_root(f, in),
         NEW d, d = decode(f, in, 0), d.ok
  PROVE  /\ r.ok /\ r.v.tag = d.v[2][1]
         /\ r.v.tag # "End" =>
              LET x == decode_payloads(f, in)[r.v.tag][r.v.payload]
              IN  x.ok /\ x.v = d.v[2]
<1>1. PICK t, s : t = read_tag_byte(in, 0) /\ s = read_string(f, in, t.pos)
  OBVIOUS
<1> DEFINE e == [tag |-> t.v, payload |-> t.pos]
           c == [tag |-> t.v, payload |-> s.pos]
           X(q) == decode_payloads(f, in)[t.v][q]
<1>2. r = IF ~ t.ok THEN t
          ELSE IF t.v = "End" \/ f = "JavaAnonymousRoot" THEN Ok(e, t.pos)
          ELSE IF s.ok THEN Ok(c, s.pos) ELSE s
  BY <1>1, RootReads
<1>3. /\ t.ok => t.pos \in Offsets(in) /\ t.v \in Kinds \cup {"End"}
      /\ t.ok /\ s.ok => s.pos \in Offsets(in)
  BY <1>1, RootReads
<1>4. e.tag = t.v /\ e.payload = t.pos /\ c.tag = t.v /\ c.payload = s.pos
  OBVIOUS
<1>5. CASE f = "JavaAnonymousRoot"
  <2> DEFINE x == X(t.pos)
  <2>1. d = IF ~ t.ok THEN t ELSE IF t.v = "End" THEN Ok(NoRoot, t.pos)
            ELSE IF x.ok THEN Ok(<< <<>>, x.v>>, x.pos) ELSE x
    BY <1>1, <1>5 DEF decode, decode_java_anonymous, Then
  <2>2. t.ok
    BY <2>1
  <2>3. r.ok /\ r.v = e
    BY <1>2, <1>5, <2>2, OkIs
  <2>4. t.v # "End" => x.v[1] = t.v \/ ~ x.ok
    BY <1>3, <2>2, PayloadAt
  <2> HIDE DEF x, e, c
  <2>5. CASE t.v = "End"
    <3>1. d = Ok(NoRoot, t.pos)
      BY <2>1, <2>2, <2>5
    <3>2. d.v[2][1] = "End"
      BY <3>1, OkIs DEF NoRoot, EndTag
    <3> QED
      BY <1>4, <2>3, <2>5, <3>2
  <2>6. CASE t.v # "End"
    <3>1. x.ok
      BY <2>1, <2>2, <2>6
    <3>2. d = Ok(<< <<>>, x.v>>, x.pos)
      BY <2>1, <2>2, <2>6, <3>1
    <3>3. d.v = << <<>>, x.v>>
      BY <3>2, OkIs
    <3>4. d.v[2] = x.v
      BY <3>3
    <3>5. x = decode_payloads(f, in)[r.v.tag][r.v.payload]
      BY <1>4, <2>3 DEF x
    <3> QED
      BY <1>4, <2>3, <2>4, <2>6, <3>1, <3>4, <3>5
  <2> QED
    BY <2>5, <2>6
<1>6. CASE f # "JavaAnonymousRoot"
  <2> DEFINE x == X(s.pos)
  <2>0. d = decode_named(f, in, 0)
    BY <1>6 DEF decode, decode_java_named, decode_bedrock_le, decode_bedrock_varint,
                Formats, Java, Bedrock
  <2>1. d = IF ~ t.ok THEN t ELSE IF t.v = "End" THEN Ok(NoRoot, t.pos)
            ELSE IF ~ s.ok THEN s
            ELSE IF x.ok THEN Ok(<<s.v, x.v>>, x.pos) ELSE x
    BY <1>1, <2>0 DEF decode_named, Then
  <2>2. t.ok
    BY <2>1
  <2>3. CASE t.v = "End"
    <3> HIDE DEF e, c, X
    <3>1. d = Ok(NoRoot, t.pos) /\ r = Ok(e, t.pos)
      BY <1>2, <2>1, <2>2, <2>3
    <3>2. d.v[2][1] = "End"
      BY <3>1, OkIs DEF NoRoot, EndTag
    <3>3. r.ok /\ r.v = e
      BY <3>1, OkIs
    <3> QED
      BY <1>4, <2>3, <3>2, <3>3
  <2>4. CASE t.v # "End"
    <3>1. s.ok
      BY <2>1, <2>2, <2>4
    <3>2. x.ok => x.v[1] = t.v
      BY <1>3, <2>2, <2>4, <3>1, PayloadAt
    <3> HIDE DEF x, e, c, X
    <3>3. x.ok
      BY <2>1, <2>2, <2>4, <3>1
    <3>4. d = Ok(<<s.v, x.v>>, x.pos) /\ r = Ok(c, s.pos)
      BY <1>2, <1>6, <2>1, <2>2, <2>4, <3>1, <3>3
    <3>5. d.v = <<s.v, x.v>> /\ r.ok /\ r.v = c
      BY <3>4, OkIs
    <3>6. d.v[2] = x.v
      BY <3>5
    <3>7. x = decode_payloads(f, in)[r.v.tag][r.v.payload]
      BY <1>4, <3>5 DEF x, X
    <3> QED
      BY <1>4, <2>4, <3>2, <3>3, <3>5, <3>6, <3>7
  <2> QED
    BY <2>3, <2>4
<1> QED
  BY <1>5, <1>6

-----------------------------------------------------------------------------
(* Lists: size() and at().                                                 *)

\* What a round and the rest of a loop come to.
LEMMA GoesOnce ==
  ASSUME NEW r, NEW s, NEW one, NEW later, NEW after,
         Goes(r, one, later), Goes(s, one, after),
         one.ok => later[one.pos] = after[one.pos]
  PROVE  r = s
BY DEF Goes

\* The first n + 1 rounds of a loop that yields something in each are the one
\* and n more.
LEMMA RoundsMore ==
  ASSUME NEW D, Closed(D), NEW n \in Nat, NEW p \in DOMAIN D
  PROVE  Goes(Rounds(D, n + 1, p), D[p], [q \in DOMAIN D |-> Rounds(D, n, q)])
<1>1. PICK d : /\ \A k \in 0 .. n + 1 : \A x \in DOMAIN D : d[k][x] = round(D, n + 1, d, k, x)
               /\ \A x : Rounds(D, n + 1, x) = d[0][x]
  BY RoundsAre
<1>2. PICK e : /\ \A k \in 0 .. n : \A x \in DOMAIN D : e[k][x] = round(D, n, e, k, x)
               /\ \A x : Rounds(D, n, x) = e[0][x]
  BY RoundsAre
<1> DEFINE S == {k \in 0 .. n : \A x \in DOMAIN D : d[k + 1][x] = e[k][x]}
<1>3. n \in S
  <2>1. n \in 0 .. n /\ n + 1 \in 0 .. n + 1
    OBVIOUS
  <2> SUFFICES ASSUME NEW x \in DOMAIN D PROVE d[n + 1][x] = e[n][x]
    BY <2>1
  <2>2. d[n + 1][x] = round(D, n + 1, d, n + 1, x) /\ e[n][x] = round(D, n, e, n, x)
    BY <1>1, <1>2, <2>1
  <2> QED
    BY <2>2 DEF round
<1>4. ASSUME NEW k \in 0 .. n, k # n, k + 1 \in S, NEW x \in DOMAIN D
      PROVE  d[k + 1][x] = e[k][x]
  <2>1. k + 1 \in 0 .. n + 1 /\ k + 1 # n + 1
    BY <1>4
  <2>2. d[k + 1][x] = round(D, n + 1, d, k + 1, x) /\ e[k][x] = round(D, n, e, k, x)
    BY <1>1, <1>2, <2>1
  <2>3. Goes(d[k + 1][x], D[x], d[(k + 1) + 1])
    BY <2>1, <2>2, RoundGoes
  <2>4. Goes(e[k][x], D[x], e[k + 1])
    BY <1>4, <2>2, RoundGoes
  <2>5. D[x].ok => d[(k + 1) + 1][D[x].pos] = e[k + 1][D[x].pos]
    BY <1>4 DEF Closed
  <2> QED
    BY <2>3, <2>4, <2>5, GoesOnce
<1>5. \A k \in 0 .. n : k \in S
  <2>1. \A k \in 0 .. n : k # n /\ k + 1 \in S => k \in S
    BY <1>4
  <2> HIDE DEF S
  <2> QED
    BY <1>3, <2>1, Downward
<1>6. 0 \in S /\ 0 \in 0 .. n + 1 /\ 0 # n + 1
  BY <1>5
<1>7. \A x \in DOMAIN D : d[0 + 1][x] = e[0][x]
  BY <1>6
<1>8. Goes(d[0][p], D[p], d[0 + 1])
  <2>1. d[0][p] = round(D, n + 1, d, 0, p)
    BY <1>1, <1>6
  <2> QED
    BY <1>6, <2>1, RoundGoes
<1> DEFINE later == [q \in DOMAIN D |-> Rounds(D, n, q)]
<1>9. \A x \in DOMAIN D : later[x] = d[0 + 1][x]
  BY <1>2, <1>7
<1>10. Rounds(D, n + 1, p) = d[0][p]
  BY <1>1
<1> HIDE DEF later
<1>11. D[p].ok => later[D[p].pos] = d[0 + 1][D[p].pos]
  BY <1>9 DEF Closed
<1>12. Goes(Rounds(D, n + 1, p), D[p], later)
  BY <1>8, <1>10, <1>11 DEF Goes
<1> QED
  BY <1>12 DEF later

LEMMA RoundsNone ==
  ASSUME NEW D, Closed(D), NEW p \in DOMAIN D
  PROVE  Rounds(D, 0, p) = Ok(<<>>, p)
<1>1. 0 \in Nat /\ 0 \in 0 .. 0
  OBVIOUS
<1>2. PICK d : /\ \A k \in 0 .. 0 : \A x \in DOMAIN D : d[k][x] = round(D, 0, d, k, x)
               /\ \A x : Rounds(D, 0, x) = d[0][x]
  BY <1>1, RoundsAre
<1>3. d[0][p] = round(D, 0, d, 0, p)
  BY <1>1, <1>2
<1> QED
  BY <1>2, <1>3 DEF round

\* A sequence of n.
IsSeq(X, n) == n \in Nat /\ \E T : X \in Seq(T) /\ Len(X) = n

IsCons(X, x, Y, n) == IsSeq(X, n + 1) /\ X[1] = x /\ \A i \in 1 .. n : X[i + 1] = Y[i]

LEMMA SeqCons ==
  ASSUME NEW x, NEW Y, NEW n, IsSeq(Y, n), NEW X, X = <<x>> \o Y
  PROVE  IsCons(X, x, Y, n)
<1>0. n \in Nat
  BY DEF IsSeq
<1>1. PICK T : Y \in Seq(T) /\ Len(Y) = n
  BY DEF IsSeq
<1>2. PICK U : U = T \cup {x}
  OBVIOUS
<1>3. Y \in Seq(U) /\ <<x>> \in Seq(U) /\ Len(<<x>>) = 1
  BY <1>1, <1>2
<1>4. X \in Seq(U) /\ Len(X) = n + 1 /\ X[1] = x /\ \A i \in 1 .. n : X[i + 1] = Y[i]
  BY <1>0, <1>1, <1>3
<1> QED
  BY <1>0, <1>4 DEF IsSeq, IsCons

LEMMA SeqNone == IsSeq(<<>>, 0)
<1>1. <<>> \in Seq({}) /\ Len(<<>>) = 0 /\ 0 \in Nat
  OBVIOUS
<1> QED
  BY <1>1 DEF IsSeq

\* A step of a loop over elements that wraps what it reads, and one that steps
\* over as much.
Wraps(D, el) ==
  \A x \in DOMAIN D : D[x] = IF el[x].ok THEN Ok(<<el[x].v>>, el[x].pos) ELSE el[x]
StepsOver(E, el) ==
  \A x \in DOMAIN E : el[x].ok => /\ E[x].ok = TRUE /\ E[x].v # <<>>
                                  /\ E[x].pos = el[x].pos

\* Of n elements that are read, each is where one gets to by stepping over those
\* before it.
Places(X, n, E, el, p) ==
  /\ IsSeq(X, n)
  /\ \A i \in 0 .. n - 1 :
       LET y == Rounds(E, i, p)
       IN  y.ok = TRUE /\ y.pos \in DOMAIN E /\ el[y.pos].ok /\ X[i + 1] = el[y.pos].v

LEMMA PlacesMore ==
  ASSUME NEW E, Closed(E), NEW el, StepsOver(E, el), NEW n \in Nat, NEW p \in DOMAIN E,
         el[p].ok, NEW Y, Places(Y, n, E, el, el[p].pos)
  PROVE  Places(<<el[p].v>> \o Y, n + 1, E, el, p)
<1> DEFINE x == el[p].v
           X == <<x>> \o Y
           q == el[p].pos
<1>1. IsSeq(X, n + 1) /\ X[1] = x /\ \A i \in 1 .. n : X[i + 1] = Y[i]
  <2>1. IsSeq(Y, n)
    BY DEF Places
  <2>2. PICK z, Z : z = x /\ Z = X
    OBVIOUS
  <2>3. IsCons(Z, z, Y, n)
    BY <2>1, <2>2, SeqCons
  <2> QED
    BY <2>2, <2>3 DEF IsCons
<1>2. E[p].ok = TRUE /\ E[p].v # <<>> /\ E[p].pos = q /\ q \in DOMAIN E
  BY DEF StepsOver, Closed
<1> HIDE DEF X, x, q
<1>3. ASSUME NEW i \in 0 .. n
      PROVE  LET y == Rounds(E, i, p)
             IN  y.ok = TRUE /\ y.pos \in DOMAIN E /\ el[y.pos].ok /\ X[i + 1] = el[y.pos].v
  <2>1. CASE i = 0
    <3>1. Rounds(E, 0, p) = Ok(<<>>, p)
      BY RoundsNone
    <3>2. Rounds(E, i, p).ok = TRUE /\ Rounds(E, i, p).pos = p
      BY <2>1, <3>1, OkIs
    <3>3. i + 1 = 1
      BY <2>1
    <3> QED
      BY <1>1, <3>2, <3>3 DEF x
  <2>2. CASE i # 0
    <3>1. PICK j \in Nat : i = j + 1 /\ j \in 0 .. n - 1 /\ j + 1 \in 1 .. n
      <4>1. i - 1 \in Nat /\ i = (i - 1) + 1 /\ i - 1 \in 0 .. n - 1 /\ (i - 1) + 1 \in 1 .. n
        BY <2>2
      <4> QED
        BY <4>1
    <3> DEFINE later == [z \in DOMAIN E |-> Rounds(E, j, z)]
               y == Rounds(E, i, p)
               u == Rounds(E, j, q)
    <3>2. Goes(y, E[p], later)
      BY <3>1, RoundsMore
    <3>3. later[q] = u
      BY <1>2
    <3>4. u.ok = TRUE /\ u.pos \in DOMAIN E /\ el[u.pos].ok /\ Y[j + 1] = el[u.pos].v
      BY <3>1 DEF Places, q
    <3> HIDE DEF later, y, u
    <3>5. y = Ok(E[p].v \o u.v, u.pos)
      BY <1>2, <3>2, <3>3, <3>4 DEF Goes
    <3>6. y.ok = TRUE /\ y.pos = u.pos
      BY <3>5, OkIs
    <3>7. X[i + 1] = Y[j + 1]
      BY <1>1, <3>1
    <3> QED
      BY <3>4, <3>6, <3>7 DEF y
  <2> QED
    BY <2>1, <2>2
<1>4. 0 .. (n + 1) - 1 = 0 .. n
  OBVIOUS
<1>5. Places(X, n + 1, E, el, p)
  BY <1>1, <1>3, <1>4 DEF Places
<1> QED
  BY <1>5 DEF X, x

LEMMA PlacesOf ==
  ASSUME NEW D, NEW E, Closed(D), Closed(E), DOMAIN D = DOMAIN E, NEW el,
         Wraps(D, el), StepsOver(E, el)
  PROVE  \A n \in Nat : \A p \in DOMAIN E :
           Rounds(D, n, p).ok => Places(Rounds(D, n, p).v, n, E, el, p)
<1> DEFINE S == {n \in Nat : \A p \in DOMAIN E :
                   Rounds(D, n, p).ok => Places(Rounds(D, n, p).v, n, E, el, p)}
<1>1. 0 \in S
  <2> SUFFICES ASSUME NEW p \in DOMAIN E PROVE Places(Rounds(D, 0, p).v, 0, E, el, p)
    OBVIOUS
  <2>1. Rounds(D, 0, p) = Ok(<<>>, p)
    BY RoundsNone
  <2>2. Rounds(D, 0, p).v = <<>>
    BY <2>1, OkIs
  <2>3. 0 .. 0 - 1 = {}
    OBVIOUS
  <2> QED
    BY <2>2, <2>3, SeqNone DEF Places
<1>2. ASSUME NEW n \in Nat, n \in S, NEW p \in DOMAIN E, Rounds(D, n + 1, p).ok
      PROVE  Places(Rounds(D, n + 1, p).v, n + 1, E, el, p)
  <2> DEFINE later == [z \in DOMAIN D |-> Rounds(D, n, z)]
             r == Rounds(D, n + 1, p)
             q == D[p].pos
             u == Rounds(D, n, q)
  <2>1. Goes(r, D[p], later)
    BY RoundsMore
  <2>2. D[p].ok => q \in DOMAIN D
    BY DEF Closed
  <2>3. D[p].ok => later[q] = u
    BY <2>2
  <2>4. u.ok /\ q \in DOMAIN E => Places(u.v, n, E, el, q)
    BY <1>2
  <2>5. r.ok
    BY <1>2
  <2> HIDE DEF later, r, u
  <2>6. D[p].ok
    BY <2>1, <2>5 DEF Goes
  <2>7. el[p].ok /\ D[p] = Ok(<<el[p].v>>, el[p].pos)
    BY <2>6 DEF Wraps
  <2>8. D[p].v = <<el[p].v>> /\ q = el[p].pos
    BY <2>7, OkIs
  <2>9. D[p].v # <<>>
    BY <2>8
  <2>10. u.ok /\ r = Ok(D[p].v \o u.v, u.pos)
    BY <2>1, <2>3, <2>5, <2>6, <2>9 DEF Goes
  <2>11. r.v = D[p].v \o u.v
    BY <2>10, OkIs
  <2>12. Places(u.v, n, E, el, el[p].pos)
    BY <2>2, <2>4, <2>6, <2>8, <2>10
  <2>13. Places(<<el[p].v>> \o u.v, n + 1, E, el, p)
    BY <2>7, <2>12, PlacesMore
  <2> QED
    BY <2>8, <2>11, <2>13 DEF r
<1>3. \A n \in Nat : n \in S
  <2>1. \A n \in Nat : n \in S => n + 1 \in S
    BY <1>2
  <2> HIDE DEF S
  <2> QED
    BY <1>1, <2>1, Upward
<1> QED
  BY <1>3

\* size() and at(i), where the list can be decoded.
LEMMA ListShown ==
  ASSUME NEW f \in Formats, NEW in \in Seq(Byte), NEW v, v.tag = "List",
         v.payload \in Offsets(in),
         NEW d, d = decode_payloads(f, in)["List"][v.payload], d.ok,
         NEW L, L = as_list(f, in, v)
  PROVE  /\ L.ok /\ IsSeq(d.v[2], L.v.size)
         /\ \A i \in 0 .. L.v.size - 1 :
              LET e == list_at(f, in, L, i)
              IN  e.ok /\ materialise(f, in, e.v).v = d.v[2][i + 1]
<1>1. PICK p \in Offsets(in) : p = v.payload
  OBVIOUS
<1>2. PICK I : I = Lower(f, in) /\ IsLower(f, in, I)
  BY LowerIs
<1> DEFINE t == read_tag_byte(in, p)
           a == read_array_length(f, in, t.pos)
           arm == t.v
           el == I[arm]
           xs == decode_list(in, a.pos, a.v, el)
           ys == IF arm = "End" THEN Ok(<<>>, a.pos) ELSE xs
           y == IF ys.ok THEN Ok(<<"List", ys.v>>, ys.pos) ELSE ys
           m == [arm |-> arm, size |-> IF arm = "End" THEN 0 ELSE a.v]
<1>3. d = IF ~ t.ok THEN t ELSE IF ~ a.ok THEN a ELSE y
  <2>1. "List" \in Kinds /\ "List" \notin DOMAIN Size /\ "List" \notin DOMAIN Elem
    BY DEF Kinds, TagIds, Size, Elem
  <2>2. d = decode_payload(f, in, p, "List", kMaxDecodeDepth, I)
    BY <1>1, <1>2, <2>1 DEF IsLower
  <2>3. d = decode_list_payload(f, in, p, I)
    BY <2>1, <2>2, DecodesSome DEF decode_payload
  <2> QED
    BY <2>3 DEF decode_list_payload, Then
<1>4. L = IF ~ t.ok THEN t ELSE IF ~ a.ok THEN a ELSE Ok(m, a.pos)
  BY <1>1 DEF as_list, Then
<1>5. t.ok => t.pos \in Offsets(in) /\ arm \in Kinds \cup {"End"}
  BY TagByteYields DEF Yields, Offsets
<1>6. t.ok /\ a.ok => a.pos \in Offsets(in) /\ a.v \in Nat
  <2>1. t.ok => Yields(a, t.pos, Len(in)) /\ (a.ok => a.v \in Nat)
    BY <1>5, ArrayLengthYields
  <2> QED
    BY <1>5, <2>1 DEF Yields, Offsets
<1>7. m.arm = arm /\ m.size = (IF arm = "End" THEN 0 ELSE a.v)
  OBVIOUS
<1> HIDE DEF t, a, xs, m
<1>8. t.ok /\ a.ok /\ d = y /\ ys.ok
  BY <1>3
<1> HIDE DEF arm
<1>9. L.ok /\ L.v = m /\ L.pos = a.pos
  <2>1. L = Ok(m, a.pos)
    BY <1>4, <1>8
  <2> QED
    BY <2>1, OkIs
<1>10. d.v[2] = ys.v
  <2> HIDE DEF ys
  <2>1. d.v = <<"List", ys.v>>
    BY <1>8, OkIs
  <2> QED
    BY <2>1
<1>11. CASE arm = "End"
  <2>1. ys = Ok(<<>>, a.pos)
    BY <1>11
  <2>2. ys.v = <<>>
    BY <2>1, OkIs
  <2>3. L.v.size = 0
    BY <1>7, <1>9, <1>11
  <2>4. \A i : i \notin 0 .. 0 - 1
    OBVIOUS
  <2> QED
    BY <1>9, <1>10, <2>2, <2>3, <2>4, SeqNone
<1>12. CASE arm # "End"
  <2>1. arm \in Kinds /\ ys = xs /\ L.v.size = a.v /\ L.v.arm = arm
    BY <1>5, <1>7, <1>8, <1>9, <1>12
  <2> DEFINE D == [x \in Offsets(in) |-> Then(el[x], LAMBDA z, q : Ok(<<z>>, q))]
             walk == [x \in Offsets(in) |-> view_payload_size(f, in, x, arm)]
             E == [x \in Offsets(in) |-> Then(walk[x], LAMBDA z, q : Ok(<<"skipped">>, q))]
             n == a.v
  <2>2. xs = Rounds(D, n, a.pos)
    BY Zenon DEF decode_list, xs
  <2>3. \A i : skip_each(in, a.pos, i, walk) = Rounds(E, i, a.pos)
    BY Zenon DEF skip_each
  <2>4. DOMAIN D = Offsets(in) /\ DOMAIN E = Offsets(in)
    OBVIOUS
  <2>5. \A x \in Offsets(in) : D[x] = IF el[x].ok THEN Ok(<<el[x].v>>, el[x].pos) ELSE el[x]
    BY DEF Then
  <2>6. \A x \in Offsets(in) : E[x] = IF walk[x].ok THEN Ok(<<"skipped">>, walk[x].pos)
                                      ELSE walk[x]
    BY DEF Then
  <2>7. \A x \in Offsets(in) : walk[x] = view_payload_size(f, in, x, arm)
    OBVIOUS
  <2> HIDE DEF D, walk, E, n
  <2>8. \A x \in Offsets(in) : Yields(walk[x], x, Len(in))
    BY <2>1, <2>7, SizeInside
  <2>9. ASSUME NEW x \in Offsets(in), el[x].ok
        PROVE  /\ decode_payloads(f, in)[arm][x].ok /\ decode_payloads(f, in)[arm][x].v = el[x].v
               /\ walk[x].ok = TRUE /\ walk[x].pos = el[x].pos
    <3>1. PICK z : z = decode_payloads(f, in)[arm][x]
      OBVIOUS
    <3>2. z.ok = TRUE /\ z.v = el[x].v /\ z.pos = el[x].pos
      BY <1>2, <2>1, <2>9, <3>1 DEF IsLower
    <3>3. walk[x].ok = TRUE /\ walk[x].pos = z.pos
      <4>1. PICK kind \in Kinds : kind = arm
        BY <2>1
      <4>2. PICK s : s = view_payload_size(f, in, x, kind)
        OBVIOUS
      <4>3. z.ok /\ z = decode_payloads(f, in)[kind][x]
        BY <3>1, <3>2, <4>1
      <4>4. AsFar(s, z)
        BY <4>2, <4>3, WalkedAsRead
      <4> QED
        BY <2>7, <4>1, <4>2, <4>4 DEF AsFar
    <3> QED
      BY <3>1, <3>2, <3>3
  <2> HIDE DEF el
  <2>10. Wraps(D, el)
    BY <2>4, <2>5 DEF Wraps
  <2>11. StepsOver(E, el)
    <3> SUFFICES ASSUME NEW x \in Offsets(in), el[x].ok
                 PROVE  E[x].ok = TRUE /\ E[x].v # <<>> /\ E[x].pos = el[x].pos
      BY <2>4 DEF StepsOver
    <3>1. walk[x].ok = TRUE /\ walk[x].pos = el[x].pos
      BY <2>9
    <3>2. E[x] = Ok(<<"skipped">>, el[x].pos)
      BY <2>6, <3>1
    <3>3. E[x].ok = TRUE /\ E[x].v = <<"skipped">> /\ E[x].pos = el[x].pos
      BY <3>2, OkIs
    <3> QED
      BY <3>3
  <2>12. Closed(E)
    <3> SUFFICES ASSUME NEW x \in Offsets(in), E[x].ok PROVE E[x].pos \in Offsets(in)
      BY <2>4 DEF Closed
    <3>1. walk[x].ok /\ E[x] = Ok(<<"skipped">>, walk[x].pos)
      BY <2>6
    <3>2. E[x].pos = walk[x].pos
      BY <3>1, OkIs
    <3> QED
      BY <2>8, <3>2 DEF Yields, Offsets
  <2>13. Closed(D)
    <3> SUFFICES ASSUME NEW x \in Offsets(in), D[x].ok PROVE D[x].pos \in Offsets(in)
      BY <2>4 DEF Closed
    <3>1. el[x].ok /\ D[x] = Ok(<<el[x].v>>, el[x].pos)
      BY <2>5
    <3>2. D[x].pos = el[x].pos
      BY <3>1, OkIs
    <3>3. walk[x].pos = el[x].pos
      BY <2>9, <3>1
    <3> QED
      BY <2>8, <3>2, <3>3 DEF Yields, Offsets
  <2>14. n \in Nat /\ a.pos \in DOMAIN E /\ Rounds(D, n, a.pos).ok
    BY <1>6, <1>8, <2>1, <2>2, <2>4 DEF n
  <2>15. Places(Rounds(D, n, a.pos).v, n, E, el, a.pos)
    BY <2>4, <2>10, <2>11, <2>12, <2>13, <2>14, PlacesOf
  <2>16. Places(d.v[2], n, E, el, a.pos)
    BY <1>10, <2>1, <2>2, <2>15
  <2>17. L.v.size = n
    BY <2>1 DEF n
  <2>18. ASSUME NEW i \in 0 .. n - 1
         PROVE  LET e == list_at(f, in, L, i)
                IN  e.ok /\ materialise(f, in, e.v).v = d.v[2][i + 1]
    <3> DEFINE s == Rounds(E, i, a.pos)
               o == Ok(arm, s.pos)
               w == [tag |-> arm, payload |-> s.pos]
               e == list_at(f, in, L, i)
    <3>1. s.ok = TRUE /\ s.pos \in Offsets(in) /\ el[s.pos].ok /\ d.v[2][i + 1] = el[s.pos].v
      BY <2>4, <2>16 DEF Places
    <3>2. s = skip_each(in, L.pos, i, [x \in Offsets(in) |-> view_payload_size(f, in, x, L.v.arm)])
      BY <1>9, <2>1, <2>3 DEF walk
    <3> HIDE DEF s
    <3>3. element_offset(f, in, L.pos, L.v.arm, i) = o
      BY <2>1, <3>1, <3>2 DEF element_offset, Then
    <3>4. ~ (i >= L.v.size)
      BY <2>14, <2>17
    <3>5. o.ok = TRUE /\ o.v = arm /\ o.pos = s.pos
      BY OkIs
    <3> HIDE DEF o
    <3>6. e = Ok([tag |-> o.v, payload |-> o.pos], o.pos)
      BY <3>3, <3>4, <3>5 DEF list_at, Then
    <3>7. e = Ok(w, s.pos)
      BY <2>1, <3>5, <3>6
    <3>8. w.tag = arm /\ w.payload = s.pos
      OBVIOUS
    <3> HIDE DEF w, e
    <3>9. e.ok = TRUE /\ e.v = w
      BY <3>7, OkIs
    <3>10. Gives(materialise(f, in, w), decode_payloads(f, in)[arm][s.pos])
      BY <2>1, <3>1, <3>8, Materialised
    <3>11. materialise(f, in, w).v = el[s.pos].v
      BY <2>9, <3>1, <3>10 DEF Gives
    <3> QED
      BY <3>1, <3>9, <3>11 DEF e
  <2> QED
    BY <1>9, <2>16, <2>17, <2>18 DEF Places
<1> QED
  BY <1>11, <1>12

-----------------------------------------------------------------------------
(* Compounds: the entries find and the iterator read, and decode's.        *)

\* A name that is skipped, and the same name read.
NameOf(f, in, s, a) ==
  /\ s.ok = TRUE /\ s.pos = a.pos /\ a.pos \in Offsets(in)
  /\ f \in Bedrock => s.v = a.v
  /\ f \notin Bedrock => entry_name(s.v).ok /\ entry_name(s.v).v = a.v

LEMMA NameRead ==
  ASSUME NEW f \in Formats, NEW in \in Seq(Byte), NEW p \in Offsets(in),
         NEW s, s = skip_string(f, in, p), NEW a, a = read_string(f, in, p), a.ok
  PROVE  NameOf(f, in, s, a)
<1> DEFINE m == mutf8_to_utf8(s.v)
           z == entry_name(s.v)
<1>1. a = IF ~ s.ok THEN s
          ELSE IF f \in Bedrock \/ is_pure_ascii(s.v) THEN Ok(s.v, s.pos)
          ELSE Placed(m, s.pos)
  BY DEF read_string, Then, Placed
<1>2. Same(f, a, s, p, Len(in))
  BY StringSkipped
<1>3. s.ok = TRUE /\ s.pos = a.pos /\ a.pos \in Offsets(in)
  <2>1. s.ok /\ s.pos = a.pos /\ s.ok \in BOOLEAN /\ a.pos \in p .. Len(in)
    BY <1>2 DEF Same, Yields
  <2> QED
    BY <2>1 DEF Offsets
<1>4. s.v \in Seq(Byte)
  BY <1>3, SkipStringYields
<1>5. z = IF is_pure_ascii(s.v) THEN Ok(s.v, Len(s.v)) ELSE m
  BY DEF entry_name
<1>6. IsResult(m, Bad)
  BY <1>4, TextResult
<1> HIDE DEF m, z
<1>7. CASE f \in Bedrock
  <2>1. a = Ok(s.v, s.pos)
    BY <1>1, <1>3, <1>7
  <2>2. a.v = s.v
    BY <2>1, OkIs
  <2> QED
    BY <1>3, <1>7, <2>2 DEF NameOf
<1>8. CASE f \notin Bedrock /\ is_pure_ascii(s.v)
  <2>1. a = Ok(s.v, s.pos) /\ z = Ok(s.v, Len(s.v))
    BY <1>1, <1>3, <1>5, <1>8
  <2>2. a.v = s.v /\ z.ok /\ z.v = s.v
    BY <2>1, OkIs
  <2> QED
    BY <1>3, <1>8, <2>2 DEF NameOf, z
<1>9. CASE f \notin Bedrock /\ ~ is_pure_ascii(s.v)
  <2>1. a = Placed(m, s.pos) /\ z = m
    BY <1>1, <1>3, <1>5, <1>9
  <2>2. m.ok /\ a.v = m.v
    BY <1>6, <2>1, PlacedKeeps
  <2> QED
    BY <1>3, <1>9, <2>1, <2>2 DEF NameOf, z
<1> QED
  BY <1>7, <1>8, <1>9

\* One entry, decoded, and as the view reads it.
Reading(f, in, p, rec, name, x, q) ==
  /\ rec.ok = TRUE /\ rec.v.tag \in Kinds /\ rec.v.payload \in Offsets(in)
  /\ rec.pos = q /\ q \in p + 1 .. Len(in)
  /\ f \in Bedrock => rec.v.name = name
  /\ f \notin Bedrock => entry_name(rec.v.name).ok /\ entry_name(rec.v.name).v = name
  /\ materialise(f, in, Child(rec)).ok
  /\ materialise(f, in, Child(rec)).v = x

EntryRead(f, in, p, e, rec) ==
  \/ e.v = <<>> /\ ~ Readable(rec)
  \/ \E name, x : e.v = << <<name, x>> >> /\ Reading(f, in, p, rec, name, x, e.pos)

LEMMA ChildRead ==
  ASSUME NEW f \in Formats, NEW in \in Seq(Byte), NEW p \in Offsets(in),
         NEW e, e = decode_entry(f, in, p, Lower(f, in)), e.ok,
         NEW rec, rec = view_read_child(f, in, p)
  PROVE  EntryRead(f, in, p, e, rec)
<1>1. PICK I : I = Lower(f, in) /\ IsLower(f, in, I)
  BY LowerIs
<1> DEFINE t == read_tag_byte(in, p)
           s == skip_string(f, in, t.pos)
           a == read_string(f, in, t.pos)
           w == view_payload_size(f, in, s.pos, t.v)
           x == I[t.v][a.pos]
           none == [tag |-> t.v, name |-> <<>>, payload |-> t.pos]
           c == [tag |-> t.v, name |-> s.v, payload |-> s.pos]
           item == << <<a.v, x.v>> >>
<1>2. e = IF ~ t.ok THEN t ELSE IF t.v = "End" THEN Ok(<<>>, t.pos)
          ELSE IF ~ a.ok THEN a ELSE IF x.ok THEN Ok(item, x.pos) ELSE x
  BY <1>1 DEF decode_entry, Then
<1>3. rec = IF ~ t.ok THEN t ELSE IF t.v = "End" THEN Ok(none, t.pos)
            ELSE IF ~ s.ok THEN s ELSE IF w.ok THEN Ok(c, w.pos) ELSE w
  BY DEF view_read_child, Then
<1>4. t.ok /\ t.pos \in Offsets(in) /\ (t.v = "End" \/ t.v \in Kinds)
  <2>1. t.ok
    BY <1>2
  <2>2. t.ok => t.pos \in Offsets(in) /\ (t.v = "End" \/ t.v \in Kinds)
    BY TagByteYields DEF Yields, Offsets
  <2> QED
    BY <2>1, <2>2
<1>5. none.tag = t.v /\ c.tag = t.v /\ c.name = s.v /\ c.payload = s.pos
  OBVIOUS
<1>6. EntryWithin(rec, p, Len(in))
  BY ChildInside
<1>7. a.ok => NameOf(f, in, s, a)
  BY <1>4, NameRead
<1>8. PICK k : k = t.v
  OBVIOUS
<1> HIDE DEF none, c, w, s, a, item
<1>9. CASE k = "End"
  <2>1. e = Ok(<<>>, t.pos) /\ rec = Ok(none, t.pos)
    BY <1>2, <1>3, <1>4, <1>8, <1>9
  <2>2. e.v = <<>> /\ rec.v = none
    BY <2>1, OkIs
  <2>3. rec.v.tag = "End"
    BY <1>5, <1>8, <1>9, <2>2
  <2> QED
    BY <2>2, <2>3 DEF EntryRead, Readable
<1>10. CASE k # "End"
  <2>1. k \in Kinds /\ a.ok /\ x.ok /\ e = Ok(item, x.pos)
    BY <1>2, <1>4, <1>8, <1>10
  <2>2. NameOf(f, in, s, a)
    BY <1>7, <2>1
  <2>3. s.ok /\ s.pos = a.pos /\ a.pos \in Offsets(in)
    BY <2>2 DEF NameOf
  <2>4. PICK q \in Offsets(in) : q = a.pos
    BY <2>3
  <2>5. PICK d : d = decode_payloads(f, in)[k][q]
    OBVIOUS
  <2>6. x = I[k][q]
    BY <1>8, <2>4
  <2> HIDE DEF x
  <2>7. d.ok = TRUE /\ d.v = x.v /\ d.pos = x.pos
    BY <1>1, <2>1, <2>5, <2>6 DEF IsLower
  <2>8. w.ok /\ w.pos = x.pos
    <3>1. w = view_payload_size(f, in, q, k)
      BY <1>8, <2>3, <2>4 DEF w
    <3>2. d.ok
      BY <2>7
    <3>3. AsFar(w, d)
      BY <2>1, <2>5, <3>1, <3>2, WalkedAsRead
    <3> QED
      BY <2>7, <3>3 DEF AsFar
  <2>9. rec = Ok(c, w.pos)
    BY <1>3, <1>4, <1>8, <1>10, <2>3, <2>8
  <2>10. rec.ok = TRUE /\ rec.v = c /\ rec.pos = x.pos
    BY <2>8, <2>9, OkIs
  <2>11. e.v = item /\ e.pos = x.pos
    BY <2>1, OkIs
  <2>12. rec.v.tag = k /\ rec.v.name = s.v /\ rec.v.payload = q
    BY <1>5, <1>8, <2>3, <2>4, <2>10
  <2>13. rec.pos \in p + 1 .. Len(in)
    BY <1>6, <2>10 DEF EntryWithin
  <2>14. PICK v : v = Child(rec) /\ v.tag = k /\ v.payload = q
    <3>1. Child(rec).tag = rec.v.tag /\ Child(rec).payload = rec.v.payload
      BY DEF Child
    <3> QED
      BY <2>12, <3>1
  <2>15. PICK m : m = materialise(f, in, v)
    OBVIOUS
  <2>16. Gives(m, d)
    <3>1. v.tag \in Kinds /\ v.payload \in Offsets(in)
      BY <2>1, <2>14
    <3>2. Gives(materialise(f, in, v), decode_payloads(f, in)[v.tag][v.payload])
      BY <3>1, Materialised
    <3> QED
      BY <2>5, <2>14, <2>15, <3>2
  <2>17. m.ok /\ m.v = x.v
    BY <2>7, <2>16 DEF Gives
  <2>18. Reading(f, in, p, rec, a.v, x.v, x.pos)
    BY <2>1, <2>2, <2>10, <2>12, <2>13, <2>14, <2>15, <2>17 DEF Reading, NameOf
  <2>19. e.v = << <<a.v, x.v>> >> /\ Reading(f, in, p, rec, a.v, x.v, e.pos)
    BY <2>11, <2>18 DEF item
  <2> QED
    BY <2>19 DEF EntryRead
<1> QED
  BY <1>9, <1>10

\* What decode makes of the entries from p on.
Rest(f, in, p) == decode_compound(f, in, p, Lower(f, in))

LEMMA RestGoes ==
  ASSUME NEW f \in Formats, NEW in \in Seq(Byte), NEW p \in Offsets(in)
  PROVE  Goes(Rest(f, in, p), decode_entry(f, in, p, Lower(f, in)),
              [q \in Offsets(in) |-> Rest(f, in, q)])
<1>1. PICK I : I = Lower(f, in) /\ \E J : Agree(f, in, I, J)
  BY LowerIs DEF IsLower
<1> DEFINE D == [q \in Offsets(in) |-> decode_entry(f, in, q, I)]
           later == [q \in Offsets(in) |-> Rest(f, in, q)]
<1>2. PICK N \in Nat : N = Len(in)
  OBVIOUS
<1>3. Taking(D, N) /\ Offsets(in) = 0 .. N
  <2>1. PICK J : Agree(f, in, I, J)
    BY <1>1
  <2> QED
    BY <1>2, <2>1, CompoundTaking DEF Offsets
<1>4. \A q : Rest(f, in, q) = Rounds(D, N + 1, q)
  BY <1>1, <1>2 DEF Rest, decode_compound
<1>5. D[p] = decode_entry(f, in, p, I)
  OBVIOUS
<1>6. \A q \in Offsets(in) : later[q] = Rest(f, in, q)
  OBVIOUS
<1> HIDE DEF D, later
<1>7. PICK rest : \A q \in 0 .. N :
        rest[q] = from(D, rest, q) /\ Rounds(D, N + 1, q) = rest[q]
  BY <1>3, WholeLoop
<1>8. Goes(rest[p], D[p], rest)
  <2>1. rest[p] = from(D, rest, p)
    BY <1>3, <1>7
  <2> QED
    BY <2>1, FromGoes
<1>9. Rest(f, in, p) = rest[p] /\ \A q \in Offsets(in) : later[q] = rest[q]
  BY <1>3, <1>4, <1>6, <1>7
<1>10. D[p].ok => later[D[p].pos] = rest[D[p].pos]
  BY <1>3, <1>9 DEF Taking
<1>11. Goes(Rest(f, in, p), D[p], later)
  BY <1>8, <1>9, <1>10 DEF Goes
<1> QED
  BY <1>1, <1>5, <1>11 DEF later

\* What decode makes of them is a sequence.
LEMMA RestIsSeq ==
  ASSUME NEW f \in Formats, NEW in \in Seq(Byte)
  PROVE  \A p \in Offsets(in) : Rest(f, in, p).ok => \E n : IsSeq(Rest(f, in, p).v, n)
<1>1. PICK N \in Nat : N = Len(in) /\ Offsets(in) = 0 .. N
  BY DEF Offsets
<1> DEFINE S == {p \in 0 .. N : Rest(f, in, p).ok => \E n : IsSeq(Rest(f, in, p).v, n)}
<1>2. ASSUME NEW p \in 0 .. N, \A q \in p + 1 .. N : q \in S, Rest(f, in, p).ok
      PROVE  \E n : IsSeq(Rest(f, in, p).v, n)
  <2> DEFINE later == [q \in Offsets(in) |-> Rest(f, in, q)]
             e == decode_entry(f, in, p, Lower(f, in))
             r == Rest(f, in, p)
             u == Rest(f, in, e.pos)
  <2>1. Goes(r, e, later)
    BY <1>1, RestGoes
  <2>2. r.ok
    BY <1>2
  <2>3. e.pos \in p + 1 .. N => later[e.pos] = u /\ (u.ok => \E n : IsSeq(u.v, n))
    <3>1. e.pos \in p + 1 .. N => e.pos \in S /\ e.pos \in Offsets(in)
      BY <1>1, <1>2
    <3> QED
      BY <3>1
  <2>4. e.ok => EntryRead(f, in, p, e, view_read_child(f, in, p))
    BY <1>1, ChildRead
  <2> HIDE DEF later, e, r, u
  <2>5. e.ok
    BY <2>1, <2>2 DEF Goes
  <2>6. CASE e.v = <<>>
    <3>1. r = Ok(<<>>, e.pos)
      BY <2>1, <2>5, <2>6 DEF Goes
    <3>2. r.v = <<>>
      BY <3>1, OkIs
    <3> QED
      BY <3>2, SeqNone DEF r
  <2>7. CASE e.v # <<>>
    <3>1. PICK name, x : e.v = << <<name, x>> >> /\ e.pos \in p + 1 .. N
      BY <1>1, <2>4, <2>5, <2>7 DEF EntryRead, Reading
    <3>2. u.ok /\ r = Ok(e.v \o u.v, u.pos)
      BY <2>1, <2>2, <2>3, <2>5, <2>7, <3>1 DEF Goes
    <3>3. r.v = e.v \o u.v
      BY <3>2, OkIs
    <3>4. PICK n : IsSeq(u.v, n)
      BY <2>3, <3>1, <3>2
    <3>5. PICK y, X, Y : y = <<name, x>> /\ Y = u.v /\ X = <<y>> \o Y
      OBVIOUS
    <3>6. IsCons(X, y, Y, n)
      BY <3>4, <3>5, SeqCons
    <3>7. IsSeq(X, n + 1)
      BY <3>6 DEF IsCons
    <3>8. r.v = X
      BY <3>1, <3>3, <3>5
    <3> QED
      BY <3>7, <3>8 DEF r
  <2> QED
    BY <2>6, <2>7
<1>3. \A p \in 0 .. N : p \in S
  <2>1. \A p \in 0 .. N : (\A q \in p + 1 .. N : q \in S) => p \in S
    BY <1>2
  <2> HIDE DEF S
  <2> QED
    BY <2>1, FromLater
<1> QED
  BY <1>1, <1>3

\* NamesPlain, for the entries from anywhere on.
PlainOf(f, X) ==
  f \in Bedrock =>
    \A k \in DOMAIN X : LET name == entry_name(X[k][1]) IN name.ok /\ name.v = X[k][1]

\* The entry at p is the first of those that decode returns, and the others
\* are what it returns from the next on.
OneShown(f, in, p, X, rec) ==
  /\ Readable(rec)
  /\ rec.v.tag \in Kinds /\ rec.v.payload \in Offsets(in)
  /\ rec.pos \in p + 1 .. Len(in)
  /\ entry_name(rec.v.name).v = X[1][1]
  /\ materialise(f, in, Child(rec)).ok
  /\ materialise(f, in, Child(rec)).v = X[1][2]
  /\ Rest(f, in, rec.pos).ok
  /\ PlainOf(f, Rest(f, in, rec.pos).v)
  /\ \E n : /\ IsSeq(Rest(f, in, rec.pos).v, n)
            /\ IsCons(X, X[1], Rest(f, in, rec.pos).v, n)

LEMMA EntryShown ==
  ASSUME NEW f \in Formats, NEW in \in Seq(Byte), NEW p \in Offsets(in),
         NEW r, r = Rest(f, in, p), r.ok, PlainOf(f, r.v),
         NEW rec, rec = view_read_child(f, in, p)
  PROVE  \/ r.v = <<>> /\ ~ Readable(rec)
         \/ OneShown(f, in, p, r.v, rec)
<1>1. PICK e : e = decode_entry(f, in, p, Lower(f, in))
  OBVIOUS
<1> DEFINE later == [q \in Offsets(in) |-> Rest(f, in, q)]
           u == Rest(f, in, e.pos)
<1>2. Goes(r, e, later)
  BY <1>1, RestGoes
<1>3. e.ok
  BY <1>2 DEF Goes
<1>4. EntryRead(f, in, p, e, rec)
  BY <1>1, <1>3, ChildRead
<1>5. CASE e.v = <<>>
  <2>1. r = Ok(<<>>, e.pos)
    BY <1>2, <1>3, <1>5 DEF Goes
  <2>2. r.v = <<>>
    BY <2>1, OkIs
  <2>3. \A y : << y >> # <<>>
    OBVIOUS
  <2>4. ~ Readable(rec)
    BY <1>4, <1>5, <2>3 DEF EntryRead
  <2> QED
    BY <2>2, <2>4
<1>6. CASE e.v # <<>>
  <2>1. PICK name, x : e.v = << <<name, x>> >> /\ Reading(f, in, p, rec, name, x, e.pos)
    BY <1>4, <1>6 DEF EntryRead
  <2>2. e.pos \in p + 1 .. Len(in) /\ rec.pos = e.pos
    BY <2>1 DEF Reading
  <2>3. e.pos \in Offsets(in)
    BY <2>2 DEF Offsets
  <2>4. later[e.pos] = u
    BY <2>3
  <2>5. u.ok => \E n : IsSeq(u.v, n)
    BY <2>3, RestIsSeq
  <2>6. u = Rest(f, in, rec.pos)
    BY <2>2
  <2> HIDE DEF later, u
  <2>7. u.ok /\ r = Ok(e.v \o u.v, u.pos)
    BY <1>2, <1>3, <1>6, <2>4 DEF Goes
  <2>8. r.v = e.v \o u.v
    BY <2>7, OkIs
  <2>9. PICK n : IsSeq(u.v, n)
    BY <2>5, <2>7
  <2>10. PICK y, X, Y : y = <<name, x>> /\ Y = u.v /\ X = <<y>> \o Y
    OBVIOUS
  <2>11. IsCons(X, y, Y, n)
    BY <2>9, <2>10, SeqCons
  <2>12. r.v = X
    BY <2>1, <2>8, <2>10
  <2>13. X[1] = y /\ y[1] = name /\ y[2] = x
    BY <2>10, <2>11 DEF IsCons
  <2>14. IsCons(X, X[1], Y, n)
    BY <2>11, <2>13
  <2>15. DOMAIN X = 1 .. n + 1 /\ DOMAIN Y = 1 .. n /\ n \in Nat
    BY <2>9, <2>10, <2>11 DEF IsCons, IsSeq
  <2>16. \A k \in 1 .. n : X[k + 1] = Y[k] /\ k + 1 \in 1 .. n + 1
    BY <2>11, <2>15 DEF IsCons
  <2>17. PlainOf(f, Y)
    BY <2>12, <2>15, <2>16 DEF PlainOf
  <2>18. rec.ok /\ rec.v.tag # "End" /\ entry_name(rec.v.name).ok
         /\ entry_name(rec.v.name).v = name
    <3>1. rec.ok /\ rec.v.tag # "End"
      BY <2>1, EndIsNone DEF Reading
    <3>2. CASE f \in Bedrock
      <4>1. rec.v.name = name
        BY <2>1, <3>2 DEF Reading
      <4>2. 1 \in DOMAIN X
        BY <2>15
      <4>3. entry_name(X[1][1]).ok /\ entry_name(X[1][1]).v = X[1][1]
        BY <2>12, <3>2, <4>2 DEF PlainOf
      <4> QED
        BY <2>13, <3>1, <4>1, <4>3
    <3>3. CASE f \notin Bedrock
      BY <2>1, <3>1, <3>3 DEF Reading
    <3> QED
      BY <3>2, <3>3
  <2>19. Readable(rec)
    BY <2>18 DEF Readable
  <2>20. /\ rec.v.tag \in Kinds /\ rec.v.payload \in Offsets(in)
         /\ materialise(f, in, Child(rec)).ok
         /\ materialise(f, in, Child(rec)).v = x
    BY <2>1 DEF Reading
  <2>21. OneShown(f, in, p, X, rec)
    BY <2>2, <2>6, <2>7, <2>9, <2>10, <2>13, <2>14, <2>17, <2>18, <2>19, <2>20 DEF OneShown
  <2> QED
    BY <2>12, <2>21
<1> QED
  BY <1>5, <1>6

\* A round of find asks for later entries only.
LEMMA RoundLater ==
  ASSUME NEW f \in Formats, NEW in \in Seq(Byte), NEW p \in Offsets(in), NEW key,
         NEW g, NEW h, \A q \in p + 1 .. Len(in) : g[q] = h[q]
  PROVE  find_round(f, in, p, key, g) = find_round(f, in, p, key, h)
<1>1. PICK rec : rec = view_read_child(f, in, p)
  OBVIOUS
<1>2. EntryWithin(rec, p, Len(in))
  BY <1>1, ChildInside
<1>3. Readable(rec) => g[rec.pos] = h[rec.pos]
  BY <1>2 DEF EntryWithin, Readable
<1> QED
  BY <1>1, <1>3 DEF find_round

\* g has what find gives, and satisfies its recursion.
Finds(f, in, key, g) ==
  \A p \in Offsets(in) :
    g[p] = find_round(f, in, p, key, g) /\ find(f, in, p, key) = g[p]

\* The recursion has a solution.
LEMMA FindIs ==
  ASSUME NEW f \in Formats, NEW in \in Seq(Byte), NEW key
  PROVE  \E g : Finds(f, in, key, g)
<1>1. PICK N \in Nat : N = Len(in) /\ Offsets(in) = 0 .. N
  BY DEF Offsets
<1> DEFINE R(g, p) == find_round(f, in, p, key, g)
           S == {k \in 0 .. N : \E g : \A p \in k .. N : g[p] = R(g, p)}
<1>2. ASSUME NEW p \in 0 .. N, NEW g, NEW h, \A q \in p + 1 .. N : g[q] = h[q]
      PROVE  R(g, p) = R(h, p)
  <2>1. p \in Offsets(in)
    BY <1>1
  <2> QED
    BY <1>1, <1>2, <2>1, RoundLater
<1> HIDE DEF R
<1>3. ASSUME NEW k \in 0 .. N, NEW g, \A p \in k + 1 .. N : g[p] = R(g, p)
      PROVE  \E h : \A p \in k .. N : h[p] = R(h, p)
  <2> DEFINE h == [p \in k .. N |-> IF p = k THEN R(g, k) ELSE g[p]]
  <2>1. k \in k .. N /\ \A p \in k .. N : p = k \/ p \in k + 1 .. N
    OBVIOUS
  <2>2. h[k] = R(g, k) /\ \A p \in k + 1 .. N : h[p] = g[p]
    BY <2>1
  <2> HIDE DEF h
  <2>3. ASSUME NEW p \in k .. N PROVE h[p] = R(h, p)
    <3>1. p \in 0 .. N /\ \A q \in p + 1 .. N : q \in k + 1 .. N
      OBVIOUS
    <3>2. R(g, p) = R(h, p)
      BY <1>2, <2>2, <3>1
    <3> QED
      BY <1>3, <2>1, <2>2, <3>2
  <2> WITNESS h
  <2> QED
    BY <2>3
<1>4. N \in S
  <2>1. N + 1 .. N = {} /\ N \in 0 .. N
    OBVIOUS
  <2>2. PICK g : g = <<>>
    OBVIOUS
  <2>3. \A p \in N + 1 .. N : g[p] = R(g, p)
    BY <2>1
  <2>4. \E h : \A p \in N .. N : h[p] = R(h, p)
    BY <1>3, <2>1, <2>3
  <2> QED
    BY <2>1, <2>4
<1>5. \A k \in 0 .. N : k # N /\ k + 1 \in S => k \in S
  BY <1>3
<1>6. 0 \in S
  <2> HIDE DEF S
  <2>1. \A k \in 0 .. N : k \in S
    BY <1>4, <1>5, Downward
  <2> QED
    BY <2>1
<1>7. PICK g : \A p \in 0 .. N : g[p] = R(g, p)
  BY <1>6
<1> DEFINE h == [p \in Offsets(in) |-> g[p]]
           P(x) == x = [p \in Offsets(in) |-> find_round(f, in, p, key, x)]
           c == CHOOSE x : P(x)
<1> HIDE DEF c
<1>8. P(h)
  <2>0. \A p \in Offsets(in) : h[p] = g[p]
    OBVIOUS
  <2>1. \A p \in 0 .. N : h[p] = g[p]
    <3> HIDE DEF h
    <3> QED
      BY <1>1, <2>0
  <2>2. ASSUME NEW p \in 0 .. N PROVE g[p] = R(h, p)
    <3>1. \A q \in p + 1 .. N : q \in 0 .. N
      OBVIOUS
    <3>2. \A q \in p + 1 .. N : g[q] = h[q]
      BY <2>1, <3>1
    <3>3. R(g, p) = R(h, p)
      BY <1>2, <3>2
    <3> QED
      BY <1>7, <3>3
  <2>3. \A p \in Offsets(in) : g[p] = find_round(f, in, p, key, h)
    BY <1>1, <2>2 DEF R
  <2> QED
    BY <2>3
<1>9. P(c)
  <2> HIDE DEF P
  <2> QED
    BY <1>8 DEF c
<1>10. ASSUME NEW p \in Offsets(in)
       PROVE  c[p] = find_round(f, in, p, key, c) /\ find(f, in, p, key) = c[p]
  <2>1. find(f, in, p, key) = c[p]
    BY DEF find, c
  <2>2. c[p] = find_round(f, in, p, key, c)
    BY <1>9
  <2> QED
    BY <2>1, <2>2
<1> QED
  BY <1>10 DEF Finds

\* v is the view of the first entry of that name, or there is none.
FirstOf(f, in, X, key, v) ==
  \/ /\ v = Nothing
     /\ \A k \in DOMAIN X : X[k][1] # key
  \/ /\ v # Nothing
     /\ \E k \in DOMAIN X : /\ X[k][1] = key
                            /\ \A j \in DOMAIN X : X[j][1] = key => k <= j
                            /\ materialise(f, in, v).v = X[k][2]

LEMMA FindShown ==
  ASSUME NEW f \in Formats, NEW in \in Seq(Byte), NEW key
  PROVE  \A p \in Offsets(in) :
           Rest(f, in, p).ok /\ PlainOf(f, Rest(f, in, p).v)
             => FirstOf(f, in, Rest(f, in, p).v, key, find(f, in, p, key))
<1>1. PICK N \in Nat : N = Len(in) /\ Offsets(in) = 0 .. N
  BY DEF Offsets
<1>2. PICK g : Finds(f, in, key, g)
  BY FindIs
<1>0. \A p \in 0 .. N :
        g[p] = find_round(f, in, p, key, g) /\ find(f, in, p, key) = g[p]
  BY <1>1, <1>2 DEF Finds
<1> DEFINE Told(p) == Rest(f, in, p).ok /\ PlainOf(f, Rest(f, in, p).v)
           Good(p) == Told(p) => FirstOf(f, in, Rest(f, in, p).v, key, g[p])
           S == {p \in 0 .. N : Good(p)}
<1>3. ASSUME NEW p \in 0 .. N, \A q \in p + 1 .. N : q \in S, Told(p)
      PROVE  FirstOf(f, in, Rest(f, in, p).v, key, g[p])
  <2>1. PICK r, rec : r = Rest(f, in, p) /\ rec = view_read_child(f, in, p)
    OBVIOUS
  <2>2. PICK X : X = r.v
    OBVIOUS
  <2>3. (X = <<>> /\ ~ Readable(rec)) \/ OneShown(f, in, p, X, rec)
    BY <1>1, <1>3, <2>1, <2>2, EntryShown
  <2>4. g[p] = IF ~ Readable(rec) THEN Nothing
               ELSE IF entry_name(rec.v.name).v = key THEN Child(rec) ELSE g[rec.pos]
    BY <1>0, <2>1 DEF find_round
  <2>5. CASE X = <<>> /\ ~ Readable(rec)
    <3>1. DOMAIN X = {}
      BY <2>5
    <3> QED
      BY <2>1, <2>2, <2>4, <2>5, <3>1 DEF FirstOf
  <2>6. CASE OneShown(f, in, p, X, rec)
    <3>1. PICK Y : Y = Rest(f, in, rec.pos).v
      OBVIOUS
    <3>2. PICK n : IsSeq(Y, n) /\ IsCons(X, X[1], Y, n)
      BY <2>6, <3>1 DEF OneShown
    <3>3. n \in Nat /\ DOMAIN X = 1 .. n + 1 /\ DOMAIN Y = 1 .. n
      BY <3>2 DEF IsCons, IsSeq
    <3>4. \A k \in 1 .. n : X[k + 1] = Y[k]
      BY <3>2 DEF IsCons
    <3>5. /\ Readable(rec) /\ rec.v.tag \in Kinds /\ rec.pos \in p + 1 .. N
          /\ entry_name(rec.v.name).v = X[1][1]
          /\ materialise(f, in, Child(rec)).v = X[1][2]
      BY <1>1, <2>6 DEF OneShown
    <3>6. CASE X[1][1] = key
      <4>1. g[p] = Child(rec)
        BY <2>4, <3>5, <3>6
      <4>2. Child(rec) # Nothing
        <5>1. Child(rec).tag = rec.v.tag /\ Nothing.tag = "none"
          BY DEF Child, Nothing
        <5>2. "none" \notin Kinds
          BY DEF Kinds, TagIds
        <5> QED
          BY <3>5, <5>1, <5>2
      <4>3. 1 \in DOMAIN X /\ \A j \in DOMAIN X : 1 <= j
        BY <3>3
      <4>4. FirstOf(f, in, X, key, g[p])
        BY <3>5, <3>6, <4>1, <4>2, <4>3 DEF FirstOf
      <4> QED
        BY <2>1, <2>2, <4>4
    <3>7. CASE X[1][1] # key
      <4>1. PICK v : v = g[rec.pos] /\ g[p] = v
        BY <2>4, <3>5, <3>7
      <4>2. FirstOf(f, in, Y, key, v)
        <5>1. rec.pos \in S
          BY <1>3, <3>5
        <5>2. Told(rec.pos)
          BY <2>6 DEF OneShown
        <5> QED
          BY <3>1, <4>1, <5>1, <5>2
      <4>3. ASSUME NEW j \in DOMAIN X, X[j][1] = key
            PROVE  \E i \in 1 .. n : j = i + 1 /\ Y[i][1] = key
        <5>1. j \in 1 .. n + 1 /\ j # 1
          BY <3>3, <3>7, <4>3
        <5>2. j - 1 \in 1 .. n /\ j = (j - 1) + 1
          BY <3>3, <5>1
        <5>3. Y[j - 1][1] = key
          BY <3>4, <4>3, <5>2
        <5> QED
          BY <5>2, <5>3
      <4>4. CASE v = Nothing /\ \A k \in DOMAIN Y : Y[k][1] # key
        BY <2>1, <2>2, <3>3, <4>1, <4>3, <4>4 DEF FirstOf
      <4>5. ASSUME v # Nothing, NEW k \in DOMAIN Y, Y[k][1] = key,
                   \A j \in DOMAIN Y : Y[j][1] = key => k <= j,
                   materialise(f, in, v).v = Y[k][2]
            PROVE  FirstOf(f, in, X, key, v)
        <5>1. k + 1 \in DOMAIN X /\ X[k + 1] = Y[k] /\ k \in 1 .. n
          BY <3>3, <3>4
        <5>2. ASSUME NEW j \in DOMAIN X, X[j][1] = key PROVE k + 1 <= j
          <6>1. PICK i \in 1 .. n : j = i + 1 /\ Y[i][1] = key
            BY <4>3, <5>2
          <6>2. k <= i
            BY <3>3, <4>5, <6>1
          <6> QED
            BY <5>1, <6>1, <6>2
        <5>3. X[k + 1][1] = key /\ materialise(f, in, v).v = X[k + 1][2]
          BY <4>5, <5>1
        <5> QED
          BY <4>5, <5>1, <5>2, <5>3 DEF FirstOf
      <4> QED
        BY <2>1, <2>2, <4>1, <4>2, <4>4, <4>5 DEF FirstOf
    <3> QED
      BY <3>6, <3>7
  <2> QED
    BY <2>3, <2>5, <2>6
<1>4. \A p \in 0 .. N : p \in S
  <2>1. \A p \in 0 .. N : (\A q \in p + 1 .. N : q \in S) => p \in S
    BY <1>3
  <2> HIDE DEF S
  <2> QED
    BY <2>1, FromLater
<1> QED
  BY <1>0, <1>1, <1>4

-----------------------------------------------------------------------------
(* The loop against decode.                                                *)

\* A root that is a compound has the entries that are read from its payload
\* on.
LEMMA RootEntries ==
  ASSUME NEW f \in Formats, NEW in \in Seq(Byte), NEW r, r = make_view_root(f, in),
         NEW d, d = decode(f, in, 0), Is(d, "Compound")
  PROVE  /\ r.ok /\ r.v.tag = "Compound" /\ r.v.payload \in Offsets(in)
         /\ Rest(f, in, r.v.payload).ok /\ Rest(f, in, r.v.payload).v = Elements(d)
<1>1. d.ok /\ d.v[2][1] = "Compound"
  BY DEF Is
<1>2. r.ok /\ r.v.tag = d.v[2][1]
  BY <1>1, RootShown
<1>3. IsView(in, r.v)
  BY <1>2, RootIsView
<1>4. PICK p \in Offsets(in) : p = r.v.payload
  BY <1>3 DEF IsView
<1>5. PICK x : x = decode_payloads(f, in)["Compound"][p]
  OBVIOUS
<1>6. x.ok /\ x.v = d.v[2]
  <2>1. r.v.tag # "End"
    BY <1>1, <1>2
  <2>2. PICK y : y = decode_payloads(f, in)[r.v.tag][r.v.payload]
    OBVIOUS
  <2>3. y.ok /\ y.v = d.v[2]
    BY <1>1, <2>1, <2>2, RootShown
  <2> QED
    BY <1>1, <1>2, <1>4, <1>5, <2>2, <2>3
<1> DEFINE c == Rest(f, in, p)
<1>7. x = IF c.ok THEN Ok(<<"Compound", c.v>>, c.pos) ELSE c
  <2>1. /\ "Compound" \in Kinds /\ "Compound" \notin DOMAIN Size
        /\ "Compound" \notin DOMAIN Elem
    BY DEF Kinds, TagIds, Size, Elem
  <2>2. x = decode_payload(f, in, p, "Compound", kMaxDecodeDepth, Lower(f, in))
    BY <1>5, <2>1, LowerIs DEF IsLower
  <2> QED
    BY <2>1, <2>2, DecodesSome DEF decode_payload, Then, Rest
<1> HIDE DEF c
<1>8. c.ok
  BY <1>6, <1>7
<1>9. x.v = <<"Compound", c.v>>
  <2>1. x = Ok(<<"Compound", c.v>>, c.pos)
    BY <1>7, <1>8
  <2> QED
    BY <2>1, OkIs
<1>10. Elements(d) = c.v
  <2>1. x.v[2] = c.v
    BY <1>9
  <2> QED
    BY <1>6, <2>1 DEF Elements
<1> QED
  BY <1>1, <1>2, <1>4, <1>8, <1>10 DEF c

\* The loop has visited the first k of n entries, and the others are those that
\* decode returns from the iterator's position on.
Visited(f, in, loop, list, X, k, n) ==
  /\ IsSeq(X, n) /\ IsSeq(list, k) /\ k <= n
  /\ \A j \in 1 .. k : /\ list[j][1] = X[j][1]
                       /\ list[j][2].ok /\ list[j][2].v = X[j][2]
  /\ loop.done => k = n
  /\ ~ loop.done =>
       /\ Rest(f, in, loop.next).ok
       /\ PlainOf(f, Rest(f, in, loop.next).v)
       /\ IsSeq(Rest(f, in, loop.next).v, n - k)
       /\ \A j \in 1 .. n - k : Rest(f, in, loop.next).v[j] = X[k + j]

Compared(f, in, loop, list) ==
  \A d \in {decode(f, in, 0)} :
    Is(d, "Compound") /\ PlainOf(f, Elements(d)) =>
      \E k, n : Visited(f, in, loop, list, Elements(d), k, n)

\* LoopInv, and what the loop has visited so far.
LoopShows ==
  /\ LoopInv
  /\ ~ it.done => it.child.tag \in Kinds
  /\ ~ began => it.done /\ seen = <<>>
  /\ began => Compared(format, bytes, it, seen)

IsMore(X, Y, x, n) == IsSeq(X, n + 1) /\ X[n + 1] = x /\ \A i \in 1 .. n : X[i] = Y[i]

LEMMA SeqMore ==
  ASSUME NEW Y, NEW n, IsSeq(Y, n), NEW x, NEW X, X = Append(Y, x)
  PROVE  IsMore(X, Y, x, n)
<1>0. n \in Nat
  BY DEF IsSeq
<1>1. PICK T : Y \in Seq(T) /\ Len(Y) = n
  BY DEF IsSeq
<1>2. PICK U : U = T \cup {x}
  OBVIOUS
<1>3. Y \in Seq(U) /\ x \in U
  BY <1>1, <1>2
<1>4. X \in Seq(U) /\ Len(X) = n + 1 /\ X[n + 1] = x /\ \A i \in 1 .. n : X[i] = Y[i]
  BY <1>0, <1>1, <1>3
<1> QED
  BY <1>0, <1>4 DEF IsSeq, IsMore

\* A round at off, when k of n entries have been visited and the others are
\* what decode returns from off on.
LEMMA RoundShows ==
  ASSUME LoopInv, NEW off \in Offsets(bytes), advance_to_next(off),
         NEW X, NEW k, NEW n,
         Visited(format, bytes, [done |-> FALSE, next |-> off], seen, X, k, n)
  PROVE  \E j : Visited(format, bytes, it', seen', X, j, n)
<1>1. PICK f \in Formats, in \in Seq(Byte) : f = format /\ in = bytes
  BY DEF LoopInv
<1>2. PICK c, rec : c = Rest(f, in, off) /\ rec = view_read_child(f, in, off)
  OBVIOUS
<1>3. /\ IsSeq(X, n) /\ IsSeq(seen, k) /\ k <= n
      /\ \A j \in 1 .. k : /\ seen[j][1] = X[j][1]
                           /\ seen[j][2].ok /\ seen[j][2].v = X[j][2]
      /\ c.ok /\ PlainOf(f, c.v) /\ IsSeq(c.v, n - k)
      /\ \A j \in 1 .. n - k : c.v[j] = X[k + j]
  <2>1. PICK o : o = [done |-> FALSE, next |-> off]
    OBVIOUS
  <2>2. ~ o.done /\ o.next = off
    BY <2>1
  <2>3. Visited(f, in, o, seen, X, k, n)
    BY <1>1, <2>1
  <2> QED
    BY <1>2, <2>2, <2>3 DEF Visited
<1>4. k \in Nat /\ n \in Nat
  BY <1>3 DEF IsSeq
<1>5. (c.v = <<>> /\ ~ Readable(rec)) \/ OneShown(f, in, off, c.v, rec)
  BY <1>1, <1>2, <1>3, EntryShown
<1>6. CASE c.v = <<>> /\ ~ Readable(rec)
  <2>1. it' = Done /\ seen' = seen
    BY <1>1, <1>2, <1>6, Zenon DEF advance_to_next
  <2>2. it'.done = TRUE
    BY <2>1 DEF Done
  <2>3. n - k = 0
    BY <1>3, <1>6 DEF IsSeq
  <2>4. k = n
    BY <1>4, <2>3
  <2>5. Visited(f, in, it', seen', X, k, n)
    BY <1>3, <2>1, <2>2, <2>4 DEF Visited
  <2> QED
    BY <1>1, <2>5
<1>7. CASE OneShown(f, in, off, c.v, rec)
  <2> DEFINE name == entry_name(rec.v.name).v
             m == materialise(f, in, Child(rec))
             u == Rest(f, in, rec.pos)
             j == k + 1
  <2>1. /\ it' = [done |-> FALSE, next |-> rec.pos, name |-> name, child |-> Child(rec)]
        /\ seen' = Append(seen, <<name, m>>)
    <3>1. Readable(rec)
      BY <1>7 DEF OneShown
    <3> QED
      BY <1>1, <1>2, <3>1, Zenon DEF advance_to_next
  <2>2. it'.done = FALSE /\ it'.next = rec.pos
    BY <2>1
  <2>3. PICK l : IsSeq(u.v, l) /\ IsCons(c.v, c.v[1], u.v, l)
    BY <1>7 DEF OneShown
  <2>4. u.ok /\ PlainOf(f, u.v)
    BY <1>7 DEF OneShown
  <2>5. name = c.v[1][1] /\ m.ok /\ m.v = c.v[1][2]
    BY <1>7 DEF OneShown
  <2> HIDE DEF name, m, u
  <2>6. PICK y : y = <<name, m>> /\ y[1] = name /\ y[2] = m
    <3>1. PICK y : y = <<name, m>>
      OBVIOUS
    <3>2. y[1] = name /\ y[2] = m
      BY <3>1
    <3> QED
      BY <3>1, <3>2
  <2>7. l + 1 = n - k /\ l \in Nat
    BY <1>3, <2>3 DEF IsCons, IsSeq
  <2>8. l = n - j /\ j <= n /\ 1 \in 1 .. n - k /\ k + 1 = j
    BY <1>4, <2>7
  <2>9. IsSeq(seen', j) /\ seen'[j] = y /\ \A i \in 1 .. k : seen'[i] = seen[i]
    <3>1. PICK Y, Z : Y = seen /\ Z = seen' /\ Z = Append(Y, y)
      BY <2>1, <2>6
    <3>2. IsMore(Z, Y, y, k)
      BY <1>3, <3>1, SeqMore
    <3> QED
      BY <3>1, <3>2 DEF IsMore
  <2>10. c.v[1] = X[j]
    BY <1>3, <2>8
  <2>11. \A i \in 1 .. j : i \in 1 .. k \/ i = j
    BY <1>4
  <2>12. ASSUME NEW i \in 1 .. j
         PROVE  seen'[i][1] = X[i][1] /\ seen'[i][2].ok /\ seen'[i][2].v = X[i][2]
    <3>1. CASE i = j
      BY <2>5, <2>6, <2>9, <2>10, <3>1
    <3>2. CASE i \in 1 .. k
      BY <1>3, <2>9, <3>2
    <3> QED
      BY <2>11, <3>1, <3>2
  <2>13. IsSeq(u.v, n - j)
    BY <2>3, <2>8
  <2>14. ASSUME NEW i \in 1 .. n - j PROVE u.v[i] = X[j + i]
    <3>1. i \in 1 .. l /\ i + 1 \in 1 .. n - k /\ k + (i + 1) = j + i
      BY <1>4, <2>7, <2>8
    <3>2. c.v[i + 1] = u.v[i]
      BY <2>3, <3>1 DEF IsCons
    <3>3. c.v[i + 1] = X[k + (i + 1)]
      BY <1>3, <3>1
    <3> QED
      BY <3>1, <3>2, <3>3
  <2> HIDE DEF j
  <2>15. u = Rest(f, in, it'.next)
    BY <2>2 DEF u
  <2>16. Visited(f, in, it', seen', X, j, n)
    BY <1>3, <2>2, <2>4, <2>8, <2>9, <2>12, <2>13, <2>14, <2>15 DEF Visited
  <2> QED
    BY <1>1, <2>16
<1> QED
  BY <1>5, <1>6, <1>7

\* A child the loop hands out has a kind.
LEMMA KindKnown ==
  ASSUME LoopInv, NEW off \in Offsets(bytes), advance_to_next(off)
  PROVE  ~ it'.done => it'.child.tag \in Kinds
<1> DEFINE rec == view_read_child(format, bytes, off)
           t == read_tag_byte(bytes, off)
           s == skip_string(format, bytes, t.pos)
           x == view_payload_size(format, bytes, s.pos, t.v)
           e == [tag |-> t.v, name |-> <<>>, payload |-> t.pos]
           c == [tag |-> t.v, name |-> s.v, payload |-> s.pos]
<1>1. format \in Formats /\ bytes \in Seq(Byte)
  BY DEF LoopInv
<1>2. rec = IF ~ t.ok THEN t ELSE IF t.v = "End" THEN Ok(e, t.pos)
            ELSE IF ~ s.ok THEN s ELSE IF x.ok THEN Ok(c, x.pos) ELSE x
  BY DEF view_read_child, Then
<1>3. e.tag = t.v /\ c.tag = t.v
  OBVIOUS
<1>4. t.ok => t.v = "End" \/ t.v \in Kinds
  BY <1>1, TagByteYields
<1>5. CASE Readable(rec)
  <2>1. it' = [done |-> FALSE, next |-> rec.pos, name |-> entry_name(rec.v.name).v,
               child |-> Child(rec)]
    BY <1>5, Zenon DEF advance_to_next
  <2>2. it'.child.tag = rec.v.tag
    BY <2>1 DEF Child
  <2>3. rec.ok /\ rec.v.tag # "End"
    BY <1>5 DEF Readable
  <2> HIDE DEF rec, t, s, x, e, c
  <2>4. t.ok /\ (rec = Ok(e, t.pos) \/ rec = Ok(c, x.pos))
    BY <1>2, <2>3
  <2>5. rec.v = e \/ rec.v = c
    BY <2>4, OkIs
  <2> QED
    BY <1>3, <1>4, <2>2, <2>3, <2>4, <2>5
<1>6. CASE ~ Readable(rec)
  <2>1. it' = Done
    BY <1>6, Zenon DEF advance_to_next
  <2>2. it'.done = TRUE
    BY <2>1 DEF Done
  <2> QED
    BY <2>2
<1> QED
  BY <1>5, <1>6

LEMMA IncrementShows ==
  ASSUME LoopShows, Increment
  PROVE  LoopShows'
<1>1. LoopInv /\ LoopInv'
  BY IncrementMoves DEF LoopShows
<1>2. it.next \in Offsets(bytes) /\ advance_to_next(it.next) /\ ~ it.done
      /\ format' = format /\ bytes' = bytes /\ began' = began
  BY <1>1 DEF LoopInv, Increment
<1>3. ~ it'.done => it'.child.tag \in Kinds
  BY <1>1, <1>2, KindKnown
<1>4. began
  BY <1>2 DEF LoopShows
<1>5. ASSUME NEW d \in {decode(format, bytes, 0)}, Is(d, "Compound"),
             PlainOf(format, Elements(d))
      PROVE  \E k, n : Visited(format, bytes, it', seen', Elements(d), k, n)
  <2>1. Compared(format, bytes, it, seen)
    BY <1>4 DEF LoopShows
  <2>2. PICK k, n : Visited(format, bytes, it, seen, Elements(d), k, n)
    BY <1>5, <2>1 DEF Compared
  <2>3. PICK o : o = [done |-> FALSE, next |-> it.next]
    OBVIOUS
  <2>4. ~ o.done /\ o.next = it.next
    BY <2>3
  <2>5. Visited(format, bytes, o, seen, Elements(d), k, n)
    BY <1>2, <2>2, <2>4 DEF Visited
  <2>6. \E j : Visited(format, bytes, it', seen', Elements(d), j, n)
    BY <1>1, <1>2, <2>3, <2>5, RoundShows
  <2> QED
    BY <2>6
<1>6. Compared(format', bytes', it', seen')
  BY <1>2, <1>5 DEF Compared
<1> QED
  BY <1>1, <1>2, <1>3, <1>4, <1>6 DEF LoopShows

LEMMA BeginShows ==
  ASSUME LoopShows, BeginIteration
  PROVE  LoopShows'
<1>1. LoopInv /\ LoopInv'
  BY BeginMoves DEF LoopShows
<1>2. PICK p : p = Root.v.payload
  OBVIOUS
<1>3. Root.ok /\ advance_to_next(p) /\ format' = format /\ bytes' = bytes
      /\ began' = TRUE /\ ~ began
  BY <1>2 DEF BeginIteration
<1>4. p \in Offsets(bytes)
  BY <1>1, <1>2, <1>3, RootInside DEF LoopInv, Root
<1>5. ~ it'.done => it'.child.tag \in Kinds
  BY <1>1, <1>3, <1>4, KindKnown
<1>6. seen = <<>>
  BY <1>3 DEF LoopShows
<1>7. ASSUME NEW d \in {decode(format, bytes, 0)}, Is(d, "Compound"),
             PlainOf(format, Elements(d))
      PROVE  \E k, n : Visited(format, bytes, it', seen', Elements(d), k, n)
  <2>1. PICK f \in Formats, in \in Seq(Byte) : f = format /\ in = bytes
    BY <1>1 DEF LoopInv
  <2>2. PICK r : r = make_view_root(f, in) /\ r.v.payload = p
    BY <1>2, <2>1 DEF Root
  <2>3. d = decode(f, in, 0)
    BY <2>1
  <2>4. PICK c : c = Rest(f, in, p)
    OBVIOUS
  <2>5. c.ok /\ c.v = Elements(d)
    BY <1>7, <2>2, <2>3, <2>4, RootEntries
  <2>6. PICK n : IsSeq(c.v, n)
    BY <1>4, <2>1, <2>4, <2>5, RestIsSeq
  <2>7. n \in Nat
    BY <2>6 DEF IsSeq
  <2>8. n - 0 = n /\ 0 <= n /\ 1 .. 0 = {} /\ \A j \in 1 .. n : 0 + j = j
    BY <2>7
  <2>9. PICK o : o = [done |-> FALSE, next |-> p]
    OBVIOUS
  <2>10. o.done = FALSE /\ o.next = p
    BY <2>9
  <2>11. Visited(f, in, o, seen, Elements(d), 0, n)
    BY <1>6, <1>7, <2>1, <2>4, <2>5, <2>6, <2>8, <2>10, SeqNone DEF Visited
  <2>12. \E j : Visited(format, bytes, it', seen', Elements(d), j, n)
    BY <1>1, <1>3, <1>4, <2>1, <2>9, <2>11, RoundShows
  <2> QED
    BY <2>12
<1>8. Compared(format', bytes', it', seen')
  BY <1>3, <1>7 DEF Compared
<1> QED
  BY <1>1, <1>3, <1>5, <1>8 DEF LoopShows

LEMMA LoopKeepsShowing == BufferSpec => []LoopShows
<1>1. BufferInit => LoopShows
  <2> SUFFICES ASSUME BufferInit PROVE LoopShows
    OBVIOUS
  <2>1. LoopInv
    BY BufferStarts
  <2>2. it.done = TRUE /\ seen = <<>> /\ began = FALSE
    BY DEF BufferInit, Done
  <2> QED
    BY <2>1, <2>2 DEF LoopShows
<1>2. LoopShows /\ [BufferNext]_bufferVars => LoopShows'
  <2>1. ASSUME LoopShows, UNCHANGED bufferVars PROVE LoopShows'
    BY <2>1 DEF LoopShows, LoopInv, Compared, bufferVars
  <2> QED
    BY <2>1, IncrementShows, BeginShows DEF BufferNext
<1> QED
  BY <1>1, <1>2, PTL DEF BufferSpec

-----------------------------------------------------------------------------
(* A view shows what decode reads.                                         *)

LEMMA IterationShown == LoopShows => IterationAgrees
<1> SUFFICES ASSUME LoopShows, began, NEW d \in Decoded,
                    Is(d, "Compound"), NamesPlain(Elements(d))
             PROVE  /\ Len(seen) <= Len(Elements(d))
                    /\ \A k \in DOMAIN seen : /\ seen[k][1] = Elements(d)[k][1]
                                              /\ seen[k][2].ok
                                              /\ seen[k][2].v = Elements(d)[k][2]
                    /\ it.done => Len(seen) = Len(Elements(d))
  BY DEF IterationAgrees
<1>1. d \in {decode(format, bytes, 0)} /\ PlainOf(format, Elements(d))
  BY DEF Decoded, NamesPlain, PlainOf
<1>2. PICK k, n : Visited(format, bytes, it, seen, Elements(d), k, n)
  BY <1>1 DEF LoopShows, Compared
<1>3. IsSeq(Elements(d), n) /\ IsSeq(seen, k) /\ k <= n /\ (it.done => k = n)
  BY <1>2 DEF Visited
<1>4. Len(Elements(d)) = n /\ Len(seen) = k /\ DOMAIN seen = 1 .. k
  BY <1>3 DEF IsSeq
<1> QED
  BY <1>2, <1>3, <1>4 DEF Visited

LEMMA FindsShown == LoopShows => FindAgrees
<1> SUFFICES ASSUME LoopShows, NEW d \in Decoded, NEW r \in {Root},
                    Is(d, "Compound"), NamesPlain(Elements(d)), NEW key \in Keys,
                    NEW v \in {find(format, bytes, r.v.payload, key)}
             PROVE  FirstNamed(Elements(d), key, v)
  BY DEF FindAgrees
<1>1. PICK f \in Formats, in \in Seq(Byte) : f = format /\ in = bytes
  BY DEF LoopShows, LoopInv
<1>2. d = decode(f, in, 0) /\ r = make_view_root(f, in) /\ PlainOf(f, Elements(d))
  BY <1>1 DEF Decoded, NamesPlain, PlainOf, Root
<1>3. PICK p : p = r.v.payload
  OBVIOUS
<1>4. p \in Offsets(in) /\ Rest(f, in, p).ok /\ Rest(f, in, p).v = Elements(d)
  BY <1>2, <1>3, RootEntries
<1>5. PICK X : X = Elements(d)
  OBVIOUS
<1>6. v = find(f, in, p, key)
  BY <1>1, <1>3
<1>7. FirstOf(f, in, X, key, v)
  BY <1>2, <1>4, <1>5, <1>6, FindShown
<1>8. PICK n : IsSeq(X, n)
  BY <1>4, <1>5, RestIsSeq
<1>9. DOMAIN X \subseteq Int
  BY <1>8 DEF IsSeq
<1> DEFINE hits == {k \in DOMAIN X : X[k][1] = key}
<1>10. CASE v = Nothing /\ \A k \in DOMAIN X : X[k][1] # key
  <2>1. hits = {}
    BY <1>10
  <2> QED
    BY <1>5, <1>10, <2>1 DEF FirstNamed
<1>11. ASSUME v # Nothing, NEW k \in DOMAIN X, X[k][1] = key,
              \A j \in DOMAIN X : X[j][1] = key => k <= j,
              materialise(f, in, v).v = X[k][2]
       PROVE  FirstNamed(X, key, v)
  <2>1. k \in hits /\ hits # {} /\ (\A j \in hits : k <= j) /\ hits \subseteq Int
    BY <1>9, <1>11
  <2>2. materialise(format, bytes, v).v = X[k][2]
    BY <1>1, <1>11
  <2>3. FirstNamed(X, key, v) <=> (v # Nothing /\ materialise(format, bytes, v).v = X[Min(hits)][2])
    BY <2>1, Zenon DEF FirstNamed
  <2> HIDE DEF hits
  <2>4. Min(hits) = k
    <3>1. Min(hits) \in hits /\ \A j \in hits : Min(hits) <= j
      BY <2>1 DEF Min
    <3> QED
      BY <2>1, <3>1
  <2> QED
    BY <1>11, <2>2, <2>3, <2>4
<1> QED
  BY <1>5, <1>7, <1>10, <1>11 DEF FirstOf

LEMMA ListsShown == LoopShows => ListAgrees
<1> SUFFICES ASSUME LoopShows, NEW d \in Decoded, NEW r \in {Root}, Is(d, "List"),
                    NEW list \in {as_list(format, bytes, r.v)}
             PROVE  /\ list.ok /\ list.v.size = Len(Elements(d))
                    /\ \A i \in DOMAIN Elements(d) :
                         \A v \in {list_at(format, bytes, list, i - 1)} :
                           v.ok /\ materialise(format, bytes, v.v).v = Elements(d)[i]
  BY DEF ListAgrees
<1>1. PICK f \in Formats, in \in Seq(Byte) : f = format /\ in = bytes
  BY DEF LoopShows, LoopInv
<1>2. d = decode(f, in, 0) /\ r = make_view_root(f, in) /\ list = as_list(f, in, r.v)
  BY <1>1 DEF Decoded, Root
<1>3. d.ok /\ d.v[2][1] = "List"
  BY DEF Is
<1>4. r.ok /\ r.v.tag = d.v[2][1]
  BY <1>2, <1>3, RootShown
<1>5. IsView(in, r.v)
  BY <1>2, <1>4, RootIsView
<1>6. PICK w : w = r.v /\ w.tag = "List" /\ w.payload \in Offsets(in)
  BY <1>3, <1>4, <1>5 DEF IsView
<1>7. PICK x : x = decode_payloads(f, in)["List"][w.payload]
  OBVIOUS
<1>8. x.ok /\ x.v = d.v[2]
  <2>1. r.v.tag # "End"
    BY <1>6
  <2>2. PICK y : y = decode_payloads(f, in)[r.v.tag][r.v.payload]
    OBVIOUS
  <2>3. y.ok /\ y.v = d.v[2]
    BY <1>2, <1>3, <2>1, <2>2, RootShown
  <2> QED
    BY <1>6, <1>7, <2>2, <2>3
<1>9. PICK X : X = x.v[2]
  OBVIOUS
<1>10. Elements(d) = X
  BY <1>8, <1>9 DEF Elements
<1>11. list.ok /\ IsSeq(X, list.v.size)
  BY <1>2, <1>6, <1>7, <1>8, <1>9, ListShown
<1>12. \A i \in 0 .. list.v.size - 1 :
         LET e == list_at(f, in, list, i)
         IN  e.ok /\ materialise(f, in, e.v).v = X[i + 1]
  BY <1>2, <1>6, <1>7, <1>8, <1>9, ListShown
<1>13. Len(X) = list.v.size /\ DOMAIN X = 1 .. list.v.size /\ list.v.size \in Nat
  BY <1>11 DEF IsSeq
<1>14. ASSUME NEW i \in DOMAIN X, NEW v \in {list_at(format, bytes, list, i - 1)}
       PROVE  v.ok /\ materialise(format, bytes, v.v).v = X[i]
  <2>1. i - 1 \in 0 .. list.v.size - 1 /\ (i - 1) + 1 = i
    BY <1>13
  <2>2. v = list_at(f, in, list, i - 1)
    BY <1>1
  <2> QED
    BY <1>1, <1>12, <2>1, <2>2
<1> QED
  BY <1>10, <1>11, <1>13, <1>14

LEMMA ScalarsShown == LoopShows => ScalarsAgree
<1> SUFFICES ASSUME LoopShows, NEW v \in Views, NEW x \in {materialise(format, bytes, v)}
             PROVE  /\ \A kind \in DOMAIN Size :
                         \A n \in {as_number(format, bytes, v, kind)} :
                           /\ n.ok <=> v.tag = kind /\ x.ok
                           /\ n.ok => x.v = <<kind, n.v>>
                    /\ \A s \in {as_string(format, bytes, v)} :
                         /\ s.ok <=> v.tag = "String" /\ x.ok /\ is_pure_ascii(x.v[2])
                         /\ s.ok => x.v = <<"String", s.v>>
  BY DEF ScalarsAgree
<1>1. PICK f \in Formats, in \in Seq(Byte) : f = format /\ in = bytes
  BY DEF LoopShows, LoopInv
<1>2. x = materialise(f, in, v)
  BY <1>1
<1>3. IsView(in, v)
  <2>1. CASE Root.ok /\ v = Root.v
    BY <1>1, <2>1, RootIsView DEF Root
  <2>2. CASE ~ it.done /\ v = it.child
    <3>1. it.child.tag \in Kinds
      BY <2>2 DEF LoopShows
    <3>2. it.child.payload \in Offsets(bytes)
      BY <2>2 DEF LoopShows, LoopInv, Offsets
    <3> QED
      BY <1>1, <2>2, <3>1, <3>2 DEF IsView
  <2> QED
    BY <2>1, <2>2 DEF Views
<1>4. ASSUME NEW kind \in DOMAIN Size, NEW n \in {as_number(format, bytes, v, kind)}
      PROVE  /\ n.ok <=> v.tag = kind /\ x.ok
             /\ n.ok => x.v = <<kind, n.v>>
  <2>1. n = as_number(f, in, v, kind)
    BY <1>1
  <2> QED
    BY <1>2, <1>3, <2>1, NumbersAgree
<1>5. ASSUME NEW s \in {as_string(format, bytes, v)}
      PROVE  /\ s.ok <=> v.tag = "String" /\ x.ok /\ is_pure_ascii(x.v[2])
             /\ s.ok => x.v = <<"String", s.v>>
  <2>1. s = as_string(f, in, v)
    BY <1>1
  <2> QED
    BY <1>2, <1>3, <2>1, StringsAgree
<1> QED
  BY <1>4, <1>5

\* Over every buffer that holds an encoded document, whole or with one byte
\* changed, a View shows what decode returns: the loop, find, at and the scalar
\* accessors.
THEOREM ViewsShowWhatIsRead == BufferSpec => []ShowsWhatDecodeReads
<1>1. LoopShows /\ BufferTypeOK => ShowsWhatDecodeReads
  BY IterationShown, FindsShown, ListsShown, ScalarsShown DEF ShowsWhatDecodeReads
<1> QED
  BY <1>1, LoopKeepsShowing, ChildrenInBuffer, PTL

=============================================================================
