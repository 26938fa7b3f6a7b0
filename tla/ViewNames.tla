------------------------------ MODULE ViewNames ------------------------------
(***************************************************************************)
(* View objects as C++ objects: where name_view_, which name_utf8 returns, *)
(* points when Views are decoded, copied, moved and destroyed.  The        *)
(* implicit copy and move copy name_view_ as it is, while name_owned_ is a *)
(* std::string: a short one lives inside the object, a long one in a heap  *)
(* block that a move hands over and a copy duplicates.                     *)
(*                                                                         *)
(* An assignment is a Destroy of the target and a Copy or Move to it.      *)
(* A definition whose name extends that of the next one is that one with a *)
(* slip in it, and is not used.                                            *)
(***************************************************************************)
EXTENDS Naturals

CONSTANTS
  Objects,      \* the places where a View can be
  Blocks,       \* heap blocks
  Plain,        \* root names view straight into the source buffer
  Short,        \* other names that std::string stores inside itself
  Long          \* other names that it stores in a block

Names == Plain \cup Short \cup Long

Free == "free"

ASSUME NamesAreDistinct ==
  /\ Plain \cap Short = {} /\ Plain \cap Long = {} /\ Short \cap Long = {}
  /\ Free \notin Names

VARIABLES
  owned,        \* per object: what name_owned_ holds, if there is a View
  ptr,          \* per object: where name_view_ points
  root,         \* per object: the name of the root it is a view of
  moves,        \* the objects that got their View from decode by moves only
  heap          \* per block: the name stored there, if it is allocated

vars == <<owned, ptr, root, moves, heap>>

Dead == [at |-> "dead"]
Empty == [at |-> "empty"]
Inside(n) == [at |-> "inside", name |-> n]
InBlock(b) == [at |-> "block", block |-> b]

ToBuffer == [to |-> "buffer"]
ToInside(o) == [to |-> "inside", object |-> o]
ToBlock(b) == [to |-> "block", block |-> b]

Alive(o) == owned[o].at # "dead"
FreeBlocks == {b \in Blocks : heap[b] = Free}

Init ==
  /\ owned = [o \in Objects |-> Dead]
  /\ ptr = [o \in Objects |-> ToBuffer]
  /\ root = [o \in Objects |-> Free]
  /\ moves = {}
  /\ heap = [b \in Blocks |-> Free]

Becomes(o, s, p, n) ==
  /\ owned' = [owned EXCEPT ![o] = s]
  /\ ptr' = [ptr EXCEPT ![o] = p]
  /\ root' = [root EXCEPT ![o] = n]
  /\ moves' = moves \cup {o}

-----------------------------------------------------------------------------

\* View::decode: make_view_root fills its local v and returns it, which moves
\* v into the caller's expected and destroys it.  `local` is where v was.
DecodePlain(o, n) ==
  /\ ~ Alive(o) /\ n \in Plain
  /\ Becomes(o, Empty, ToBuffer, n)
  /\ UNCHANGED heap

DecodeShort(o, local, n) ==
  /\ ~ Alive(o) /\ ~ Alive(local) /\ o # local /\ n \in Short
  /\ Becomes(o, Inside(n), ToInside(local), n)
  /\ UNCHANGED heap

DecodeLong(o, b, n) ==
  /\ ~ Alive(o) /\ b \in FreeBlocks /\ n \in Long
  /\ Becomes(o, InBlock(b), ToBlock(b), n)
  /\ heap' = [heap EXCEPT ![b] = n]

\* The copy has a string of its own and the source's pointer.
Copy(from, to) ==
  /\ Alive(from) /\ ~ Alive(to)
  /\ \E s \in IF owned[from].at = "block" THEN {InBlock(b) : b \in FreeBlocks}
              ELSE {owned[from]} :
       /\ owned' = [owned EXCEPT ![to] = s]
       /\ heap' = [b \in Blocks |->
                     IF s.at = "block" /\ s = InBlock(b)
                     THEN heap[owned[from].block] ELSE heap[b]]
  /\ ptr' = [ptr EXCEPT ![to] = ptr[from]]
  /\ root' = [root EXCEPT ![to] = root[from]]
  /\ UNCHANGED moves

MoveKeeps(from, to) ==
  /\ Alive(from) /\ ~ Alive(to)
  /\ owned' = [owned EXCEPT ![to] = owned[from]]
  /\ ptr' = [ptr EXCEPT ![to] = ptr[from]]
  /\ root' = [root EXCEPT ![to] = root[from]]
  /\ moves' = IF from \in moves THEN (moves \ {from}) \cup {to} ELSE moves
  /\ UNCHANGED heap
\* The moved-from string is empty.
Move(from, to) ==
  /\ Alive(from) /\ ~ Alive(to)
  /\ owned' = [owned EXCEPT ![to] = owned[from], ![from] = Empty]
  /\ ptr' = [ptr EXCEPT ![to] = ptr[from]]
  /\ root' = [root EXCEPT ![to] = root[from]]
  /\ moves' = IF from \in moves THEN (moves \ {from}) \cup {to} ELSE moves
  /\ UNCHANGED heap

Destroy(o) ==
  /\ Alive(o)
  /\ owned' = [owned EXCEPT ![o] = Dead]
  /\ ptr' = [ptr EXCEPT ![o] = ToBuffer]
  /\ root' = [root EXCEPT ![o] = Free]
  /\ moves' = moves \ {o}
  /\ heap' = [b \in Blocks |->
                IF owned[o].at = "block" /\ owned[o] = InBlock(b) THEN Free
                ELSE heap[b]]

Next ==
  \/ \E o \in Objects, n \in Plain : DecodePlain(o, n)
  \/ \E o, l \in Objects, n \in Short : DecodeShort(o, l, n)
  \/ \E o \in Objects, b \in Blocks, n \in Long : DecodeLong(o, b, n)
  \/ \E from, to \in Objects : Copy(from, to)
  \/ \E from, to \in Objects : Move(from, to)
  \/ \E o \in Objects : Destroy(o)

Spec == Init /\ [][Next]_vars

-----------------------------------------------------------------------------
(* Properties.                                                             *)

Strings == {Dead, Empty} \cup {Inside(n) : n \in Short}
             \cup {InBlock(b) : b \in Blocks}
Targets == {ToBuffer} \cup {ToInside(o) : o \in Objects}
             \cup {ToBlock(b) : b \in Blocks}

TypeOK ==
  /\ owned \in [Objects -> Strings]
  /\ ptr \in [Objects -> Targets]
  /\ root \in [Objects -> Names \cup {Free}]
  /\ moves \subseteq Objects
  /\ heap \in [Blocks -> Long \cup {Free}]

\* What name_utf8 shows; reading freed or foreign memory shows anything.
Shows(o, n) ==
  \/ ptr[o].to = "buffer" /\ n \in Plain
  \/ ptr[o].to = "block" /\ heap[ptr[o].block] = n
  \/ ptr[o].to = "inside" /\ owned[ptr[o].object] = Inside(n)

\* A view that was only ever moved keeps showing its root's name, if that name
\* is in the source buffer or in a block, whatever happens to other views.
MovedNamesSurvive ==
  \A o \in moves : root[o] \notin Short => Shows(o, root[o])

\* "The type holds no invariants we need to defend" (view.hpp:61-63): a view
\* that has not been moved from shows its root's name.
NamesAreRight ==
  \A o \in moves : Shows(o, root[o])

=============================================================================
