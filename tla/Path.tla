-------------------------------- MODULE Path --------------------------------
(***************************************************************************)
(* get_at(root, text): parse_path, one action per round of its loop, and   *)
(* then the walk from the root to the leaf, one action per segment.  Both  *)
(* overloads: a root that is a Value, and one that is a Compound.          *)
(*                                                                         *)
(* A text is a sequence of characters.  Values are those of NbtWire, with  *)
(* names that are sequences of characters too.  The pointer into the tree  *)
(* is the sequence of child numbers that leads to it.                      *)
(*                                                                         *)
(* A definition whose name extends that of the next one is that one with a *)
(* slip in it, and is not used.                                            *)
(***************************************************************************)
EXTENDS Naturals, Sequences, FiniteSetsExt, SequencesExt

CONSTANTS
  Texts,        \* the texts callers pass
  Roots,        \* the trees
  Nodes,        \* the values in them, and they themselves
  Letters,      \* the unquoted key characters that are not digits
  kMaxIndex     \* the largest std::size_t

Digits == <<"0", "1", "2", "3", "4", "5", "6", "7", "8", "9">>

is_digit(ch) == Contains(Digits, ch)

is_unquoted_id_char(ch) == ch \in Letters \/ is_digit(ch)

Key(k) == [kind |-> "Key", of |-> k]
Index(k) == [kind |-> "Index", of |-> k]

\* The entries of a Compound are <<name, value>>.
Child(v, k) == IF v[1] = "Compound" THEN v[2][k][2] ELSE v[2][k]

VARIABLES
  text,         \* the path's text
  i,            \* characters of it that are parsed
  segs,         \* the segments found
  phase,        \* "parse", "walk", "found" or "error"
  root,         \* the tree walked
  overload,     \* "Value" or "Compound": what the root was passed as
  step,         \* segments walked
  cur,          \* where the walk is
  error         \* <<code, position in the text or segment number>>

pathVars == <<text, i, segs, phase, root, overload, step, cur, error>>

ASSUME PathAssumption ==
  /\ kMaxIndex \in Nat
  /\ \A t \in Texts : Len(t) \in Nat
  /\ Roots \subseteq Nodes
  /\ \A v \in Nodes :
       v[1] \in {"List", "Compound"} =>
         /\ Len(v[2]) \in Nat /\ DOMAIN v[2] = 1 .. Len(v[2])
         /\ \A k \in DOMAIN v[2] : Child(v, k) \in Nodes

n == Len(text)
At(k) == text[k + 1]

NoTree == <<"End", 0>>

\* What get_at is called on is left open until the text has been parsed.
PathInit ==
  /\ text \in Texts /\ i = 0 /\ segs = <<>>
  /\ phase = "parse"
  /\ root = NoTree /\ overload = "Value"
  /\ step = 0 /\ cur = <<>> /\ error = <<>>

Fail(code, where) ==
  /\ phase' = "error" /\ error' = <<code, where>>
  /\ UNCHANGED <<text, i, segs, root, overload, step, cur>>

-----------------------------------------------------------------------------
(* parse_path.                                                             *)

\* A '.' is skipped before every segment but the first.
SegmentStart == IF segs # <<>> /\ At(i) = "." THEN i + 1 ELSE i

\* Where the run of characters in Of that begins at k ends.
RunEnd(k, Of(_)) ==
  Min({m \in k .. n : m = n \/ ~ Of(At(m))})

AddSegment(seg, next) ==
  /\ segs' = Append(segs, seg) /\ i' = next
  /\ UNCHANGED <<text, phase, root, overload, step, cur, error>>

\* The character is a '\' that takes the next one as it is.
Escapes(m) == At(m) = "\\" /\ m + 1 < n

quoted_keyRaw(k, quote) ==
  LET read[m \in k .. n] ==
        IF m = n THEN [ok |-> FALSE, key |-> <<>>, end |-> n]
        ELSE IF At(m) = quote THEN [ok |-> TRUE, key |-> <<>>, end |-> m + 1]
        ELSE [read[m + 1] EXCEPT !.key = <<At(m)>> \o @]
  IN  read[k]
\* The characters up to the closing quote.
quoted_key(k, quote) ==
  LET read[m \in k .. n] ==
        IF m = n THEN [ok |-> FALSE, key |-> <<>>, end |-> n]
        ELSE IF At(m) = quote THEN [ok |-> TRUE, key |-> <<>>, end |-> m + 1]
        ELSE IF Escapes(m) THEN [read[m + 2] EXCEPT !.key = <<At(m + 1)>> \o @]
        ELSE [read[m + 1] EXCEPT !.key = <<At(m)>> \o @]
  IN  read[k]

\* std::from_chars over the digits from k to m - 1.
from_chars(k, m) ==
  LET value[d \in k .. m] ==
        IF d = k THEN 0
        ELSE value[d - 1] * 10
               + (CHOOSE x \in 1 .. 10 : Digits[x] = At(d - 1)) - 1
  IN  value[m]

Parsing == phase = "parse" /\ i < n

\* The characters run out after a '.' or a '['.
ParseCutShort ==
  /\ Parsing
  /\ \/ SegmentStart = n
     \/ SegmentStart + 1 = n /\ At(SegmentStart) = "["
  /\ Fail("SnbtSyntax", n)

Bracket == Parsing /\ SegmentStart + 1 < n /\ At(SegmentStart) = "["
Quotes == {"\"", "'"}

ParseQuotedKey ==
  /\ Bracket
  /\ LET s == SegmentStart + 1 IN
     /\ At(s) \in Quotes
     /\ \E q \in {quoted_key(s + 1, At(s))} :
          IF q.ok /\ q.end < n /\ text[q.end + 1] = "]"
          THEN AddSegment(Key(q.key), q.end + 1)
          ELSE Fail("SnbtSyntax", q.end)

ParseIndex ==
  /\ Bracket
  /\ LET s == SegmentStart + 1
         e == RunEnd(s, is_digit)
     IN  /\ At(s) \notin Quotes
         /\ IF e = s THEN Fail("SnbtSyntax", s)
            ELSE IF from_chars(s, e) > kMaxIndex
              THEN Fail("SnbtNumberOutOfRange", s)
            ELSE IF e < n /\ text[e + 1] = "]"
              THEN AddSegment(Index(from_chars(s, e)), e + 1)
            ELSE Fail("SnbtSyntax", e)

ParseKey ==
  /\ Parsing /\ SegmentStart < n
  /\ LET s == SegmentStart
         e == RunEnd(s, is_unquoted_id_char)
     IN  /\ At(s) # "["
         /\ IF e = s THEN Fail("SnbtSyntax", s)
            ELSE AddSegment(Key(SubSeq(text, s + 1, e)), e)

-----------------------------------------------------------------------------
(* The walk.                                                               *)

\* The values on the way down from v, v being number 0.
Along(v, at) ==
  LET node[m \in 0 .. Len(at)] ==
        IF m = 0 THEN v ELSE Child(node[m - 1], at[m])
  IN  node

NodeAt(at) == Along(root, at)[Len(at)]

Cur == NodeAt(cur)

findLast(entries, key) ==
  LET hits == {k \in DOMAIN entries : entries[k][1] = key}
  IN  IF hits = {} THEN 0 ELSE Max(hits)
\* The first entry of that name, or 0.
find(entries, key) ==
  LET hits == {k \in DOMAIN entries : entries[k][1] = key}
  IN  IF hits = {} THEN 0 ELSE Min(hits)

Go(k) ==
  /\ cur' = Append(cur, k) /\ step' = step + 1
  /\ UNCHANGED <<text, i, segs, phase, root, overload, error>>

Enter(r, o) ==
  /\ phase' = "walk" /\ root' = r /\ overload' = o
  /\ UNCHANGED <<text, i, segs, step, cur, error>>

Finished == phase = "parse" /\ i = n

GetAtValue == Finished /\ \E r \in Roots : Enter(r, "Value")

\* A Compound has to be entered by a key: it is no Value to return.
GetAtCompound ==
  /\ Finished
  /\ IF segs = <<>> \/ segs[1].kind # "Key" THEN Fail("UnexpectedRootType", 0)
     ELSE \E r \in {v \in Roots : v[1] = "Compound"} : Enter(r, "Compound")

Walking(kind) == phase = "walk" /\ step < Len(segs) /\ segs[step + 1].kind = kind

WalkKey ==
  /\ Walking("Key")
  /\ IF Cur[1] # "Compound" THEN Fail("UnexpectedRootType", step)
     ELSE LET k == find(Cur[2], segs[step + 1].of) IN
          IF k = 0 THEN Fail("UnknownTagId", step) ELSE Go(k)

WalkIndexUnchecked ==
  /\ Walking("Index")
  /\ IF Cur[1] # "List" THEN Fail("UnexpectedRootType", step)
     ELSE IF segs[step + 1].of > Len(Cur[2]) THEN Fail("LengthOverflow", step)
     ELSE Go(segs[step + 1].of + 1)
\* Arrays have no elements to point to.
WalkIndex ==
  /\ Walking("Index")
  /\ IF Cur[1] # "List" THEN Fail("UnexpectedRootType", step)
     ELSE IF segs[step + 1].of >= Len(Cur[2]) THEN Fail("LengthOverflow", step)
     ELSE Go(segs[step + 1].of + 1)

Arrive ==
  /\ phase = "walk" /\ step = Len(segs)
  /\ phase' = "found"
  /\ UNCHANGED <<text, i, segs, root, overload, step, cur, error>>

\* get_byte_at ... get_string_at: the leaf, or an error.
get_arm_at(kind) ==
  IF phase = "error" THEN error
  ELSE IF Cur[1] = kind THEN Cur
  ELSE <<"UnexpectedRootType", 0>>

PathNext ==
  \/ ParseCutShort \/ ParseQuotedKey \/ ParseIndex \/ ParseKey
  \/ GetAtValue \/ GetAtCompound \/ WalkKey \/ WalkIndex \/ Arrive

PathSpec == PathInit /\ [][PathNext]_pathVars

-----------------------------------------------------------------------------
(* Properties.                                                             *)

\* The parser stays inside its text and the walk inside its tree, and an error
\* says where: a place in the text or a segment.
PathTypeOK ==
  /\ i \in 0 .. n /\ step \in 0 .. Len(segs)
  /\ phase \in {"parse", "walk", "found", "error"}
  /\ \A k \in DOMAIN segs : segs[k].kind = "Index" => segs[k].of \in 0 .. kMaxIndex
  /\ Len(cur) = step
  /\ \A k \in DOMAIN cur : cur[k] \in DOMAIN Along(root, cur)[k - 1][2]
  /\ phase = "error" <=> error # <<>>
  /\ phase = "error" => error[2] \in 0 .. Max({n, Len(segs)})

Children(v) == IF v[1] \in {"List", "Compound"} THEN DOMAIN v[2] ELSE {}

\* The children that a segment is the segment of: every child of a list by its
\* number, of a compound by its name, if no child before it has that name.
Named(v, seg) ==
  {k \in Children(v) :
     \/ v[1] = "List" /\ seg = Index(k - 1)
     \/ /\ v[1] = "Compound" /\ seg = Key(v[2][k][1])
        /\ \A m \in 1 .. k - 1 : v[2][m][1] # v[2][k][1]}

\* The segments lead to this node.
Leads(at) ==
  /\ at \in [DOMAIN segs -> Nat]
  /\ \A m \in DOMAIN segs : at[m] \in Named(Along(root, at)[m - 1], segs[m])

\* All the nodes of the tree that are as deep as there are segments.
Places ==
  LET deep[d \in 0 .. Len(segs)] ==
        IF d = 0 THEN {<<>>}
        ELSE UNION {{Append(at, k) : k \in Children(NodeAt(at))} :
                      at \in deep[d - 1]}
  IN  deep[Len(segs)]

\* get_at finds the one node that the segments lead to, through either
\* overload, and fails only where they lead to none.
FindsTheNode ==
  /\ PathTypeOK
  /\ phase = "found" =>
       Leads(cur) /\ \A at \in Places : Leads(at) => at = cur
  /\ phase = "error" /\ root # NoTree => \A at \in Places : ~ Leads(at)

-----------------------------------------------------------------------------
(* What a doc or a comment says and the code does not do: not invariants.  *)

\* A key "must match the unquoted-identifier character class:
\* [A-Za-z0-9_+.-]" (path.hpp:22-23): one that does is found by its name.
PlainKeysAreFound ==
  phase = "error" /\ root[1] = "Compound" =>
    \A k \in DOMAIN root[2] :
      text = root[2][k][1] /\ text # <<>> =>
        \E m \in DOMAIN text : ~ is_unquoted_id_char(text[m]) /\ text[m] # "."

\* "[N]  non-negative list / array index" (path.hpp:26).
ArraysAreIndexed ==
  phase = "error" /\ root # NoTree
    /\ segs[step + 1].kind = "Index"
    /\ Cur[1] \in {"ByteArray", "IntArray", "LongArray"} =>
  segs[step + 1].of >= Len(Cur[2])

\* The typed accessors give "UnknownTagId (missing) or UnexpectedRootType
\* (wrong arm)" when the walk does not resolve (path.hpp:64-66).
MissIsMissing ==
  phase = "error" /\ root # NoTree =>
    get_arm_at("Byte")[1] \in {"UnknownTagId", "UnexpectedRootType"}

=============================================================================
