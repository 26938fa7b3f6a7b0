------------------------------ MODULE MCValue ------------------------------
(***************************************************************************)
(* Three things done with a Value: a Compound is filled and searched, a    *)
(* path is walked on a tree, and a tree is written as SNBT and parsed.  A  *)
(* behaviour does one of them; the other two machines rest in a state in   *)
(* which they have nothing left to do.                                     *)
(*                                                                         *)
(* Compounds: three names, two values of two arms, vectors that repeat a   *)
(* name.  MCPath and MCSnbt have the rest.                                 *)
(***************************************************************************)
EXTENDS Compound, MCPath, MCSnbt, TLC

CONSTANTS x, y, z, h1, h2, MaxLength

MCNames == {x, y, z}
MCKinds == {"Byte", "String"}
MCValues == {<<"Byte", 1>>, <<"String", "hi">>}
MCKindOf(v) == v[1]
MCHolders == {h1, h2}

One == <<"Byte", 1>>
Hi == <<"String", "hi">>

MCCompounds ==
  { <<>>, << <<x, One>> >>, << <<x, One>>, <<y, Hi>>, <<x, Hi>> >>,
    << <<y, Hi>>, <<y, One>> >> }

Alphabet == {"a", "9", ".", "[", "]", "\"", "\\"}

MCTexts == SeqOf(Alphabet, MaxLength) \cup MCLongTexts

-----------------------------------------------------------------------------
(* The paths of up to MaxLength characters, as the grammar in path.hpp     *)
(* makes them (with no dot in an unquoted key), from the segments up:      *)
(* <<text, segments>> of exactly m characters.                             *)

Unquoted(m) == {<<t, Key(t)>> : t \in [1 .. m -> {"a", "9"}]}

\* A character of a quoted key, escaped if need be or for no need.
Quoted1 ==
  {<<<<ch>>, ch>> : ch \in Alphabet \ {"\"", "\\"}}
    \cup {<<<<"\\", ch>>, ch>> : ch \in Alphabet}

RECURSIVE QuotedKeys(_)
QuotedKeys(m) ==
  IF m = 0 THEN {<<<<>>, <<>>>>}
  ELSE {<<w[1] \o ch[1], Append(w[2], ch[2])>> :
          <<w, ch>> \in UNION {QuotedKeys(m - k)
                                 \X {q \in Quoted1 : Len(q[1]) = k} :
                               k \in 1 .. (IF m = 1 THEN 1 ELSE 2)}}

Bracketed(m) ==
  (IF m < 4 THEN {}
   ELSE {<<<<"[", "\"">> \o w[1] \o <<"\"", "]">>, Key(w[2])>> :
           w \in QuotedKeys(m - 4)})
  \cup (IF m = 3 THEN {<<<<"[", "9", "]">>, Index(9)>>} ELSE {})
  \cup (IF m = 4 THEN {<<<<"[", "9", "9", "]">>, Index(99)>>} ELSE {})

Segments(m) == Bracketed(m) \cup (IF m = 0 THEN {} ELSE Unquoted(m))

RECURSIVE Paths(_)
Paths(m) ==
  IF m = 0 THEN {<<<<>>, <<>>>>}
  ELSE {<<s[1], <<s[2]>> >> : s \in Segments(m)}
       \cup UNION {
         LET before == Paths(k)
             joined == {<<p, s>> \in before \X Segments(m - k) :
                          Last(p[1]) = "]" \/ Head(s[1]) = "["}
             dot    == {<<p, s>> \in before \X Segments(m - k - 1) : TRUE}
         IN  {<<w[1][1] \o w[2][1], Append(w[1][2], w[2][2])>> : w \in joined}
             \cup {<<Append(w[1][1], ".") \o w[2][1], Append(w[1][2], w[2][2])>> :
                     w \in dot}
         : k \in 1 .. m - 1}

Grammar == UNION {Paths(m) : m \in 0 .. MaxLength}
PathTexts == {p[1] : p \in Grammar}

-----------------------------------------------------------------------------
CompoundRests == Init /\ c = <<>> /\ room = 0

\* The empty path, found.
PathRests ==
  /\ text = <<>> /\ i = 0 /\ segs = <<>> /\ phase = "found"
  /\ root = NoTree /\ overload = "Value"
  /\ step = 0 /\ cur = <<>> /\ error = <<>>

\* The empty text, parsed.
SnbtRests ==
  /\ value = NoTree /\ opts = Default
  /\ symbols = <<>> /\ from = "elsewhere"
  /\ parsed = << parse_snbt(<<>>) >>

ValueInit ==
  \/ Init /\ PathRests /\ SnbtRests
  \/ PathInit /\ CompoundRests /\ SnbtRests
  \/ SnbtInit /\ CompoundRests /\ PathRests

ValueNext ==
  \/ PathRests /\ SnbtRests /\ Next /\ UNCHANGED pathVars /\ UNCHANGED snbtVars
  \/ PathNext /\ UNCHANGED vars /\ UNCHANGED snbtVars
  \/ SnbtNext /\ UNCHANGED vars /\ UNCHANGED pathVars

ValueSpec == ValueInit /\ [][ValueNext]_<<vars, pathVars, snbtVars>>

-----------------------------------------------------------------------------
\* parse_path accepts exactly the texts of the grammar, and finds in each the
\* segments it was made of.
ParsesTheGrammar ==
  Len(text) <= MaxLength /\ ToSet(text) \subseteq Alphabet =>
    /\ i = Len(text) => <<text, segs>> \in Grammar
    /\ phase = "error" /\ i < Len(text) => text \notin PathTexts

\* What the parser makes of any text: a text that has lost its end is not taken
\* for a smaller value, the elements of an array are the numbers in the text,
\* and the value it answers is one that is written so that it is read again.
ReadsAsWritten ==
  /\ SnbtTypeOK
  /\ CutIsRefused
  /\ ElementsAsWritten
  /\ Settles

=============================================================================
