------------------------------- MODULE MCPath -------------------------------
(***************************************************************************)
(* Trees with repeated, empty, quoted and dotted keys, and texts beyond    *)
(* every short one.                                                        *)
(***************************************************************************)
EXTENDS Path

MCLetters == {"a", "b"}

b == <<"b">>
a == <<"a">>
nine == <<"9">>
dotted == <<"a", ".", "a">>
quote == <<"\"">>

Leaf == <<"Byte", 5>>
Items == <<"List", << <<"Compound", << <<a, Leaf>> >> >>,
                      <<"Compound", << <<nine, Leaf>> >> >> >> >>
Numbers == <<"IntArray", <<7, 8>> >>
Tree ==
  <<"Compound", << <<a, Items>>, <<nine, Leaf>>, <<a, Leaf>>, <<<<>>, Leaf>>,
                   <<dotted, Leaf>>, <<quote, Leaf>> >> >>
Rows == <<"List", [k \in 1 .. 10 |-> IF k = 10 THEN Numbers ELSE Items]>>

MCNodes == {Tree, Rows, Numbers, Leaf, Items} \cup ToSet(Items[2])
MCRoots == {Tree, Rows, Numbers, Leaf}

\* Dots, an apostrophe, escapes and indices at depth.
MCLongTexts ==
  { a \o <<"[", "0", "]", ".", "a">>, a \o <<"[", "1", "]">> \o nine,
    a \o <<"[", "2", "]", ".", "9">>, a \o <<"[", "1", "]", ".", "[", "\"", "9">>,
    <<"[", "9", "]", "[", "1", "]">>, <<"[", "9", "]", "[", "2", "]">>,
    <<"[", "8", "]", "[", "0", "]">> \o a, <<"[", "9", "9", "9", "]">>,
    <<"[", "'", "a", ".", "a", "'", "]">>, <<"[", "'", "\"", "'", "]">>,
    <<"[", "\"", "\\", "\"", "\"", "]">>, <<"[", "\"", "\\", "9", "\"", "]">>,
    <<"[", "\"", "a", "'", "]">>, a \o <<".", "[", "0", "]">> }

=============================================================================
