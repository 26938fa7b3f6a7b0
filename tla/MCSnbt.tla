------------------------------- MODULE MCSnbt -------------------------------
(***************************************************************************)
(* A tree of every kind and the names and strings that the writer has to   *)
(* quote; texts with each of the parser's cases that no writer makes.      *)
(***************************************************************************)
EXTENDS Snbt

Num(k, suffix) == Lex(<<"int", k>>, suffix)
Word(w) == Lex(<<"word", w>>, "")

name == <<Word("name")>>
five == <<Num(5, "")>>
dots == <<Lex(<<"bad", ".">>, "")>>
spaced == <<Word("name"), Ch(" "), Word("true")>>
quotes == <<Ch("\""), Ch("\\"), Ch("'")>>
braces == <<Ch("}"), Word("name"), Ch("]")>>

\* What is printed of the float 0x15AE43FD, and a longer text that is read as it.
halfway == <<"dec", "7.038531e-26">>
longer == <<"dec", "7.0385307e-26">>

\* 2^63, a double of 1e300 and the floats nearest to these and to 2^24 + 1.
MCPrints ==
  [Double |-> <<"more", 1>> :> <<"int", 1>>
                @@ <<"int", Wide>> :> <<"big", "9223372036854775808">>
                @@ <<"dec", "1e300">> :> <<"dec", "1e+300">>,
   Float |-> <<"more", 1>> :> <<"int", 1>>
               @@ <<"int", 16777217>> :> <<"int", 16777216>>
               @@ <<"int", Wide>> :> <<"dec", "9.223372e+18">>
               @@ <<"big", "9223372036854775808">> :> <<"dec", "9.223372e+18">>
               @@ <<"dec", "1e300">> :> Infinity
               @@ <<"dec", "1e+300">> :> Infinity
               @@ longer :> halfway
               @@ halfway :> <<"dec", "7.0385313e-26">>]

Text(s) == <<"String", s>>
List(s) == <<"List", s>>
Compound(s) == <<"Compound", s>>

MCTrees ==
  { <<"Byte", -128>>, <<"Int", 5>>, <<"Long", Wide>>, <<"Long", 5>>,
    <<"Float", <<"int", 1>> >>, <<"Double", <<"dec", "1.5">> >>,
    Text(<<>>), Text(name), Text(quotes), Text(spaced),
    <<"ByteArray", <<-1, 127>> >>, <<"IntArray", <<300>> >>,
    <<"LongArray", <<Wide, 0>> >>, <<"LongArray", <<>> >>,
    List(<<>>), List(<<Text(<<Word("true")>>), Text(five)>>),
    List(<<List(<<>>), List(<<<<"Byte", 1>>, <<"Byte", 0>> >>)>>),
    List(<<Compound(<<>>), Compound(<<<<name, Text(braces)>> >>)>>),
    Compound(<<>>),
    Compound(<< <<name, <<"Short", -1>> >>, <<<<>>, List(<<>>)>>, <<name, <<"Int", 5>> >> >>),
    Compound(<< <<five, <<"IntArray", <<0>> >> >>, <<quotes, <<"Byte", 0>> >> >>),
    <<"Double", Infinity>>, <<"Float", <<"word", "nan">> >>,
    Compound(<< <<name, <<"End", 0>> >> >>), List(<< <<"Float", Infinity>> >>),
    List(<< <<"Float", <<"dec", "1.5">> >>, <<"Float", halfway>> >>),
    <<"Double", halfway>>,
    Compound(<< <<dots, Compound(<< <<spaced, <<"Int", 0>> >> >>)>> >>) }

Default == [pretty |-> FALSE, quote_all_keys |-> FALSE,
            sort_keys |-> FALSE, array_suffix_caps |-> TRUE]

MCOptions == {Default, [Default EXCEPT !.pretty = TRUE],
              [Default EXCEPT !.quote_all_keys = TRUE, !.sort_keys = TRUE],
              [Default EXCEPT !.array_suffix_caps = FALSE]}

Array(tag, items) == <<Ch("["), tag, Ch(";")>> \o items \o <<Ch("]")>>
Tag(kind) == ArrayTag(kind, TRUE)
Listed(items) == <<Ch("[")>> \o items \o <<Ch("]")>>
Entry(key, item) == <<Ch("{")>> \o key \o <<Ch(":")>> \o item \o <<Ch("}")>>

\* The lexemes: each body with suffixes that do and do not fit it.
Lexemes ==
  {Lex(body, suffix) :
     body \in {<<"int", 300>>, <<"int", -70000>>, <<"int", Wide>>, <<"int", 16777217>>,
               <<"more", 1>>, <<"big", "9223372036854775808">>, <<"dec", "1.5">>,
               <<"dec", "1e300">>, halfway, longer,
               <<"plus", "+5">>, <<"bad", "e">>, <<"word", "-">>},
     suffix \in {"", "b", "S", "L", "F", "d"}}

MCSnippets ==
  {<<s>> : s \in Lexemes}
  \cup {Array(Tag(kind), <<s>>) : kind \in DOMAIN Elem, s \in Lexemes}
  \cup {Listed(<<s, Ch(","), Num(1, "b")>>) : s \in Lexemes}
  \cup {Entry(<<s>>, <<s>>) : s \in Lexemes}
  \cup { <<>>, <<Ch(" ")>>, <<Word("true")>>, <<Ch(" "), Word("false"), Ch(" ")>>,
         <<Num(1, ""), Ch(" "), Num(1, "")>>, <<Ch(":")>>,
         <<Ch("'"), Ch("\""), Ch("\\"), Ch("'"), Ch("'")>>,
         <<Ch("'"), Ch("\\"), Word("name"), Ch("'")>>, <<Ch("'"), Ch("\\")>>,
         Entry(<<Ch("'"), Ch(" "), Ch("'")>>, <<Num(1, "")>>),
         Entry(<<Ch("\""), Ch("\"")>>, <<Word("false")>>),
         Array(Tag("IntArray"), <<Num(1, ""), Ch(","), Num(2, "b"), Ch(",")>>),
         Array(Tag("ByteArray"), <<Ch(" ")>>), Array(Word("name"), <<Num(1, "")>>),
         Array(Tag("LongArray"), <<Num(1, ""), Ch(" "), Ch(","), Ch(" "), Num(2, "L")>>),
         Listed(<<Tag("IntArray"), Ch(" "), Ch(";")>>),
         Listed(<<Num(1, ""), Ch(",")>>),
         Listed(Listed(<<>>) \o <<Ch(",")>> \o Listed(<<Num(1, "")>>)) }

MCDamage == {"{", "}", "[", "]", ",", ":", "\"", "\\", " "}

=============================================================================
