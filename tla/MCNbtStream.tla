---------------------------- MODULE MCNbtStream ----------------------------
(***************************************************************************)
(* Small documents for NbtStream: every kind of payload, the names and     *)
(* strings MUTF-8 writes differently, roots at the depth limit (three      *)
(* here) and above it, and roots that some or all dialects refuse.         *)
(***************************************************************************)
EXTENDS NbtStream

a == <<97>>
nul == <<0>>
accent == <<195, 169>>            \* U+00E9
music == <<240, 157, 132, 158>>   \* U+1D11E
stray == <<128>>                  \* no UTF-8

Strings ==
  <<a, <<"Compound", << <<nul, <<"String", a \o accent>> >>,
                        <<music, <<"String", <<>>>> >> >> >> >>
Numbers ==
  << <<>>, <<"Compound", << <<a, <<"Byte", -2>> >>, <<a, <<"Short", 258>> >>,
                            <<a, <<"Int", -65>> >> >> >> >>
BigNumbers ==
  << <<>>, <<"Compound", << <<a, <<"Int", -2147483647>> >>,
                            <<a, <<"Long", 1000000000>> >> >> >> >>
Floats ==
  << <<>>, <<"Compound", << <<a, <<"Float", 1065353216>> >>,
                            <<a, <<"Double", -3>> >> >> >> >>
Arrays ==
  << <<>>, <<"Compound", << <<a, <<"ByteArray", <<-128, 7>> >> >>,
                            <<a, <<"IntArray", <<64>> >> >>,
                            <<a, <<"LongArray", <<-1, 300>> >> >> >> >> >>
AtLimit == << a, <<"List", << <<"List", << <<"Byte", 9>> >> >>,
                              <<"List", <<>> >> >> >> >>
PastLimit ==
  << a, <<"List", << <<"List", << <<"List", << <<"Byte", 9>> >> >> >> >> >> >> >>
NoNbt == << a, EndTag >>
Bare == << <<>>, <<"Int", 300>> >>
Mixed == << a, <<"List", << <<"Byte", 1>>, <<"Int", 1>> >> >> >>
BadText == << <<>>, <<"Compound", << <<stray, <<"Byte", 1>> >> >> >> >>

MCRoots ==
  {Strings, Numbers, BigNumbers, Floats, Arrays, AtLimit, PastLimit, NoNbt,
   Bare, Mixed, BadText}

\* A compound built in memory may hold an EndTag.
EndInside == << a, <<"Compound", << <<a, EndTag>> >> >> >>
EndRoots == {EndInside, Bare}

MCDamage == {0, 1, 9, 10, 11, 127, 128, 192, 255}

=============================================================================
