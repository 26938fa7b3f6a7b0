------------------------------- MODULE MCView -------------------------------
(***************************************************************************)
(* Views two ways: one View over a buffer, iterated and searched, and the  *)
(* names of View objects that are copied, moved and destroyed.  In a       *)
(* behaviour of the one the other rests.                                   *)
(***************************************************************************)
EXTENDS MCViewNames, NbtView

(* Small documents for NbtView: compounds with nested payloads, repeated   *)
(* names and names MUTF-8 writes differently, lists of sized and unsized   *)
(* elements, and nesting past the decoder's limit, which is three here.    *)

a == <<97>>
b == <<98>>
nul == <<0>>
accent == <<195, 169>>            \* U+00E9
music == <<240, 157, 132, 158>>   \* U+1D11E

Inner == <<"Compound", << <<a, <<"Int", -65>> >>,
                          <<b, <<"LongArray", <<-1, 300>> >> >> >> >>
Twice ==
  << a, <<"Compound", << <<a, <<"String", accent>> >>, <<b, Inner>>,
                         <<a, <<"Byte", 2>> >> >> >> >>
Named ==
  << a, <<"Compound", << <<accent, <<"ByteArray", <<1, 2>> >> >>,
                         <<b, <<"List", << <<"Short", 9>> >> >> >> >> >> >>
JavaNamed ==
  << nul, <<"Compound", << <<music, <<"Float", 7>> >>,
                           <<nul, <<"IntArray", <<5>> >> >>,
                           <<b, <<"String", nul>> >> >> >> >>
Lists ==
  << a, <<"List", << <<"List", << <<"Byte", 1>> >> >>, <<"List", <<>>>>,
                     <<"List", << <<"Byte", 1>>, <<"Byte", 3>> >> >> >> >> >>
Ints == << <<>>, <<"List", << <<"Int", 64>>, <<"Int", -1>> >> >> >>
Deep ==
  << a, <<"Compound", <<
          <<b, <<"List", << <<"List", << <<"List", <<>>>> >> >> >> >> >> >> >> >>

MCDocs ==
  (Formats \X {Twice, Named, Lists, Ints, Deep})
    \cup ({"JavaNamedRoot", "JavaAnonymousRoot"} \X {JavaNamed})

MCKeys == {a, b, accent, music, nul}

MCDamage == {0, 1, 2, 9, 10, 255}

\* Names the encoder wrote in the two Bedrock dialects.
BedrockDocs == Bedrock \X {JavaNamed}

-----------------------------------------------------------------------------

\* Nothing left to iterate.
BufferRests ==
  /\ format = "JavaNamedRoot" /\ bytes = <<>>
  /\ it = Done /\ seen = <<>> /\ began = TRUE

\* No object has been made.
NamesRest == Init

ViewInit ==
  \/ Init /\ BufferRests
  \/ BufferInit /\ NamesRest

ViewNext ==
  \/ BufferRests /\ Next /\ UNCHANGED bufferVars
  \/ BufferNext /\ UNCHANGED vars

ViewSpec == ViewInit /\ [][ViewNext]_<<vars, bufferVars>>

=============================================================================
