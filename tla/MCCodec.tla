------------------------------ MODULE MCCodec ------------------------------
(***************************************************************************)
(* Three users of the codec that never meet: a stream of roots, a span     *)
(* that is patched in place, and a string that is transcoded.  A behaviour *)
(* belongs to one of them, and the other two rest in a state in which they *)
(* have nothing left to do.                                                *)
(***************************************************************************)
EXTENDS MCNbtStream, NbtInto, Transcoder

ASSUME ProperAssumption == ProperRoots /\ ProperPatches

StreamRests ==
  /\ format = "JavaNamedRoot"
  /\ sink = <<>> /\ sent = <<>> /\ got = <<>>
  /\ torn = FALSE /\ damaged = FALSE
  /\ pos = 0 /\ phase = "UnexpectedEndOfInput"

IntoRests ==
  /\ dialect = "JavaNamedRoot"
  /\ span = <<>> /\ held = <<>> /\ answer = 0

StringsRest == text = <<>> /\ pieces = MaxPieces

CodecInit ==
  \/ Init /\ IntoRests /\ StringsRest
  \/ IntoInit /\ StreamRests /\ StringsRest
  \/ Mutf8Init /\ StreamRests /\ IntoRests

CodecNext ==
  \/ StringsRest /\ IntoRests /\ Next /\ UNCHANGED intoVars /\ UNCHANGED mutf8Vars
  \/ StreamRests /\ StringsRest /\ IntoNext /\ UNCHANGED vars /\ UNCHANGED mutf8Vars
  \/ StreamRests /\ IntoRests /\ Mutf8Next /\ UNCHANGED vars /\ UNCHANGED intoVars

CodecSpec == CodecInit /\ [][CodecNext]_<<vars, intoVars, mutf8Vars>>

\* Whole characters at the edges of their forms, surrogates on their own,
\* overlong spellings, bytes that begin no character, and beginnings of
\* characters, which a piece may follow or not.
MCPieces ==
  { <<0>>, <<1>>, <<127>>, <<128>>, <<192, 128>>, <<193, 191>>, <<194, 128>>,
    <<223, 191>>, <<224, 128, 128>>, <<224, 160, 128>>, <<237, 159, 191>>,
    <<237, 160, 128>>, <<237, 175, 191>>, <<237, 176, 128>>, <<237, 191, 191>>,
    <<238, 128, 128>>, <<239, 191, 191>>, <<240, 143, 191, 191>>,
    <<240, 144, 128, 128>>, <<244, 143, 191, 191>>, <<244, 144, 128, 128>>,
    <<248>>, <<223>>, <<239, 191>>, <<240, 144, 128>> }

\* For a span: documents of growing length, one the size of a span, one no
\* dialect accepts, one that only Bedrock does, and the empty root.
MCPatches ==
  LET tree  == <<"Compound", << <<a, <<"List", << <<"Short", 1>>,
                                                  <<"Short", 2>> >> >> >>,
                                <<accent, <<"String", a>> >> >> >>
      mixed == <<"List", << <<"Byte", 1>>, <<"Int", 1>> >> >>
      bad   == <<"Compound", << <<stray, <<"Byte", 1>> >> >> >>
  IN  { <<a, <<"Byte", 7>> >>, <<accent, <<"Int", -300>> >>, <<a, tree>>,
        << <<>>, <<"LongArray", <<1, -1>> >> >>, <<a, EndTag>>,
        <<a, mixed>>, << <<>>, bad>> }

MCSizes == {0, 1, 5, 9, 10, 16, 40}

=============================================================================
