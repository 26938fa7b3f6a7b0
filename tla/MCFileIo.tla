------------------------------ MODULE MCFileIo ------------------------------
(***************************************************************************)
(* What read_nbt_file is made of below the codec: read_file against        *)
(* write_file on one path, and decompress.  A behaviour is of one of them  *)
(* while the other rests.                                                  *)
(*                                                                         *)
(* For the file, two byte strings that differ in every cell and in length, *)
(* and an empty one; one cell of them fits in the stream's buffer.         *)
(***************************************************************************)
EXTENDS FileIo, MCDecompress

MCBuffers == {<<"a1", "a2", "a3">>, <<"b1", "b2">>, <<>>}

-----------------------------------------------------------------------------
\* A call with Codec::None has returned.
CallRests ==
  /\ codec = "None" /\ max_output = 0
  /\ stream = [in |-> 0, size |-> 0, end |-> "cut", isize |-> 0]
  /\ pc = "done" /\ result = "ok"
  /\ guess = 0 /\ out = 0 /\ chunk = 0

\* No file, and no call on it.
FileRests == Init /\ ~ dir

IoInit ==
  \/ Init /\ CallRests
  \/ CallInit /\ FileRests

IoNext ==
  \/ CallRests /\ Next /\ UNCHANGED callVars
  \/ CallNext /\ UNCHANGED vars

\* The fairness of FairSpec and of FairCallSpec.
IoSpec ==
  /\ IoInit /\ [][IoNext]_<<vars, callVars>>
  /\ WF_vars(WriteStep) /\ WF_vars(ReadStep) /\ WF_callVars(CallNext)

=============================================================================
