-------------------------- MODULE DecompressProofs --------------------------
(***************************************************************************)
(* Proofs about Decompress, for every stream and every limit.              *)
(***************************************************************************)
EXTENDS Decompress, TLAPS

\* In the LZ4 loop there is always more content than has been delivered; so
\* arriving at the limit means there is more than the limit.
MoreToCome == codec = "Lz4" /\ pc = "loop" => out = 0 \/ out < stream.size

StartEmpty == pc = "start" => out = 0

Inv == CallTypeOK /\ OutputBounded /\ MoreToCome /\ StartEmpty /\ AnswerRight

\* The first buffer of gzip and zlib is a number no larger than a limit
\* above zero.
LEMMA FirstGuess ==
  ASSUME NEW s \in Streams, NEW limit \in Limits
  PROVE  /\ gzip_guess(s, limit) \in Nat /\ zlib_guess(s, limit) \in Nat
         /\ zlib_guess(s, limit) <= limit
         /\ limit > 0 /\ s.in > 0 => gzip_guess(s, limit) <= limit
<1>1. s.in \in Nat /\ s.isize \in Nat /\ limit \in Nat
  BY StreamAssumption, LimitAssumption
<1>2. /\ gzip_fallback(s, limit) \in Nat
      /\ limit > 0 /\ s.in > 0 => gzip_fallback(s, limit) <= limit
  BY <1>1 DEF gzip_fallback, Lesser
<1> QED
  BY <1>1, <1>2 DEF gzip_guess, zlib_guess, Lesser, Greater

LEMMA InitInv == CallInit => Inv
<1> SUFFICES ASSUME CallInit PROVE Inv
  OBVIOUS
<1>1. max_output \in Nat
  BY LimitAssumption DEF CallInit
<1> QED
  BY <1>1 DEF CallInit, Inv, CallTypeOK, OutputBounded, MoreToCome, StartEmpty,
              AnswerRight

LEMMA NextInv == Inv /\ [CallNext]_callVars => Inv'
<1> SUFFICES ASSUME Inv, [CallNext]_callVars PROVE Inv'
  OBVIOUS
<1>0. /\ stream.in \in Nat /\ stream.size \in Nat /\ max_output \in Nat
      /\ stream.end = "whole" => stream.in > 0
      /\ guess \in Nat /\ out \in Nat /\ chunk \in Nat
      /\ stream \in Streams /\ max_output \in Limits
  BY StreamAssumption, LimitAssumption DEF Inv, CallTypeOK
<1>1. CASE CopyNone
  BY <1>0, <1>1 DEF CopyNone, Return, Keep, Inv, CallTypeOK, OutputBounded,
                    MoreToCome, StartEmpty, AnswerRight, Packed
<1>2. CASE StartGzip
  BY <1>0, <1>2, FirstGuess
     DEF StartGzip, Keep, Inv, CallTypeOK, OutputBounded, MoreToCome, StartEmpty,
         AnswerRight, Packed
<1>3. CASE StartZlib
  BY <1>0, <1>3, FirstGuess
     DEF StartZlib, Keep, Inv, CallTypeOK, OutputBounded, MoreToCome, StartEmpty,
         AnswerRight, Packed
<1>4. CASE DeflateSuccess
  BY <1>0, <1>4 DEF DeflateSuccess, Return, Keep, Inv, CallTypeOK, OutputBounded,
                    MoreToCome, StartEmpty, AnswerRight, Packed
<1>5. CASE DeflateBadData
  BY <1>0, <1>5 DEF DeflateBadData, Return, Keep, Inv, CallTypeOK, OutputBounded,
                    MoreToCome, StartEmpty, AnswerRight, Packed
<1>6. CASE DeflateLimit
  BY <1>0, <1>6 DEF DeflateLimit, LimitReached, Return, Keep, Inv, CallTypeOK,
                    OutputBounded, MoreToCome, StartEmpty, AnswerRight, Packed
<1>7. CASE DeflateGrow
  <2>1. grow(guess, max_output) \in Nat /\ grow(guess, max_output) <= max_output
    BY <1>0 DEF grow, Lesser
  <2>2. guess' \in Nat /\ guess' <= max_output /\ pc = "loop"
        /\ UNCHANGED <<codec, stream, max_output, pc, out, chunk, result>>
    BY <1>7, <2>1 DEF DeflateGrow, Keep
  <2>3. CallTypeOK' /\ OutputBounded'
    BY <2>2 DEF Inv, CallTypeOK, OutputBounded, Packed
  <2>4. MoreToCome' /\ StartEmpty'
    BY <2>2 DEF Inv, MoreToCome, StartEmpty
  <2>5. AnswerRight'
    <3>1. AnswerRight /\ UNCHANGED <<codec, stream, max_output, out, result>>
      BY <2>2 DEF Inv
    <3> QED
      BY <3>1 DEF AnswerRight, Packed
  <2> QED
    BY <2>3, <2>4, <2>5 DEF Inv
<1>8. CASE StartLz4
  <2>1. chunk' \in Nat
    BY <1>0, <1>8 DEF StartLz4, Lesser
  <2>2. /\ UNCHANGED <<codec, stream, max_output, guess, out, result>>
        /\ pc = "start" /\ pc' = "loop"
    BY <1>8 DEF StartLz4, Keep
  <2>3. CallTypeOK' /\ OutputBounded'
    BY <2>1, <2>2 DEF Inv, CallTypeOK, OutputBounded, Packed
  <2>4. result' = "none"
    BY <2>2 DEF Inv, CallTypeOK
  <2>5. out' = 0
    BY <2>2 DEF Inv, StartEmpty
  <2> QED
    BY <2>2, <2>3, <2>4, <2>5 DEF Inv, StartEmpty, MoreToCome, AnswerRight
<1>9. CASE Lz4Limit
  BY <1>0, <1>9 DEF Lz4Limit, Return, Keep, Inv, CallTypeOK, OutputBounded,
                    MoreToCome, StartEmpty, AnswerRight, Packed
<1>10. CASE Lz4Grow
  <2>1. /\ out' \in Nat /\ out' <= max_output /\ out' < stream.size
        /\ chunk' \in Nat
    BY <1>0, <1>10 DEF Lz4Grow, out_grow, Lesser
  <2> QED
    BY <1>0, <1>10, <2>1
       DEF Lz4Grow, Keep, Inv, CallTypeOK, OutputBounded, MoreToCome, StartEmpty,
           AnswerRight, Packed
<1>11. CASE Lz4End
  <2>1. stream.size <= max_output
    BY <1>0, <1>11 DEF Lz4End, out_grow, Lesser
  <2> QED
    BY <1>0, <1>11, <2>1
       DEF Lz4End, Return, Keep, Inv, CallTypeOK, OutputBounded, MoreToCome,
           StartEmpty, AnswerRight, Packed
<1>12. CASE UNCHANGED callVars
  BY <1>12 DEF callVars, Inv, CallTypeOK, OutputBounded, MoreToCome, StartEmpty,
               AnswerRight, Packed
<1> QED
  BY <1>1, <1>2, <1>3, <1>4, <1>5, <1>6, <1>7, <1>8, <1>9, <1>10, <1>11, <1>12
     DEF CallNext

\* The call's state stays well formed, and it has a result exactly when it has
\* returned.
THEOREM TypeCorrect == CallSpec => []CallTypeOK
<1>1. Inv => CallTypeOK
  BY DEF Inv
<1> QED
  BY <1>1, InitInv, NextInv, PTL DEF CallSpec

\* The output, and the buffer it is built in, never pass a limit above zero.
THEOREM OutputIsBounded == CallSpec => []OutputBounded
<1>1. Inv => OutputBounded
  BY DEF Inv
<1> QED
  BY <1>1, InitInv, NextInv, PTL DEF CallSpec

\* decompress answers right: all of the content, a limit that was really
\* passed, or a stream that is really damaged.
THEOREM AnswersAreRight == CallSpec => []AnswerRight
<1>1. Inv => AnswerRight
  BY DEF Inv
<1> QED
  BY <1>1, InitInv, NextInv, PTL DEF CallSpec

=============================================================================
