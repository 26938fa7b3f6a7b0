---------------------------- MODULE FileIoProofs ----------------------------
(***************************************************************************)
(* FileIo for every set of byte strings, however the writer and the reader *)
(* interleave: what an Ok of write_file means and what read_file returns.  *)
(* Then NbtFile for every set of documents: what is read back of one,      *)
(* whole or cut, with its codec and its dialect guessed.                   *)
(***************************************************************************)
EXTENDS FileIo, NbtFile, CodecProofs, FiniteSetTheorems

\* The file is the beginning of what is being written.
Begun ==
  /\ file # NoFile
  /\ Len(file) <= Len(w.bytes)
  /\ \A i \in 1 .. Len(file) : file[i] = w.bytes[i]

Buffered == Len(w.bytes) - Len(file) <= kBuffer

\* What the writer knows, which nobody else disturbs: it alone writes.
WriterInv ==
  /\ w.pc \in {"write", "close"} => Begun
  /\ w.pc = "close" => Buffered
  /\ w.pc = "idle" /\ w.answer = "Ok" => Begun /\ Buffered

\* The i-th cell of s was in the file, at that place, during the read.
Seen(s, i) == \E f \in during : i <= Len(f) /\ f[i] = s[i]

\* What the reader has is from the versions that the file has had.
ReadingInv ==
  r.pc = "reading" =>
    /\ file \in during
    /\ \E f \in during : Len(f) = r.size
    /\ Len(r.got) <= r.size
    /\ \A i \in 1 .. Len(r.got) : r.got[i] # Zero /\ Seen(r.got, i)

Inv ==
  /\ TypeOK
  /\ IsFiniteSet(during)
  /\ WriterInv
  /\ ReadingInv
  /\ OverlappedRead
  /\ QuietReadExact

-----------------------------------------------------------------------------

LEMMA EmptySequence == <<>> \in Seq(Cells) /\ Len(<<>>) = 0 /\ <<>> # NoFile
<1>1. <<>> \in Seq(Cells)
  OBVIOUS
<1>2. Len(<<>>) = 0
  OBVIOUS
<1>3. \A s \in Seq(Cells) : s # NoFile
  BY FileAssumption
<1> QED
  BY <1>1, <1>2, <1>3, Zenon

LEMMA PrefixPointwise ==
  ASSUME NEW S, NEW s \in Seq(S), NEW t \in Seq(S), Len(s) <= Len(t),
         \A i \in 1 .. Len(s) : s[i] = t[i]
  PROVE  IsPrefix(s, t)
BY DEF IsPrefix

\* Two sequences of one length that agree everywhere are the same.
LEMMA SameCells ==
  ASSUME NEW S, NEW s \in Seq(S), NEW t \in Seq(S), Len(s) = Len(t),
         \A i \in 1 .. Len(s) : s[i] = t[i]
  PROVE  s = t
OBVIOUS

\* The one version that a quiet read saw.
LEMMA OneVersion ==
  ASSUME IsFiniteSet(during), Cardinality(during) = 1
  PROVE  \E f : during = {f}
BY FS_Singleton

LEMMA InitInv == Init => Inv
<1> SUFFICES ASSUME Init PROVE Inv
  OBVIOUS
<1> USE FileAssumption
<1>1. TypeOK
  BY DEF Init, TypeOK
<1>2. IsFiniteSet(during)
  BY FS_EmptySet DEF Init
<1>3. WriterInv
  BY DEF Init, WriterInv
<1>4. ReadingInv /\ OverlappedRead /\ QuietReadExact
  BY DEF Init, ReadingInv, OverlappedRead, QuietReadExact
<1> QED
  BY <1>1, <1>2, <1>3, <1>4 DEF Inv

-----------------------------------------------------------------------------
(* The reader's part of the invariant.                                     *)

\* A step of the writer that leaves the file alone.
LEMMA QuietWriter ==
  ASSUME Inv, UNCHANGED <<file, r, during>>
  PROVE  IsFiniteSet(during)' /\ ReadingInv' /\ OverlappedRead' /\ QuietReadExact'
BY DEF Inv, ReadingInv, Seen, OverlappedRead, QuietReadExact

\* One that makes another file: the reader has seen one version more.
LEMMA LoudWriter ==
  ASSUME Inv, NEW f \in Seq(Cells), Becomes(f)
  PROVE  /\ IsFiniteSet(during)' /\ ReadingInv' /\ OverlappedRead'
         /\ QuietReadExact' /\ during' \subseteq Seq(Cells)
<1>1. IsFiniteSet(during)'
  BY FS_AddElement DEF Inv, Becomes
<1>2. during' \subseteq Seq(Cells)
  BY DEF Inv, TypeOK, Becomes
<1>3. CASE r.pc = "reading"
  <2>1. during \subseteq during' /\ file' \in during' /\ r' = r
    BY <1>3 DEF Becomes
  <2>2. ReadingInv'
    BY <1>3, <2>1 DEF Inv, ReadingInv, Seen
  <2>3. OverlappedRead' /\ QuietReadExact'
    BY <1>3, <2>1 DEF OverlappedRead, QuietReadExact
  <2> QED
    BY <1>1, <1>2, <2>2, <2>3
<1>4. CASE r.pc # "reading"
  BY <1>1, <1>2, <1>4 DEF Becomes, Inv, ReadingInv, OverlappedRead, QuietReadExact
<1> QED
  BY <1>3, <1>4

\* What a reader returns that met no end of file.
LEMMA ReturnsWhole ==
  ASSUME Inv, ReadReturns
  PROVE  OverlappedRead' /\ QuietReadExact'
<1> r.got \in Seq(Cells \cup {Zero}) /\ during \subseteq Seq(Cells) /\ r.pc = "reading"
  <2>1. TypeOK /\ r.pc = "reading"
    BY DEF Inv, ReadReturns
  <2> QED
    BY <2>1 DEF TypeOK
<1>1. r'.got = r.got /\ during' = during /\ Len(r.got) = r.size
  <2>1. TypeOK
    BY DEF Inv
  <2>2. during' = during /\ Len(r.got) = r.size
    BY DEF ReadReturns
  <2>3. r'.got = r.got
    BY <2>1 DEF ReadReturns, TypeOK
  <2> QED
    BY <2>2, <2>3
<1>2. OverlappedRead'
  <2>1. ReadingInv
    BY DEF Inv
  <2>2. \E f \in during : Len(f) = Len(r.got)
    BY <1>1, <2>1 DEF ReadingInv
  <2>3. \A i \in 1 .. Len(r.got) :
          r.got[i] # Zero /\ \E f \in during : i <= Len(f) /\ f[i] = r.got[i]
    BY <2>1 DEF ReadingInv, Seen
  <2>4. DOMAIN r.got = 1 .. Len(r.got) /\ Len(r.got) \in Nat
    OBVIOUS
  <2>5. \A i \in 1 .. Len(r.got) : \A j \in 1 .. i : j \in 1 .. Len(r.got)
    BY <2>4
  <2> QED
    BY <1>1, <2>2, <2>3, <2>4, <2>5 DEF OverlappedRead
<1>3. ASSUME Cardinality(during) = 1 PROVE during = {r.got}
  <2>1. during = {file}
    BY <1>3, OneVersion DEF Inv, ReadingInv
  <2>2. file \in Seq(Cells \cup {Zero})
    BY <2>1
  <2>3. Len(file) = Len(r.got) /\ \A i \in 1 .. Len(file) : file[i] = r.got[i]
    BY <1>1, <2>1 DEF Inv, ReadingInv, Seen
  <2> QED
    BY <2>1, <2>2, <2>3, SameCells
<1> QED
  BY <1>1, <1>2, <1>3 DEF QuietReadExact

\* And of one that did: the file has become shorter, so there are two versions.
LEMMA ReturnsPadded ==
  ASSUME Inv, TakeEof
  PROVE  OverlappedRead' /\ QuietReadExact' /\ r'.got \in Seq(Cells \cup {Zero})
<1> DEFINE padded == [i \in 1 .. r.size |-> IF i <= Len(r.got) THEN r.got[i] ELSE Zero]
<1> r.got \in Seq(Cells \cup {Zero}) /\ during \subseteq Seq(Cells) /\ r.size \in Nat
    /\ r.pc = "reading"
  BY DEF Inv, TypeOK, TakeEof
<1>1. r'.got = padded /\ during' = during /\ Len(r.got) < r.size /\ Len(r.got) >= Len(file)
  BY DEF TakeEof, Inv, TypeOK
<1>2. padded \in Seq(Cells \cup {Zero}) /\ Len(padded) = r.size
  OBVIOUS
<1>3. \A i \in 1 .. r.size : padded[i] = IF i <= Len(r.got) THEN r.got[i] ELSE Zero
  OBVIOUS
<1> HIDE DEF padded
<1>4. \E f \in during : Len(f) = Len(padded)
  BY <1>2 DEF Inv, ReadingInv
<1>5. ASSUME NEW i \in DOMAIN padded, padded[i] # Zero
      PROVE  /\ \E f \in during : i <= Len(f) /\ f[i] = padded[i]
             /\ \A j \in 1 .. i : padded[j] # Zero
  <2>1. i \in 1 .. r.size
    BY <1>2, <1>5
  <2>2. i <= Len(r.got)
    BY <1>3, <1>5, <2>1
  <2>3. \A j \in 1 .. i : j \in 1 .. Len(r.got) /\ padded[j] = r.got[j]
    BY <1>3, <2>1, <2>2
  <2>4. \A j \in 1 .. Len(r.got) : r.got[j] # Zero /\ Seen(r.got, j)
    BY DEF Inv, ReadingInv
  <2>5. Seen(r.got, i) /\ padded[i] = r.got[i]
    BY <2>1, <2>2, <2>3, <2>4
  <2> QED
    BY <2>3, <2>4, <2>5 DEF Seen
<1>6. OverlappedRead'
  BY <1>1, <1>4, <1>5 DEF OverlappedRead
<1>7. Cardinality(during) # 1
  BY <1>1, OneVersion DEF Inv, ReadingInv
<1> QED
  BY <1>1, <1>2, <1>6, <1>7 DEF QuietReadExact

-----------------------------------------------------------------------------
(* Every step keeps the invariant.                                         *)

LEMMA NextInv == Inv /\ [Next]_vars => Inv'
<1> SUFFICES ASSUME Inv, [Next]_vars PROVE Inv'
  OBVIOUS
<1> USE FileAssumption
<1>0. TypeOK /\ WriterInv
  BY DEF Inv
<1>1. ASSUME NEW b \in Buffers, WriteCall(b) PROVE Inv'
  <2>1. TypeOK' /\ WriterInv'
    BY <1>0, <1>1 DEF WriteCall, TypeOK, WriterInv
  <2> QED
    BY <1>1, <2>1, QuietWriter DEF WriteCall, Inv
<1>2. CASE CreateDirectories
  <2>1. TypeOK' /\ WriterInv'
    BY <1>0, <1>2 DEF CreateDirectories, TypeOK, WriterInv
  <2> QED
    BY <1>2, <2>1, QuietWriter DEF CreateDirectories, Inv
<1>3. ASSUME NEW a \in {"Io", "crashed"}, WriteAnswers(a),
             UNCHANGED <<dir, file, r, during>>
      PROVE  Inv'
  <2>1. TypeOK' /\ WriterInv'
    BY <1>0, <1>3 DEF WriteAnswers, TypeOK, WriterInv
  <2> QED
    BY <1>3, <2>1, QuietWriter DEF Inv
<1>4. CASE OpenTruncate
  <2>1. Becomes(<<>>) /\ w' = [w EXCEPT !.pc = "write"]
    BY <1>4 DEF OpenTruncate
  <2> <<>> \in Seq(Cells) /\ Len(<<>>) = 0 /\ <<>> # NoFile
    BY EmptySequence
  <2>2. /\ IsFiniteSet(during)' /\ ReadingInv' /\ OverlappedRead'
        /\ QuietReadExact' /\ during' \subseteq Seq(Cells)
    BY <2>1, LoudWriter
  <2>3. TypeOK'
    BY <1>0, <2>1, <2>2 DEF Becomes, TypeOK
  <2>4. WriterInv'
    <3>1. file' = <<>> /\ w'.pc = "write" /\ w'.bytes \in Seq(Cells)
      BY <1>0, <2>1 DEF Becomes, TypeOK
    <3>2. Begun'
      BY <3>1 DEF Begun
    <3> QED
      BY <3>1, <3>2 DEF WriterInv
  <2> QED
    BY <2>2, <2>3, <2>4 DEF Inv
<1>5. CASE PutCell
  <2> DEFINE f == Append(file, w.bytes[Len(file) + 1])
  <2>1. Begun /\ Len(file) < Len(w.bytes) /\ Becomes(f) /\ w' = w
    BY <1>0, <1>5 DEF PutCell, WriterInv
  <2>2. file \in Seq(Cells) /\ w.bytes \in Seq(Cells)
    BY <1>0, <2>1 DEF TypeOK, Begun
  <2>3. f \in Seq(Cells) /\ Len(f) = Len(file) + 1
    BY <2>1, <2>2
  <2>4. \A i \in 1 .. Len(f) : f[i] = w.bytes[i]
    BY <2>1, <2>2 DEF Begun
  <2> HIDE DEF f
  <2>5. /\ IsFiniteSet(during)' /\ ReadingInv' /\ OverlappedRead'
        /\ QuietReadExact' /\ during' \subseteq Seq(Cells)
    BY <2>1, <2>3, LoudWriter
  <2>6. TypeOK'
    BY <1>0, <2>1, <2>3, <2>5 DEF Becomes, TypeOK
  <2>7. Begun' /\ (Buffered => Buffered')
    <3>1. file' = f /\ f # NoFile
      BY <2>1, <2>3 DEF Becomes
    <3> QED
      BY <2>1, <2>2, <2>3, <2>4, <3>1 DEF Begun, Buffered
  <2>8. WriterInv'
    BY <1>0, <1>5, <2>1, <2>7 DEF WriterInv, PutCell
  <2> QED
    BY <2>5, <2>6, <2>8 DEF Inv
<1>6. CASE WriteChecked
  <2>1. TypeOK' /\ WriterInv'
    BY <1>0, <1>6 DEF WriteChecked, TypeOK, WriterInv, Begun, Buffered
  <2> QED
    BY <1>6, <2>1, QuietWriter DEF WriteChecked, Inv
<1>7. CASE CloseFlushed \/ CloseFails
  <2>1. WriteAnswers("Ok") /\ w.pc = "close" /\ UNCHANGED <<dir, file, r, during>>
    BY <1>7 DEF CloseFlushed, CloseFails
  <2>2. TypeOK' /\ WriterInv'
    BY <1>0, <2>1 DEF WriteAnswers, TypeOK, WriterInv, Begun, Buffered
  <2> QED
    BY <2>1, <2>2, QuietWriter DEF Inv
<1>8. ASSUME UNCHANGED <<dir, file, w>>, TypeOK', IsFiniteSet(during)', ReadingInv',
             OverlappedRead', QuietReadExact'
      PROVE  Inv'
  <2>1. WriterInv'
    BY <1>0, <1>8 DEF WriterInv, Begun, Buffered
  <2> QED
    BY <1>8, <2>1 DEF Inv
<1>9. CASE ReadCall
  <2> <<>> \in Seq(Cells \cup {Zero})
    OBVIOUS
  <2>0. file # NoFile => file \in Seq(Cells) /\ Len(file) \in Nat
    BY <1>0 DEF TypeOK
  <2>1. TypeOK'
    <3>1. r' \in [pc : {"idle", "reading", "Ok", "Io"}, size : Nat,
                  got : Seq(Cells \cup {Zero})]
      <4> DEFINE States == {"idle", "reading", "Ok", "Io"}
                 Records == [pc : States, size : Nat, got : Seq(Cells \cup {Zero})]
      <4>0. \A p \in States, n \in Nat, g \in Seq(Cells \cup {Zero}) :
              [pc |-> p, size |-> n, got |-> g] \in Records
        OBVIOUS
      <4> "Io" \in States /\ "reading" \in States /\ 0 \in Nat
        OBVIOUS
      <4> HIDE DEF States, Records
      <4>1. ASSUME file = NoFile PROVE r' \in Records
        BY <1>9, <4>0, <4>1, Zenon DEF ReadCall
      <4>2. ASSUME file # NoFile PROVE r' \in Records
        BY <1>9, <2>0, <4>0, <4>2, Zenon DEF ReadCall
      <4> QED
        BY <4>1, <4>2 DEF Records, States
    <3>2. during' \subseteq Seq(Cells)
      BY <1>9, <2>0 DEF ReadCall
    <3> QED
      BY <1>0, <1>9, <3>1, <3>2 DEF ReadCall, TypeOK
  <2>2. IsFiniteSet(during)'
    BY <1>9, FS_EmptySet, FS_Singleton DEF ReadCall
  <2>3. ReadingInv' /\ OverlappedRead' /\ QuietReadExact'
    BY <1>0, <1>9 DEF ReadCall, TypeOK, ReadingInv, OverlappedRead, QuietReadExact
  <2> QED
    BY <1>8, <1>9, <2>1, <2>2, <2>3 DEF ReadCall
<1>10. CASE TakeCell
  <2> DEFINE more == Append(r.got, file[Len(r.got) + 1])
  <2>1. /\ r.pc = "reading" /\ Len(r.got) < r.size /\ Len(r.got) < Len(file)
        /\ r' = [r EXCEPT !.got = more] /\ UNCHANGED <<dir, file, w, during>>
    BY <1>10 DEF TakeCell
  <2>2. file \in during /\ file \in Seq(Cells) /\ r.got \in Seq(Cells \cup {Zero})
    BY <1>0, <2>1 DEF TypeOK, Inv, ReadingInv
  <2>3. /\ more \in Seq(Cells \cup {Zero}) /\ Len(more) = Len(r.got) + 1
        /\ \A i \in 1 .. Len(r.got) : more[i] = r.got[i]
        /\ more[Len(r.got) + 1] = file[Len(r.got) + 1]
        /\ more[Len(r.got) + 1] \in Cells
    BY <2>1, <2>2
  <2> HIDE DEF more
  <2>4. TypeOK'
    BY <1>0, <2>1, <2>3 DEF TypeOK
  <2>5. \A i \in 1 .. Len(more) : more[i] # Zero /\ Seen(more, i)
    <3> TAKE i \in 1 .. Len(more)
    <3>1. CASE i = Len(r.got) + 1
      BY <2>1, <2>2, <2>3, <3>1 DEF Seen
    <3>2. CASE i # Len(r.got) + 1
      <4>1. i \in 1 .. Len(r.got)
        BY <2>2, <2>3, <3>2
      <4>2. r.got[i] # Zero /\ Seen(r.got, i)
        BY <2>1, <4>1 DEF Inv, ReadingInv
      <4> QED
        BY <2>3, <4>1, <4>2 DEF Seen
    <3> QED
      BY <3>1, <3>2
  <2>6. r'.pc = "reading" /\ r'.size = r.size /\ r'.got = more
    BY <1>0, <2>1 DEF TypeOK
  <2>7. Len(more) <= r.size
    BY <1>0, <2>1, <2>2, <2>3 DEF TypeOK
  <2>8. ReadingInv'
    BY <2>1, <2>2, <2>5, <2>6, <2>7 DEF Inv, ReadingInv, Seen
  <2>9. IsFiniteSet(during)' /\ OverlappedRead' /\ QuietReadExact'
    BY <2>1, <2>6 DEF Inv, OverlappedRead, QuietReadExact
  <2> QED
    BY <1>8, <2>1, <2>4, <2>8, <2>9
<1>11. CASE TakeEof
  <2>1. TypeOK'
    BY <1>0, <1>11, ReturnsPadded DEF TakeEof, TypeOK
  <2>2. IsFiniteSet(during)' /\ ReadingInv'
    BY <1>0, <1>11 DEF TakeEof, TypeOK, Inv, ReadingInv
  <2> QED
    BY <1>8, <1>11, <2>1, <2>2, ReturnsPadded DEF TakeEof
<1>12. CASE ReadReturns
  <2>1. TypeOK'
    BY <1>0, <1>12 DEF ReadReturns, TypeOK
  <2>2. IsFiniteSet(during)' /\ ReadingInv'
    BY <1>0, <1>12 DEF ReadReturns, TypeOK, Inv, ReadingInv
  <2> QED
    BY <1>8, <1>12, <2>1, <2>2, ReturnsWhole DEF ReadReturns
<1>13. CASE ReadFails
  <2>1. TypeOK'
    BY <1>0, <1>13 DEF ReadFails, TypeOK
  <2>2. IsFiniteSet(during)' /\ ReadingInv' /\ OverlappedRead' /\ QuietReadExact'
    BY <1>0, <1>13 DEF ReadFails, TypeOK, Inv, ReadingInv, OverlappedRead, QuietReadExact
  <2> QED
    BY <1>8, <1>13, <2>1, <2>2 DEF ReadFails
<1>14. CASE UNCHANGED vars
  BY <1>14 DEF vars, Inv, TypeOK, WriterInv, Begun, Buffered, ReadingInv, Seen,
               OverlappedRead, QuietReadExact
<1> QED
  BY <1>1, <1>2, <1>3, <1>4, <1>5, <1>6, <1>7, <1>9, <1>10, <1>11, <1>12, <1>13,
     <1>14 DEF Next, CannotWrite, WriteFails, Crash

-----------------------------------------------------------------------------

LEMMA SpecInv == Spec => []Inv
BY InitInv, NextInv, PTL DEF Spec

\* Every state of the two calls is well formed, whatever the file was.
THEOREM TypeCorrect == Spec => []TypeOK
<1>1. Inv => TypeOK
  BY DEF Inv
<1> QED
  BY <1>1, SpecInv, PTL

\* After write_file has answered Ok the file lacks at most what its stream
\* could hold: the error that the code cannot report is that of the last flush.
THEOREM OkIsAlmostWritten == Spec => []OkMeansAlmostWritten
<1>1. Inv => OkMeansAlmostWritten
  <2> SUFFICES ASSUME Inv, w.pc = "idle", w.answer = "Ok"
               PROVE  IsPrefix(file, w.bytes) /\ Buffered
    BY DEF OkMeansAlmostWritten, Buffered
  <2>1. Begun /\ Buffered
    BY DEF Inv, WriterInv
  <2>2. file \in Seq(Cells) /\ w.bytes \in Seq(Cells)
    BY <2>1 DEF Inv, TypeOK, Begun
  <2> QED
    BY <2>1, <2>2, PrefixPointwise DEF Begun
<1> QED
  BY <1>1, SpecInv, PTL

\* A read_file that no write_file overlaps returns the file.
THEOREM QuietReadsAreExact == Spec => []QuietReadExact
<1>1. Inv => QuietReadExact
  BY DEF Inv
<1> QED
  BY <1>1, SpecInv, PTL

\* One that does returns cells the file had, then at most zeros.
THEOREM OverlappedReadsAreSeen == Spec => []OverlappedRead
<1>1. Inv => OverlappedRead
  BY DEF Inv
<1> QED
  BY <1>1, SpecInv, PTL

-----------------------------------------------------------------------------
(* What the guesses are.                                                   *)

LEMMA GuessIs == \A in : detect_format(in) \in Formats \/ detect_format(in) = NoGuess
BY DEF detect_format, Formats, Java, Bedrock

LEMMA NoGuessIs == NoGuess \notin Formats
BY DEF NoGuess, Formats, Java, Bedrock

\* decode_auto and skip_auto are decode and skip in the dialect guessed.
LEMMA AutoIs ==
  ASSUME NEW in \in Seq(Byte)
  PROVE  /\ decode_auto(in).ok \in BOOLEAN /\ decode_auto(in).pos \in 0 .. Len(in)
         /\ Alike(detect_format(in), decode_auto(in), skip_auto(in))
         /\ decode_auto(in).ok =>
              /\ detect_format(in) \in Formats
              /\ decode_auto(in) = decode(detect_format(in), in, 0)
<1>1. PICK f : f = detect_format(in)
  OBVIOUS
<1>2. CASE f = NoGuess
  <2>1. decode_auto(in) = Err("UnexpectedRootType", 0) /\ skip_auto(in) = Err("UnexpectedRootType", 0)
    BY <1>1, <1>2 DEF decode_auto, skip_auto
  <2>2. Len(in) \in Nat
    OBVIOUS
  <2>3. PICK e : e = Err("UnexpectedRootType", 0)
    OBVIOUS
  <2>4. e.ok = FALSE /\ e.pos = 0
    BY <2>3 DEF Err
  <2>5. Alike(f, e, e)
    BY <2>4 DEF Alike
  <2>6. decode_auto(in) = e /\ skip_auto(in) = e
    BY <2>1, <2>3
  <2>7. e.ok \in BOOLEAN /\ ~ e.ok
    BY <2>4
  <2>8. e.pos \in 0 .. Len(in)
    BY <2>2, <2>4
  <2> QED
    BY <1>1, <2>5, <2>6, <2>7, <2>8
<1>3. CASE f # NoGuess
  <2>1. f \in Formats
    BY <1>1, <1>3, GuessIs
  <2>2. decode_auto(in) = decode(f, in, 0) /\ skip_auto(in) = skip(f, in, 0)
    BY <1>1, <1>3 DEF decode_auto, skip_auto
  <2>3. 0 \in Offsets(in)
    BY DEF Offsets
  <2>4. Yields(decode(f, in, 0), 0, Len(in)) /\ Alike(f, decode(f, in, 0), skip(f, in, 0))
    BY <2>1, <2>3, SkipsWhatDecodes
  <2> QED
    BY <1>1, <2>1, <2>2, <2>4 DEF Yields
<1> QED
  BY <1>2, <1>3

\* skip_expect takes a root for its own tag.
LEMMA ExpectIs ==
  ASSUME NEW in \in Seq(Byte), decode_auto(in).ok, NEW kind
  PROVE  skip_expect(detect_format(in), in, kind).ok = (kind = decode_auto(in).v[2][1])
<1>1. PICK f \in Formats : f = detect_format(in) /\ decode_auto(in) = decode(f, in, 0)
  BY AutoIs
<1>2. PICK d, s : d = decode(f, in, 0) /\ s = skip(f, in, 0)
  OBVIOUS
<1>3. s.ok /\ s.v = d.v[2][1]
  <2>1. 0 \in Offsets(in)
    BY DEF Offsets
  <2>2. Alike(f, d, s)
    BY <1>2, <2>1, SkipsWhatDecodes
  <2> QED
    BY <1>1, <1>2, <2>2 DEF Alike
<1>4. skip_expect(f, in, kind)
        = IF s.v = kind THEN Ok(s.v, s.pos) ELSE Err("UnexpectedRootType", 0)
  BY <1>2, <1>3 DEF skip_expect, Then
<1>5. Ok(s.v, s.pos).ok = TRUE /\ Err("UnexpectedRootType", 0).ok = FALSE
  BY DEF Ok, Err
<1> QED
  BY <1>1, <1>2, <1>3, <1>4, <1>5

-----------------------------------------------------------------------------
(* What a document begins with.                                            *)

\* The first bytes of a document of the kind detection is made for: the tag, and
\* a length n in the way of its dialect, before a name that can be printed.
Fronted(f, out, kind, n) ==
  /\ out \in Seq(Byte) /\ Len(out) >= 3
  /\ out[1] \in DOMAIN TagIds /\ TagIds[out[1]] = kind
  /\ f = "JavaNamedRoot" => out[2] = 0
  /\ f \in Bedrock =>
       /\ n \in 1 .. 127 /\ out[2] = n /\ (kind = "String" => n % 31 # 29)
       /\ Len(out) >= 2 + n
  /\ f = "BedrockLittleEndian" => out[3] = 0
  /\ f = "BedrockVarInt" => \A i \in 1 .. n : out[2 + i] >= 32 /\ out[2 + i] < 127

\* A length before a name, when it is short.
LEMMA ShortHeader ==
  ASSUME NEW n \in Nat, n <= 255
  PROVE  /\ Header("JavaNamedRoot", n) = <<0, n>>
         /\ Header("BedrockLittleEndian", n) = <<n, 0>>
         /\ n <= 127 => Header("BedrockVarInt", n) = <<n>>
<1>1. big_endian_bytes(n, 2) = <<0, n>>
  <2>1. PICK b : b = big_endian_bytes(n, 2)
    OBVIOUS
  <2>2. /\ b \in Seq(Byte) /\ Len(b) = 2
        /\ b[1] = (n \div Scale[2]) % 256 /\ b[2] = (n \div Scale[1]) % 256
    <3>1. /\ b \in Seq(Byte) /\ Len(b) = 2
          /\ \A i \in 1 .. 2 :
               b[i] = IF 2 - i >= 4 THEN (IF n < 0 THEN 255 ELSE 0)
                      ELSE (n \div Scale[2 - i + 1]) % 256
      BY <2>1, BytesOf
    <3>2. b[1] = IF 2 - 1 >= 4 THEN (IF n < 0 THEN 255 ELSE 0)
                 ELSE (n \div Scale[2 - 1 + 1]) % 256
      BY <3>1
    <3>3. b[2] = IF 2 - 2 >= 4 THEN (IF n < 0 THEN 255 ELSE 0)
                 ELSE (n \div Scale[2 - 2 + 1]) % 256
      BY <3>1
    <3> QED
      BY <3>1, <3>2, <3>3
  <2>3. Scale[1] = 1 /\ Scale[2] = 256
    BY DEF Scale
  <2>4. b[1] = 0 /\ b[2] = n
    BY <2>2, <2>3
  <2>5. b = <<b[1], b[2]>>
    BY <2>2
  <2> QED
    BY <2>1, <2>4, <2>5
<1>2. Header("JavaNamedRoot", n) = <<0, n>>
  BY <1>1 DEF Header, big_endian, Java
<1>3. Header("BedrockLittleEndian", n) = <<n, 0>>
  <2>1. Reverse(<<0, n>>) = <<n, 0>>
    <3>1. PICK b, e : b = <<0, n>> /\ e = <<n, 0>>
      OBVIOUS
    <3>2. Len(b) = 2 /\ b[1] = 0 /\ b[2] = n
      BY <3>1
    <3>3. Reverse(b) = [i \in 1 .. 2 |-> b[3 - i]]
      BY <3>2 DEF Reverse
    <3>4. e = [i \in 1 .. 2 |-> b[3 - i]]
      BY <3>1, <3>2
    <3> QED
      BY <3>1, <3>3, <3>4
  <2> QED
    BY <1>1, <2>1 DEF Header, big_endian, Java
<1>4. ASSUME n <= 127 PROVE Header("BedrockVarInt", n) = <<n>>
  <2>1. Weights[1] = 1 /\ Weights[1 + 1] = 128
    BY DEF Weights
  <2>2. uvarint_size(n) = 1
    <3>1. PICK k : k = uvarint_size(n)
      OBVIOUS
    <3>2. k \in {1, 2, 3, 4, 5} /\ (k = 1 \/ n >= Weights[k])
      BY <3>1, UvarintSize
    <3>3. Weights[2] = 128 /\ Weights[3] = 16384 /\ Weights[4] = 2097152 /\ Weights[5] = 268435456
      BY DEF Weights
    <3> QED
      BY <1>4, <3>1, <3>2, <3>3
  <2>3. write_uvarint(n) = [i \in 1 .. 1 |-> ((n \div Weights[i]) % 128) + 0]
    BY <2>2 DEF write_uvarint
  <2>4. [i \in 1 .. 1 |-> ((n \div Weights[i]) % 128) + 0] = <<n>>
    BY <1>4, <2>1
  <2> QED
    BY <2>3, <2>4 DEF Header
<1> QED
  BY <1>2, <1>3, <1>4

\* A named root is its tag, its name, written as t, and its payload.
NamedIs(f, name, v, out, t, y) ==
  /\ Text(f, name, t) /\ y \in Seq(Byte) /\ v[1] \in Kinds
  /\ write_string(f, name).out = Header(f, Len(t)) \o t
  /\ out = <<tag_byte(v[1])>> \o ((Header(f, Len(t)) \o t) \o y)

LEMMA NamedParts ==
  ASSUME NEW f \in Formats, f # "JavaAnonymousRoot",
         NEW n \in Nat, NEW name \in ByteStrings, NEW v \in Values(n), v # EndTag,
         NEW o, o = encode(f, <<name, v>>), o.ok
  PROVE  \E t, y : NamedIs(f, name, v, o.out, t, y)
<1>1. v[1] \in Kinds /\ write_value(f, v) \in Writes /\ name \in Seq(Byte)
  BY RootKind, ValueWrites DEF ByteStrings
<1>2. PICK b, s, l : b = tag_byte(v[1]) /\ s = write_string(f, name) /\ l = write_value(f, v)
  OBVIOUS
<1>3. o = AndThen(Wrote(<<b>>), AndThen(s, l))
  <2>1. o = encode_named(f, <<name, v>>)
    BY DEF encode, Formats, Java, Bedrock,
           encode_java_named, encode_bedrock_le, encode_bedrock_varint
  <2> QED
    BY <1>2, <2>1 DEF encode_named
<1>4. s \in Writes /\ l \in Writes /\ Wrote(<<b>>) \in Writes /\ Wrote(<<b>>).out = <<b>>
  BY <1>1, <1>2, StringBytes, TagBytes, WroteBytes, WroteIs
<1>5. PICK h, k : h = Wrote(<<b>>) /\ k = AndThen(s, l)
  OBVIOUS
<1>6. k.ok /\ o.out = h.out \o k.out
  <2>1. k \in Writes
    BY <1>4, <1>5, AndThenWrites
  <2>2. o = AndThen(h, k) /\ h \in Writes
    BY <1>3, <1>4, <1>5
  <2> QED
    BY <2>1, <2>2, BothWritten
<1>7. s.ok /\ k.out = s.out \o l.out
  BY <1>4, <1>5, <1>6, BothWritten
<1>8. PICK t : Text(f, name, t) /\ Countable(f, Len(t)) /\ s.out = Header(f, Len(t)) \o t
  BY <1>2, <1>7, WrittenText
<1>9. PICK y \in Seq(Byte) : y = l.out
  BY <1>4 DEF Writes
<1>10. o.out = <<b>> \o ((Header(f, Len(t)) \o t) \o y)
  BY <1>4, <1>5, <1>6, <1>7, <1>8, <1>9
<1>11. write_string(f, name).out = Header(f, Len(t)) \o t
  BY <1>2, <1>8
<1> QED
  BY <1>1, <1>2, <1>8, <1>9, <1>10, <1>11 DEF NamedIs

LEMMA TagOf ==
  ASSUME NEW kind \in Kinds
  PROVE  tag_byte(kind) \in DOMAIN TagIds /\ TagIds[tag_byte(kind)] = kind
<1>1. \E i \in DOMAIN TagIds : TagIds[i] = kind
  BY DEF Kinds
<1>2. kind # "End"
  BY EndIsNone
<1> QED
  BY <1>1, <1>2 DEF tag_byte

\* z is x followed by y.
Appended(x, y, z) ==
  /\ z \in Seq(Byte) /\ Len(z) = Len(x) + Len(y)
  /\ \A i \in 1 .. Len(x) : z[i] = x[i]
  /\ \A i \in 1 .. Len(y) : z[Len(x) + i] = y[i]

LEMMA JoinedAt ==
  ASSUME NEW x \in Seq(Byte), NEW y \in Seq(Byte)
  PROVE  Appended(x, y, x \o y)
BY DEF Appended

\* Where the parts of a document are: b, then h, then t.
PartsOf(out, b, h, t) ==
  /\ out \in Seq(Byte) /\ Len(out) >= 1 + Len(h) + Len(t)
  /\ out[1] = b
  /\ \A i \in 1 .. Len(h) : out[1 + i] = h[i]
  /\ \A i \in 1 .. Len(t) : out[1 + Len(h) + i] = t[i]

LEMMA PartsAt ==
  ASSUME NEW b \in Byte, NEW h \in Seq(Byte), NEW t \in Seq(Byte), NEW y \in Seq(Byte),
         NEW out, out = <<b>> \o ((h \o t) \o y)
  PROVE  PartsOf(out, b, h, t)
<1>1. PICK c, d, e : c = <<b>> /\ d = h \o t /\ e = d \o y
  OBVIOUS
<1>2. c \in Seq(Byte) /\ Len(c) = 1 /\ c[1] = b
  BY <1>1
<1>3. /\ d \in Seq(Byte) /\ Len(d) = Len(h) + Len(t)
      /\ \A i \in 1 .. Len(h) : d[i] = h[i]
      /\ \A i \in 1 .. Len(t) : d[Len(h) + i] = t[i]
  BY <1>1
<1>4. /\ e \in Seq(Byte) /\ Len(e) = Len(d) + Len(y)
      /\ \A i \in 1 .. Len(d) : e[i] = d[i]
  BY <1>1, <1>3
<1>5. out = c \o e
  BY <1>1
<1>6. /\ out \in Seq(Byte) /\ Len(out) = 1 + Len(e)
      /\ out[1] = b
      /\ \A i \in 1 .. Len(e) : out[1 + i] = e[i]
  <2>1. /\ out \in Seq(Byte) /\ Len(out) = Len(c) + Len(e)
        /\ \A i \in 1 .. Len(c) : out[i] = c[i]
        /\ \A i \in 1 .. Len(e) : out[Len(c) + i] = e[i]
    <3>1. c \in Seq(Byte) /\ e \in Seq(Byte)
      BY <1>2, <1>4
    <3>2. Appended(c, e, out)
      BY <1>5, <3>1, JoinedAt
    <3> QED
      BY <3>2 DEF Appended
  <2>2. 1 \in 1 .. Len(c)
    BY <1>2
  <2>3. out[1] = b
    BY <1>2, <2>1, <2>2
  <2>4. Len(out) = 1 + Len(e) /\ \A i \in 1 .. Len(e) : out[1 + i] = e[i]
    BY <1>2, <2>1
  <2> QED
    BY <2>1, <2>3, <2>4
<1>7. Len(h) \in Nat /\ Len(t) \in Nat /\ Len(y) \in Nat
  OBVIOUS
<1>8. \A i \in 1 .. Len(h) : out[1 + i] = h[i]
  <2> SUFFICES ASSUME NEW i \in 1 .. Len(h) PROVE out[1 + i] = h[i]
    OBVIOUS
  <2>1. i \in 1 .. Len(d) /\ i \in 1 .. Len(e)
    BY <1>3, <1>4, <1>7
  <2> QED
    BY <1>3, <1>4, <1>6, <2>1
<1>9. \A i \in 1 .. Len(t) : out[1 + Len(h) + i] = t[i]
  <2> SUFFICES ASSUME NEW i \in 1 .. Len(t) PROVE out[1 + Len(h) + i] = t[i]
    OBVIOUS
  <2>1. PICK j : j = Len(h) + i
    OBVIOUS
  <2>2. j \in 1 .. Len(d) /\ j \in 1 .. Len(e) /\ 1 + Len(h) + i = 1 + j
    BY <1>3, <1>4, <1>7, <2>1
  <2>3. d[j] = t[i]
    BY <1>3, <2>1
  <2> QED
    BY <1>4, <1>6, <2>2, <2>3
<1>10. Len(out) >= 1 + Len(h) + Len(t)
  BY <1>3, <1>4, <1>6, <1>7
<1> QED
  BY <1>6, <1>8, <1>9, <1>10 DEF PartsOf

\* A document of the kind detection is made for.
LEMMA DocFronted ==
  ASSUME NEW f \in Formats, NEW n \in Nat, NEW name \in ByteStrings,
         NEW v \in Values(n), v # EndTag, Detectable(<<name, v>>, f),
         NEW o, o = encode(f, <<name, v>>), o.ok
  PROVE  \E k : Fronted(f, o.out, v[1], k) /\ f # "JavaAnonymousRoot"
<1>1. PICK nv : nv = <<name, v>> /\ nv[1] = name /\ nv[2] = v
  OBVIOUS
<1>2. \/ f = "JavaNamedRoot" /\ Len(write_string(f, name).out) <= 2 + 255
      \/ /\ f \in Bedrock
         /\ Len(name) <= 127 /\ looks_like_printable(name)
         /\ v[1] = "String" => Len(name) % 31 # 29
  <2>1. Detectable(nv, f)
    BY <1>1
  <2> QED
    BY <1>1, <2>1 DEF Detectable
<1>3. f # "JavaAnonymousRoot"
  BY <1>2 DEF Bedrock
<1>4. PICK t, y : NamedIs(f, name, v, o.out, t, y)
  BY <1>3, NamedParts
<1>5. PICK b \in DOMAIN TagIds : b = tag_byte(v[1]) /\ TagIds[b] = v[1]
  BY <1>4, TagOf DEF NamedIs
<1>6. t \in Seq(Byte) /\ Len(t) \in Nat
  BY <1>4 DEF NamedIs, Text
<1>7. PICK h, m : h = Header(f, m) /\ m = Len(t)
  OBVIOUS
<1>8. h \in Seq(Byte)
  BY <1>6, <1>7, HeaderBytes
<1>9. b \in Byte
  BY <1>4, <1>5, TagBytes DEF NamedIs
<1>10. PICK out : out = o.out
  OBVIOUS
<1>11. /\ out \in Seq(Byte) /\ Len(out) >= 1 + Len(h) + m
       /\ out[1] = b
       /\ \A i \in 1 .. Len(h) : out[1 + i] = h[i]
       /\ \A i \in 1 .. m : out[1 + Len(h) + i] = t[i]
  <2>1. out = <<b>> \o ((h \o t) \o y) /\ y \in Seq(Byte)
    BY <1>4, <1>5, <1>7, <1>10 DEF NamedIs
  <2>2. PartsOf(out, b, h, t)
    BY <1>6, <1>8, <1>9, <2>1, PartsAt
  <2>3. m = Len(t)
    BY <1>7
  <2> QED
    BY <2>2, <2>3 DEF PartsOf
<1>12. CASE f = "JavaNamedRoot"
  <2>1. f \notin Bedrock /\ f \in Java
    BY <1>12 DEF Bedrock, Java
  <2>2. Len(h) = 2
    <3>1. h = big_endian_bytes(m, 2)
      BY <1>7, <1>12, <2>1 DEF Header, big_endian
    <3>2. m \in Int /\ 2 \in {1, 2, 4, 8}
      BY <1>6, <1>7
    <3> QED
      BY <3>1, <3>2, BytesOf
  <2>3. m <= 255
    <3>1. Len(h \o t) = Len(h) + Len(t)
      BY <1>6, <1>8
    <3>2. Len(h \o t) <= 2 + 255
      BY <1>2, <1>4, <1>7, <2>1 DEF NamedIs
    <3>3. Len(h \o t) = 2 + m /\ m \in Nat
      BY <1>6, <1>7, <2>2, <3>1
    <3> QED
      BY <3>2, <3>3
  <2>4. h = <<0, m>>
    BY <1>6, <1>7, <1>12, <2>3, ShortHeader
  <2>5. Len(out) >= 3
    BY <1>6, <1>7, <1>11, <2>2
  <2>6. out[1 + 1] = 0
    BY <1>11, <2>2, <2>4
  <2> QED
    BY <1>3, <1>5, <1>10, <1>11, <1>12, <2>1, <2>5, <2>6 DEF Fronted
<1>13. CASE f \in Bedrock
  <2>1. f # "JavaNamedRoot"
    BY <1>13 DEF Bedrock
  <2>2. /\ Len(name) <= 127 /\ looks_like_printable(name)
        /\ v[1] = "String" => Len(name) % 31 # 29
    BY <1>2, <2>1
  <2>3. t = name
    BY <1>4, <1>13 DEF NamedIs, Text
  <2>4. t # <<>> /\ \A i \in 1 .. m : t[i] >= 32 /\ t[i] < 127
    BY <1>6, <1>7, <2>2, <2>3 DEF looks_like_printable
  <2>5. m \in 1 .. 127
    <3>1. m <= 127 /\ m # 0 /\ m \in Nat
      BY <1>6, <1>7, <2>2, <2>3, <2>4
    <3> QED
      BY <3>1
  <2>6. v[1] = "String" => m % 31 # 29
    BY <1>7, <2>2, <2>3
  <2>7. CASE f = "BedrockLittleEndian"
    <3>1. h = <<m, 0>>
      <4>1. m \in Nat /\ m <= 255 /\ m <= 127
        BY <2>5
      <4> QED
        BY <1>7, <2>7, <4>1, ShortHeader
    <3>2. Len(h) = 2 /\ h[1] = m /\ h[2] = 0
      BY <3>1
    <3>3. Len(out) >= 3 /\ Len(out) >= 2 + m
      BY <1>11, <2>5, <3>2
    <3>4. out[1 + 1] = m /\ out[1 + 2] = 0
      BY <1>11, <3>2
    <3>5. out[2] = m /\ out[3] = 0
      BY <3>4
    <3>6. f # "BedrockVarInt"
      BY <2>7
    <3> QED
      BY <1>3, <1>5, <1>10, <1>11, <2>1, <2>5, <2>6, <2>7, <3>3, <3>5, <3>6 DEF Fronted
  <2>8. CASE f = "BedrockVarInt"
    <3>1. h = <<m>>
      <4>1. m \in Nat /\ m <= 255 /\ m <= 127
        BY <2>5
      <4> QED
        BY <1>7, <2>8, <4>1, ShortHeader
    <3>2. Len(h) = 1 /\ h[1] = m
      BY <3>1
    <3>3. Len(out) >= 3 /\ Len(out) >= 2 + m
      BY <1>11, <2>5, <3>2
    <3>4. out[1 + 1] = m
      BY <1>11, <3>2
    <3>5. out[2] = m
      BY <3>4
    <3>6. f # "BedrockLittleEndian"
      BY <2>8
    <3>7. \A i \in 1 .. m : out[2 + i] >= 32 /\ out[2 + i] < 127
      <4> SUFFICES ASSUME NEW i \in 1 .. m PROVE out[2 + i] >= 32 /\ out[2 + i] < 127
        OBVIOUS
      <4>1. out[1 + 1 + i] = t[i] /\ 1 + 1 + i = 2 + i
        BY <1>11, <3>2
      <4> QED
        BY <2>4, <4>1
    <3> QED
      <4>1. Fronted(f, out, v[1], m)
        BY <1>5, <1>11, <2>1, <2>5, <2>6, <3>3, <3>5, <3>6, <3>7 DEF Fronted
      <4> QED
        BY <1>3, <1>10, <4>1
  <2> QED
    BY <1>13, <2>7, <2>8 DEF Bedrock
<1> QED
  BY <1>2, <1>12, <1>13

-----------------------------------------------------------------------------
(* What is guessed about a document.                                       *)

\* The buffer holds the beginning of out.
Starts(in, out) ==
  /\ in \in Seq(Byte) /\ Len(in) <= Len(out)
  /\ \A i \in 1 .. Len(in) : in[i] = out[i]

LEMMA TagsAre == DOMAIN TagIds = 1 .. 12
BY DEF TagIds

LEMMA FrontedByte ==
  ASSUME NEW f, NEW out, NEW kind, NEW k, Fronted(f, out, kind, k)
  PROVE  out[1] \in 1 .. 12 /\ \A i \in 1 .. Len(out) : out[i] \in 0 .. 255
<1>1. \A i \in 1 .. Len(out) : out[i] \in Byte
  BY DEF Fronted
<1>2. Byte = 0 .. 255
  BY DEF Byte
<1> QED
  BY <1>1, <1>2, TagsAre DEF Fronted

\* An uncompressed document is not taken for a compressed one.
LEMMA NoCodec ==
  ASSUME NEW f \in Formats, f # "JavaAnonymousRoot",
         NEW out, NEW kind, NEW k, Fronted(f, out, kind, k)
  PROVE  detect_codec(out) = NoGuess
<1>1. PICK a, b, c : a = out[1] /\ b = out[2] /\ c = out[3]
  OBVIOUS
<1>2. a \in 1 .. 12 /\ b \in 0 .. 255 /\ c \in 0 .. 255 /\ out \in Seq(Byte) /\ Len(out) >= 3
  <2>1. out \in Seq(Byte) /\ Len(out) >= 3
    BY DEF Fronted
  <2>2. 2 \in 1 .. Len(out) /\ 3 \in 1 .. Len(out)
    BY <2>1
  <2> QED
    BY <1>1, <2>1, <2>2, FrontedByte
<1>3. f = "JavaNamedRoot" \/ f = "BedrockLittleEndian" \/ f = "BedrockVarInt"
  BY DEF Formats, Java, Bedrock
<1>4. ~ IsPrefix(Lz4Magic, out)
  <2> SUFFICES ASSUME IsPrefix(Lz4Magic, out) PROVE FALSE
    OBVIOUS
  <2>1. Lz4Magic = <<4, 34, 77, 24>> /\ Len(Lz4Magic) = 4
    BY DEF Lz4Magic
  <2>2. Len(out) >= 4 /\ SubSeq(Lz4Magic, 1, 4) = SubSeq(out, 1, 4)
    BY <1>2, <2>1 DEF IsPrefix
  <2>3. \A i \in 1 .. 4 : SubSeq(Lz4Magic, 1, 4)[i] = Lz4Magic[i] /\ SubSeq(out, 1, 4)[i] = out[i]
    BY <1>2, <2>1, <2>2
  <2>4. b = 34 /\ c = 77 /\ out[4] = 24
    BY <1>1, <2>1, <2>2, <2>3
  <2>5. f = "BedrockVarInt"
    BY <1>1, <1>3, <2>4 DEF Fronted, Bedrock
  <2>6. k = 34 /\ \A i \in 1 .. k : out[2 + i] >= 32
    BY <1>1, <2>4, <2>5 DEF Fronted, Bedrock
  <2>7. out[2 + 2] >= 32
    BY <2>6
  <2> QED
    BY <2>4, <2>7
<1>5. ~ IsPrefix(GzipMagic, out)
  <2> SUFFICES ASSUME IsPrefix(GzipMagic, out) PROVE FALSE
    OBVIOUS
  <2>1. GzipMagic = <<31, 139>> /\ Len(GzipMagic) = 2
    BY DEF GzipMagic
  <2>2. SubSeq(GzipMagic, 1, 2) = SubSeq(out, 1, 2)
    BY <2>1 DEF IsPrefix
  <2>3. SubSeq(GzipMagic, 1, 2)[1] = 31 /\ SubSeq(out, 1, 2)[1] = out[1]
    BY <1>2, <2>1
  <2> QED
    BY <1>1, <1>2, <2>2, <2>3
<1>6. ~ zlib_header(out)
  <2> SUFFICES ASSUME zlib_header(out) PROVE FALSE
    OBVIOUS
  <2>1. a % 16 = 8 /\ (a * 256 + b) % 31 = 0
    BY <1>1 DEF zlib_header
  <2>2. a = 8
    BY <1>2, <2>1
  <2>3. kind = "String"
    BY <1>1, <2>2 DEF Fronted, TagIds
  <2>4. b % 31 = 29
    BY <1>2, <2>1, <2>2
  <2>5. CASE f = "JavaNamedRoot"
    BY <1>1, <2>4, <2>5 DEF Fronted
  <2>6. CASE f \in Bedrock
    BY <1>1, <2>3, <2>4, <2>6 DEF Fronted
  <2> QED
    BY <1>3, <2>5, <2>6 DEF Bedrock
<1> QED
  BY <1>2, <1>4, <1>5, <1>6 DEF detect_codec

\* Fewer than three bytes are taken for no dialect.
LEMMA ShortGuess ==
  ASSUME NEW f, NEW out, NEW kind, NEW k, Fronted(f, out, kind, k),
         NEW in, Starts(in, out), Len(in) < 3
  PROVE  detect_format(in) = NoGuess
<1>1. CASE in = <<>>
  BY <1>1 DEF detect_format
<1>2. CASE in # <<>>
  <2>1. 1 \in 1 .. Len(in)
    BY <1>2 DEF Starts
  <2>2. in[1] = out[1] /\ in[1] # 0
    BY <2>1, FrontedByte DEF Starts
  <2> QED
    BY <1>2, <2>2 DEF detect_format
<1> QED
  BY <1>1, <1>2

\* t is the m bytes of s behind p.
SliceOf(s, p, m, t) ==
  t \in Seq(Byte) /\ Len(t) = m /\ \A i \in 1 .. m : t[i] = s[p + i]

LEMMA SlicedAt ==
  ASSUME NEW s \in Seq(Byte), NEW p \in Nat, NEW m \in Nat, p + m <= Len(s)
  PROVE  SliceOf(s, p, m, SubSeq(s, p + 1, p + m))
BY DEF SliceOf

\* Three and more are taken for the dialect they are in; but a VarInt document
\* cut within its name is taken for a little-endian one, with a longer name.
LEMMA LongGuess ==
  ASSUME NEW f \in Formats, f # "JavaAnonymousRoot",
         NEW out, NEW kind, NEW k, Fronted(f, out, kind, k),
         NEW in, Starts(in, out), Len(in) >= 3
  PROVE  \/ detect_format(in) = f
         \/ /\ detect_format(in) = "BedrockLittleEndian"
            /\ Len(in) < Len(out) /\ Len(in) < 8192 /\ in[1] # 0 /\ in[3] >= 32
<1>1. PICK a, b, c : a = out[1] /\ b = out[2] /\ c = out[3]
  OBVIOUS
<1>2. in \in Seq(Byte) /\ Len(in) \in Nat /\ Len(in) <= Len(out)
  BY DEF Starts
<1>3. in[1] = a /\ in[2] = b /\ in[3] = c /\ in # <<>>
  <2>1. 1 \in 1 .. Len(in) /\ 2 \in 1 .. Len(in) /\ 3 \in 1 .. Len(in)
    BY <1>2
  <2> QED
    BY <1>1, <2>1 DEF Starts
<1>4. a \in 1 .. 12 /\ b \in 0 .. 255 /\ c \in 0 .. 255
  <2>1. 2 \in 1 .. Len(out) /\ 3 \in 1 .. Len(out)
    BY DEF Fronted
  <2> QED
    BY <1>1, <2>1, FrontedByte
<1>5. PICK seen : seen <=> /\ Len(in) >= 2 + b
                           /\ looks_like_printable(SubSeq(in, 3, 2 + b))
  OBVIOUS
<1>6. detect_format(in) = IF b = 0 THEN "JavaNamedRoot"
                          ELSE IF b >= 128 THEN "BedrockVarInt"
                          ELSE IF seen THEN "BedrockVarInt"
                          ELSE "BedrockLittleEndian"
  BY <1>2, <1>3, <1>4, <1>5, TagsAre DEF detect_format
<1>7. CASE f = "JavaNamedRoot"
  BY <1>1, <1>6, <1>7 DEF Fronted
<1>8. CASE f = "BedrockLittleEndian"
  <2>1. b \in 1 .. 127 /\ c = 0
    BY <1>1, <1>8 DEF Fronted, Bedrock
  <2>2. ~ seen
    <3> SUFFICES ASSUME Len(in) >= 2 + b, looks_like_printable(SubSeq(in, 3, 2 + b)) PROVE FALSE
      BY <1>5
    <3>1. PICK bs : bs = SubSeq(in, 3, 2 + b)
      OBVIOUS
    <3>2. Len(bs) = b /\ bs[1] = in[3] /\ 1 \in DOMAIN bs
      BY <1>2, <2>1, <3>1
    <3>3. bs[1] >= 32
      BY <3>1, <3>2 DEF looks_like_printable
    <3> QED
      BY <1>3, <2>1, <3>2, <3>3
  <2> QED
    BY <1>6, <1>8, <2>1, <2>2
<1>9. CASE f = "BedrockVarInt"
  <2>1. b \in 1 .. 127 /\ b = k /\ Len(out) >= 2 + b
    BY <1>1, <1>9 DEF Fronted, Bedrock
  <2>2. \A i \in 1 .. b : out[2 + i] >= 32 /\ out[2 + i] < 127
    BY <1>9, <2>1 DEF Fronted
  <2>3. CASE Len(in) >= 2 + b
    <3>1. PICK bs : bs = SubSeq(in, 3, 2 + b)
      OBVIOUS
    <3>2. bs \in Seq(Byte) /\ Len(bs) = b /\ \A i \in 1 .. b : bs[i] = in[2 + i]
      <4>1. bs = SubSeq(in, 2 + 1, 2 + b) /\ 2 + b <= Len(in) /\ b \in Nat
        BY <2>1, <2>3, <3>1
      <4>2. SliceOf(in, 2, b, bs)
        BY <1>2, <4>1, SlicedAt
      <4> QED
        BY <4>2 DEF SliceOf
    <3>3. \A i \in 1 .. b : in[2 + i] = out[2 + i]
      <4>1. \A i \in 1 .. b : 2 + i \in 1 .. Len(in)
        BY <1>2, <2>1, <2>3
      <4> QED
        BY <4>1 DEF Starts
    <3>4. \A i \in 1 .. b : bs[i] >= 32 /\ bs[i] < 127
      BY <2>2, <3>2, <3>3
    <3>5. bs # <<>> /\ DOMAIN bs = 1 .. b
      BY <2>1, <3>2
    <3>6. looks_like_printable(bs)
      BY <3>4, <3>5 DEF looks_like_printable
    <3>7. seen
      BY <1>5, <2>3, <3>1, <3>6
    <3> QED
      BY <1>6, <1>9, <2>1, <3>7
  <2>4. CASE Len(in) < 2 + b
    <3>1. ~ seen
      BY <1>2, <1>5, <2>1, <2>4
    <3>2. detect_format(in) = "BedrockLittleEndian"
      BY <1>6, <2>1, <3>1
    <3>3. Len(in) < Len(out) /\ Len(in) < 8192
      BY <1>2, <2>1, <2>4
    <3>4. c >= 32
      <4>1. out[2 + 1] >= 32
        BY <2>1, <2>2
      <4> QED
        BY <1>1, <4>1
    <3> QED
      BY <1>3, <1>4, <3>2, <3>3, <3>4
  <2> QED
    BY <1>2, <2>1, <2>3, <2>4
<1> QED
  BY <1>7, <1>8, <1>9 DEF Formats, Java, Bedrock

\* Two bytes taken.
LEMMA TwoTaken ==
  ASSUME NEW in \in Seq(Byte), NEW p \in Offsets(in), take(in, p, 2, 1).ok
  PROVE  take(in, p, 2, 1).v \in Seq(Byte) /\ Len(take(in, p, 2, 1).v) = 2
<1> DEFINE u == take(in, p, 2, 1)
<1>1. u.ok => u.v \in Seq(Byte) /\ Len(u.v) = 2
  <2>1. 2 \in Nat
    OBVIOUS
  <2> QED
    BY <2>1, TakeBytes
<1> QED
  BY <1>1

\* That longer name does not end in the buffer.
LEMMA MisreadName ==
  ASSUME NEW in \in Seq(Byte), Len(in) >= 3, Len(in) < 8192, in[1] # 0, in[3] >= 32
  PROVE  ~ decode("BedrockLittleEndian", in, 0).ok
<1> DEFINE f == "BedrockLittleEndian"
           d == decode(f, in, 0)
<1> SUFFICES ASSUME d.ok PROVE FALSE
  OBVIOUS
<1>0. f \in Bedrock /\ f \notin Java /\ f # "BedrockVarInt" /\ f \in Formats
  BY DEF Bedrock, Java, Formats
<1> DEFINE t == read_tag_byte(in, 0)
           s == read_string(f, in, t.pos)
           q == decode_payloads(f, in)[t.v][s.pos]
<1>1. (~ t.ok => d = t) /\ (t.ok /\ t.v # "End" /\ ~ s.ok => d = s)
  <2>1. d = decode_named(f, in, 0)
    BY DEF decode, decode_bedrock_le
  <2>2. decode_named(f, in, 0)
          = IF ~ t.ok THEN t
            ELSE IF t.v = "End" THEN Ok(NoRoot, t.pos)
            ELSE IF s.ok THEN (IF q.ok THEN Ok(<<s.v, q.v>>, q.pos) ELSE q)
            ELSE s
    BY DEF decode_named, Then
  <2> HIDE DEF d, t, s, q
  <2> QED
    BY <2>1, <2>2
<1>2. t = read_tag_byte(in, 0)
  OBVIOUS
<1>3. 0 \in Offsets(in) /\ 1 \in Offsets(in) /\ 3 \in Offsets(in)
  BY DEF Offsets
<1>4. s = read_string(f, in, t.pos)
  OBVIOUS
<1> HIDE DEF f, d, t, s, q
<1>5. t.ok /\ (t.v = "End" \/ s.ok)
  BY <1>1
<1>6. t.pos = 1
  <2>1. t.pos = 0 + 1
    BY <1>2, <1>3, <1>5, TagByteYields
  <2> QED
    BY <2>1
<1>7. t.v # "End"
  <2>1. PICK u : u = take(in, 0, 1, 1)
    OBVIOUS
  <2>2. Spans(1, 1, 1) /\ 1 \in {1, 2, 4, 8} /\ 1 \in Nat
    BY DEF Spans
  <2>3. u.ok <=> 0 + 1 <= Len(in)
    BY <1>3, <2>1, <2>2, TakeYields
  <2>4. u.ok => u.v[1] = in[0 + 1]
    <3>1. u.ok => \A i \in 1 .. 1 : u.v[i] = in[0 + i]
      BY <1>3, <2>1, <2>2, TakeYields
    <3>2. 1 \in 1 .. 1
      OBVIOUS
    <3> QED
      BY <3>1, <3>2
  <2>5. u.ok /\ u.v[1] # 0
    BY <2>3, <2>4
  <2>6. t = IF u.v[1] \in DOMAIN TagIds THEN Ok(TagIds[u.v[1]], u.pos)
            ELSE Err("UnknownTagId", u.pos)
    BY <1>2, <2>1, <2>5 DEF read_tag_byte, Then
  <2>7. u.v[1] \in DOMAIN TagIds
    <3>1. Err("UnknownTagId", u.pos).ok = FALSE
      BY DEF Err
    <3> QED
      BY <1>5, <2>6, <3>1
  <2>8. TagIds[u.v[1]] \in Kinds
    BY <2>7 DEF Kinds
  <2> QED
    BY <2>6, <2>7, <2>8, EndIsNone, OkIs
<1>8. s.ok
  BY <1>5, <1>7
<1>9. PICK k, h : k = skip_string(f, in, 1) /\ h = read_string_length(f, in, 1)
  OBVIOUS
<1>10. k.ok
  <2>1. ~ k.ok => s = k
    BY <1>4, <1>6, <1>9 DEF read_string, Then
  <2> QED
    BY <1>8, <2>1
<1>11. h.ok /\ k = take(in, h.pos, h.v, 1)
  <2>1. k = IF h.ok THEN take(in, h.pos, h.v, 1) ELSE h
    BY <1>9 DEF skip_string, Then
  <2> QED
    BY <1>10, <2>1
<1>12. PICK u : u = take(in, 1, 2, 1)
  OBVIOUS
<1>13. h = IF u.ok THEN Ok(unsigned(big_endian(f, u.v)), u.pos) ELSE u
  BY <1>0, <1>9, <1>12 DEF read_string_length, Then
<1>14. /\ u.ok /\ u.pos = 1 + 2 /\ u.v \in Seq(Byte) /\ Len(u.v) = 2
       /\ u.v[1] = in[2] /\ u.v[2] = in[3]
  <2>1. Spans(2, 2, 1) /\ 1 \in {1, 2, 4, 8} /\ 2 \in Nat
    BY DEF Spans
  <2>2. u.ok <=> 1 + 2 <= Len(in)
    BY <1>3, <1>12, <2>1, TakeYields
  <2>3. u.ok
    BY <2>2
  <2>4. u.v \in Seq(Byte) /\ Len(u.v) = 2
    BY <1>3, <1>12, <2>3, TwoTaken
  <2>5. u.pos = 1 + 2
    BY <1>3, <1>12, <2>1, <2>3, TakeYields
  <2>6. \A i \in 1 .. 2 : u.v[i] = in[1 + i]
    BY <1>3, <1>12, <2>1, <2>3, TakeYields
  <2>7. u.v[1] = in[1 + 1] /\ u.v[2] = in[1 + 2]
    BY <2>6
  <2> QED
    BY <2>3, <2>4, <2>5, <2>7
<1>15. PICK b \in Seq(Byte) : b = big_endian(f, u.v) /\ b[1] = in[3] /\ b[2] = in[2]
  <2>1. Reverse(u.v) = [i \in 1 .. 2 |-> u.v[3 - i]]
    BY <1>14 DEF Reverse
  <2>2. Reverse(u.v)[1] = u.v[3 - 1] /\ Reverse(u.v)[2] = u.v[3 - 2]
    BY <2>1
  <2>3. big_endian(f, u.v) = Reverse(u.v)
    BY <1>0 DEF big_endian
  <2> QED
    BY <1>14, <2>2, <2>3, ReverseBytes
<1>16. in[2] \in 0 .. 255 /\ in[3] \in 0 .. 255
  <2>1. in[2] \in Byte /\ in[3] \in Byte
    OBVIOUS
  <2> QED
    BY <2>1 DEF Byte
<1>17. PICK n \in Nat : n = unsigned(b) /\ n >= 8192
  <2>1. PICK x \in 0 .. 255 : x = in[3]
    BY <1>16
  <2>2. PICK y \in 0 .. 255 : y = in[2]
    BY <1>16
  <2>3. unsigned(b) = x * 256 + y /\ x >= 32
    BY <1>15, <2>1, <2>2 DEF unsigned
  <2>4. x * 256 + y \in Nat /\ x * 256 + y >= 8192
    BY <2>3
  <2> QED
    BY <2>3, <2>4
<1>18. h.v = n /\ h.pos = 3
  BY <1>13, <1>14, <1>15, <1>17, OkIs
<1>19. ~ k.ok
  <2>1. Spans(n, n, 1) /\ 1 \in {1, 2, 4, 8}
    BY DEF Spans
  <2>2. k = take(in, 3, n, 1)
    BY <1>11, <1>18
  <2>3. k.ok <=> 3 + n <= Len(in)
    BY <1>3, <2>1, <2>2, TakeYields
  <2> QED
    BY <1>17, <2>3
<1> QED
  BY <1>10, <1>19

-----------------------------------------------------------------------------
(* What is read back of a document, whole or cut.                          *)

LEMMA ErrIs == \A e, p : Err(e, p).ok = FALSE /\ Err(e, p).v = e /\ Err(e, p).pos = p
BY DEF Err

LEMMA NoGuessReads ==
  ASSUME NEW in, detect_format(in) = NoGuess
  PROVE  ~ decode_auto(in).ok
BY ErrIs DEF decode_auto

\* What begins with bytes stands there, as far as it goes.
LEMMA StartsStand ==
  ASSUME NEW in, NEW out \in Seq(Byte), Starts(in, out)
  PROVE  Stand(in, 0, out)
<1> SUFFICES ASSUME NEW i \in 1 .. Len(out), i <= Len(in) PROVE in[i] = out[i]
  BY DEF Stand
<1>1. i \in 1 .. Len(in)
  BY DEF Starts
<1> QED
  BY <1>1 DEF Starts

\* decode, of what a root was written as.
LEMMA RootDecodes ==
  ASSUME NEW f \in Formats, NEW in \in Seq(Byte), NEW deep,
         NEW n \in Nat, NEW name \in ByteStrings, NEW v \in Values(n), Proper(v),
         Nested(v)[kMaxDecodeDepth] # {} => deep,
         NEW o, o = encode(f, <<name, v>>), o.ok, Stand(in, 0, o.out)
  PROVE  Gets(decode(f, in, 0), StoredAs(f, <<name, v>>), 0, Len(o.out), Len(in), deep)
<1>1. 0 \in Offsets(in)
  BY DEF Offsets
<1> DEFINE s == skip(f, in, 0)
<1>2. /\ Len(o.out) >= 1
      /\ Stand(in, 0, o.out) =>
           /\ Gets(decode(f, in, 0), StoredAs(f, <<name, v>>), 0, Len(o.out), Len(in), deep)
           /\ Gets(s, s.v, 0, Len(o.out), Len(in), deep)
  BY <1>1, RootGets
<1> QED
  BY <1>2

LEMMA EndWritten ==
  ASSUME NEW f, NEW name, NEW o, o = encode(f, <<name, EndTag>>)
  PROVE  o.out = << 0 >>
<1>1. o = Wrote(<< 0 >>)
  BY DEF encode, encode_java_anonymous, encode_named,
         encode_java_named, encode_bedrock_le, encode_bedrock_varint
<1> QED
  BY <1>1, WroteIs

\* A document is written in bytes.
LEMMA OutBytes ==
  ASSUME NEW f \in Formats, NEW n \in Nat, NEW name \in ByteStrings, NEW v \in Values(n)
  PROVE  encode(f, <<name, v>>).out \in Seq(Byte)
<1>1. <<name, v>> \in Seq(Byte) \X Values(n)
  BY DEF ByteStrings
<1> QED
  BY <1>1, EncodesBytes

\* What is left of a document is not taken for one.
LEMMA CutRefused ==
  ASSUME NEW f \in Formats, NEW n \in Nat, NEW name \in ByteStrings, NEW v \in Values(n),
         Proper(v), Detectable(<<name, v>>, f),
         NEW o, o = encode(f, <<name, v>>), o.ok,
         NEW in, Starts(in, o.out), Len(in) < Len(o.out)
  PROVE  ~ decode_auto(in).ok
<1>1. in \in Seq(Byte) /\ Len(in) \in Nat
  BY DEF Starts
<1>2. CASE v = EndTag
  <2>1. PICK out : out = o.out /\ out = << 0 >>
    BY <1>2, EndWritten
  <2>2. Len(out) = 1
    BY <2>1
  <2>3. in = <<>>
    BY <1>1, <2>1, <2>2
  <2> QED
    BY <2>3, NoGuessReads DEF detect_format
<1>3. CASE v # EndTag
  <2>1. PICK k : Fronted(f, o.out, v[1], k) /\ f # "JavaAnonymousRoot"
    BY <1>3, DocFronted
  <2>2. CASE Len(in) < 3
    BY <2>1, <2>2, ShortGuess, NoGuessReads
  <2>3. CASE Len(in) >= 3
    <3> SUFFICES ASSUME decode_auto(in).ok PROVE FALSE
      OBVIOUS
    <3>1. decode_auto(in) = decode(detect_format(in), in, 0)
      BY <1>1, AutoIs
    <3>2. CASE detect_format(in) = f
      <4>1. o.out \in Seq(Byte) /\ Len(o.out) \in Nat
        BY OutBytes
      <4>2. Stand(in, 0, o.out)
        BY <4>1, StartsStand
      <4>3. PICK d : d = decode(f, in, 0)
        OBVIOUS
      <4>4. Gets(d, StoredAs(f, <<name, v>>), 0, Len(o.out), Len(in), TRUE)
        BY <1>1, <4>2, <4>3, RootDecodes
      <4>5. d.ok
        BY <3>1, <3>2, <4>3
      <4> QED
        BY <1>1, <4>1, <4>4, <4>5 DEF Gets
    <3>3. CASE detect_format(in) # f
      <4>1. /\ detect_format(in) = "BedrockLittleEndian"
            /\ Len(in) < 8192 /\ in[1] # 0 /\ in[3] >= 32
        BY <2>1, <2>3, <3>3, LongGuess
      <4> QED
        BY <1>1, <2>3, <3>1, <4>1, MisreadName
    <3> QED
      BY <3>2, <3>3
  <2> QED
    BY <1>1, <2>2, <2>3
<1> QED
  BY <1>2, <1>3

\* A whole document is not taken for a compressed one, and is read as it was
\* stored.
ReadAs(out, nv) ==
  /\ detect_codec(out) = NoGuess
  /\ decode_auto(out).ok /\ decode_auto(out).v = Stored(nv)

LEMMA EndReads == \A nv : nv[2] = EndTag => ReadAs(<< 0 >>, nv)
<1>1. PICK in \in Seq(Byte) : in = << 0 >>
  <2>1. 0 \in Byte
    BY DEF Byte
  <2>2. << 0 >> \in Seq(Byte)
    BY <2>1
  <2> QED
    BY <2>2
<1>2. Len(in) = 1 /\ in[1] = 0 /\ in # <<>> /\ Len(in) < 2
  BY <1>1
<1>3. ~ IsPrefix(Lz4Magic, in)
  <2>1. Len(Lz4Magic) = 4
    BY DEF Lz4Magic
  <2> QED
    BY <1>2, <2>1 DEF IsPrefix
<1>4. detect_codec(in) = NoGuess
  BY <1>2, <1>3 DEF detect_codec
<1>5. detect_format(in) = "JavaAnonymousRoot"
  BY <1>2 DEF detect_format
<1>6. PICK f \in Formats : f = "JavaAnonymousRoot"
  BY DEF Formats, Java
<1>7. PICK d : d = decode(f, in, 0) /\ d = decode_auto(in)
  BY <1>5, <1>6, NoGuessIs DEF decode_auto
<1>8. Stand(in, 0, << 0 >>)
  BY <1>1 DEF Stand
<1>9. Gets(d, NoRoot, 0, 1, Len(in), FALSE)
  <2>1. 0 \in Offsets(in)
    BY DEF Offsets
  <2> QED
    BY <1>7, <1>8, <2>1, EmptyGets
<1>10. d.ok /\ d.v = NoRoot
  BY <1>2, <1>9 DEF Gets
<1> QED
  BY <1>1, <1>4, <1>7, <1>10 DEF ReadAs, Stored

LEMMA WholeReads ==
  ASSUME NEW f \in Formats, NEW n \in Nat, NEW name \in ByteStrings, NEW v \in Values(n),
         Proper(v), Nested(v)[kMaxDecodeDepth] = {}, Detectable(<<name, v>>, f),
         NEW o, o = encode(f, <<name, v>>), o.ok
  PROVE  ReadAs(o.out, <<name, v>>)
<1>0. PICK nv : nv = <<name, v>> /\ nv[2] = v
  OBVIOUS
<1>1. CASE v = EndTag
  <2>1. o.out = << 0 >>
    BY <1>1, EndWritten
  <2> QED
    BY <1>0, <1>1, <2>1, EndReads
<1>2. CASE v # EndTag
  <2>1. PICK k : Fronted(f, o.out, v[1], k) /\ f # "JavaAnonymousRoot"
    BY <1>2, DocFronted
  <2>2. PICK in \in Seq(Byte) : in = o.out
    BY OutBytes
  <2>3. Len(in) \in Nat /\ Len(in) >= 3 /\ Starts(in, o.out)
    BY <2>1, <2>2 DEF Fronted, Starts
  <2>4. detect_codec(in) = NoGuess
    BY <2>1, <2>2, NoCodec
  <2>5. detect_format(in) = f
    BY <2>1, <2>2, <2>3, LongGuess
  <2>6. PICK d : d = decode(f, in, 0) /\ d = decode_auto(in)
    BY <2>5, NoGuessIs DEF decode_auto
  <2>7. Stand(in, 0, o.out)
    BY <2>2, <2>3, StartsStand
  <2>8. Gets(d, StoredAs(f, <<name, v>>), 0, Len(o.out), Len(in), FALSE)
    <3>1. Nested(v)[kMaxDecodeDepth] # {} => FALSE
      OBVIOUS
    <3> QED
      BY <2>6, <2>7, <3>1, RootDecodes
  <2>9. d.ok /\ d.v = StoredAs(f, nv)
    BY <1>0, <2>2, <2>3, <2>8 DEF Gets
  <2>10. StoredAs(f, nv) = Stored(nv)
    BY <1>0, <1>2, <2>1 DEF StoredAs, Stored
  <2> QED
    BY <1>0, <2>2, <2>4, <2>6, <2>9, <2>10 DEF ReadAs
<1> QED
  BY <1>1, <1>2

-----------------------------------------------------------------------------
(* The beginnings of compressed files.                                     *)

\* A header is bytes, and its codec is detected.
HeaderOf(by, h) == h \in Seq(Byte) /\ Len(h) \in Nat /\ detect_codec(h) = by /\ by # NoGuess

LEMMA GzipIs ==
  ASSUME NEW h, h = GzipMagic \o <<8, 0>>
  PROVE  h \in Seq(Byte) /\ Len(h) = 4 /\ h[1] = 31 /\ h[2] = 139
<1>1. PICK x, y : x = <<31, 139>> /\ y = <<8, 0>>
  OBVIOUS
<1>2. 31 \in Byte /\ 139 \in Byte /\ 8 \in Byte /\ 0 \in Byte
  BY DEF Byte
<1>3. x \in Seq(Byte) /\ Len(x) = 2
  BY <1>1, <1>2
<1>4. y \in Seq(Byte) /\ Len(y) = 2
  BY <1>1, <1>2
<1>5. h = x \o y
  BY <1>1 DEF GzipMagic
<1>6. Appended(x, y, h)
  BY <1>3, <1>4, <1>5, JoinedAt
<1>7. 1 \in 1 .. Len(x) /\ 2 \in 1 .. Len(x)
  BY <1>3
<1> QED
  BY <1>1, <1>3, <1>4, <1>6, <1>7 DEF Appended

LEMMA Lz4Is ==
  ASSUME NEW h, h = Lz4Magic \o <<96, 64>>
  PROVE  h \in Seq(Byte) /\ Len(h) = 6 /\ h[1] = 4 /\ h[2] = 34 /\ h[3] = 77 /\ h[4] = 24
<1>1. PICK x, y : x = <<4, 34, 77, 24>> /\ y = <<96, 64>>
  OBVIOUS
<1>2. 4 \in Byte /\ 34 \in Byte /\ 77 \in Byte /\ 24 \in Byte /\ 96 \in Byte /\ 64 \in Byte
  BY DEF Byte
<1>3. x \in Seq(Byte) /\ Len(x) = 4
  BY <1>1, <1>2
<1>4. y \in Seq(Byte) /\ Len(y) = 2
  BY <1>1, <1>2
<1>5. h = x \o y
  BY <1>1 DEF Lz4Magic
<1>6. Appended(x, y, h)
  BY <1>3, <1>4, <1>5, JoinedAt
<1>7. 1 \in 1 .. Len(x) /\ 2 \in 1 .. Len(x) /\ 3 \in 1 .. Len(x) /\ 4 \in 1 .. Len(x)
  BY <1>3
<1> QED
  BY <1>1, <1>3, <1>4, <1>6, <1>7 DEF Appended

LEMMA GzipHeader == HeaderOf("Gzip", GzipMagic \o <<8, 0>>)
<1>1. PICK h : h = GzipMagic \o <<8, 0>>
  OBVIOUS
<1>2. h \in Seq(Byte) /\ Len(h) = 4 /\ h[1] = 31 /\ h[2] = 139
  BY <1>1, GzipIs
<1>3. ~ IsPrefix(Lz4Magic, h)
  <2> SUFFICES ASSUME IsPrefix(Lz4Magic, h) PROVE FALSE
    OBVIOUS
  <2>1. Lz4Magic = <<4, 34, 77, 24>> /\ Len(Lz4Magic) = 4
    BY DEF Lz4Magic
  <2>2. SubSeq(Lz4Magic, 1, 4) = SubSeq(h, 1, 4)
    BY <2>1 DEF IsPrefix
  <2>3. SubSeq(Lz4Magic, 1, 4)[1] = 4 /\ SubSeq(h, 1, 4)[1] = 31
    BY <1>2, <2>1
  <2> QED
    BY <2>2, <2>3
<1>4. IsPrefix(GzipMagic, h)
  <2>1. GzipMagic = <<31, 139>> /\ Len(GzipMagic) = 2
    BY DEF GzipMagic
  <2>2. SubSeq(GzipMagic, 1, 2) = SubSeq(h, 1, 2)
    <3>1. PICK m : m = GzipMagic /\ m \in Seq(Byte) /\ Len(m) = 2 /\ m[1] = 31 /\ m[2] = 139
      <4>1. 31 \in Byte /\ 139 \in Byte
        BY DEF Byte
      <4>2. GzipMagic \in Seq(Byte)
        BY <2>1, <4>1
      <4>3. GzipMagic[1] = 31 /\ GzipMagic[2] = 139
        BY <2>1
      <4> QED
        BY <2>1, <4>2, <4>3
    <3>2. SubSeq(m, 1, 2) = [i \in 1 .. 2 |-> m[i]]
      BY <3>1
    <3>3. SubSeq(h, 1, 2) = [i \in 1 .. 2 |-> h[i]]
      BY <1>2
    <3>4. \A i \in 1 .. 2 : m[i] = h[i]
      BY <1>2, <3>1
    <3> QED
      BY <3>1, <3>2, <3>3, <3>4
  <2> QED
    BY <1>2, <2>1, <2>2 DEF IsPrefix
<1>5. detect_codec(h) = "Gzip"
  BY <1>2, <1>3, <1>4 DEF detect_codec
<1> QED
  BY <1>1, <1>2, <1>5 DEF HeaderOf, NoGuess

LEMMA ZlibHeader ==
  ASSUME NEW flg \in {1, 94, 156, 218}
  PROVE  HeaderOf("Zlib", <<120, flg, 99, 0>>)
<1>1. PICK h : h = <<120, flg, 99, 0>>
  OBVIOUS
<1>2. h \in Seq(Byte) /\ Len(h) = 4 /\ h[1] = 120 /\ h[2] = flg
  <2>1. 120 \in Byte /\ flg \in Byte /\ 99 \in Byte /\ 0 \in Byte
    BY DEF Byte
  <2> QED
    BY <1>1, <2>1
<1>3. ~ IsPrefix(Lz4Magic, h)
  <2> SUFFICES ASSUME IsPrefix(Lz4Magic, h) PROVE FALSE
    OBVIOUS
  <2>1. Lz4Magic = <<4, 34, 77, 24>> /\ Len(Lz4Magic) = 4
    BY DEF Lz4Magic
  <2>2. SubSeq(Lz4Magic, 1, 4) = SubSeq(h, 1, 4)
    BY <2>1 DEF IsPrefix
  <2>3. SubSeq(Lz4Magic, 1, 4)[1] = 4 /\ SubSeq(h, 1, 4)[1] = 120
    BY <1>1, <1>2, <2>1
  <2> QED
    BY <2>2, <2>3
<1>4. ~ IsPrefix(GzipMagic, h)
  <2> SUFFICES ASSUME IsPrefix(GzipMagic, h) PROVE FALSE
    OBVIOUS
  <2>1. GzipMagic = <<31, 139>> /\ Len(GzipMagic) = 2
    BY DEF GzipMagic
  <2>2. SubSeq(GzipMagic, 1, 2) = SubSeq(h, 1, 2)
    BY <2>1 DEF IsPrefix
  <2>3. SubSeq(GzipMagic, 1, 2)[1] = 31 /\ SubSeq(h, 1, 2)[1] = 120
    BY <1>1, <1>2, <2>1
  <2> QED
    BY <2>2, <2>3
<1>5. zlib_header(h)
  <2>1. 120 % 16 = 8 /\ 120 \div 16 <= 7 /\ (120 * 256 + flg) % 31 = 0
    OBVIOUS
  <2> QED
    BY <1>2, <2>1 DEF zlib_header
<1>6. detect_codec(h) = "Zlib"
  BY <1>2, <1>3, <1>4, <1>5 DEF detect_codec
<1> QED
  BY <1>1, <1>2, <1>6 DEF HeaderOf, NoGuess

LEMMA Lz4Header == HeaderOf("Lz4", Lz4Magic \o <<96, 64>>)
<1>1. PICK h : h = Lz4Magic \o <<96, 64>>
  OBVIOUS
<1>2. h \in Seq(Byte) /\ Len(h) = 6 /\ h[1] = 4 /\ h[2] = 34 /\ h[3] = 77 /\ h[4] = 24
  BY <1>1, Lz4Is
<1>3. IsPrefix(Lz4Magic, h)
  <2>1. Lz4Magic = <<4, 34, 77, 24>> /\ Len(Lz4Magic) = 4
    BY DEF Lz4Magic
  <2>2. SubSeq(Lz4Magic, 1, 4) = SubSeq(h, 1, 4)
    <3>1. PICK m : /\ m = Lz4Magic /\ m \in Seq(Byte) /\ Len(m) = 4
                   /\ m[1] = 4 /\ m[2] = 34 /\ m[3] = 77 /\ m[4] = 24
      <4>1. 4 \in Byte /\ 34 \in Byte /\ 77 \in Byte /\ 24 \in Byte
        BY DEF Byte
      <4>2. Lz4Magic \in Seq(Byte)
        BY <2>1, <4>1
      <4>3. Lz4Magic[1] = 4 /\ Lz4Magic[2] = 34 /\ Lz4Magic[3] = 77 /\ Lz4Magic[4] = 24
        BY <2>1
      <4> QED
        BY <2>1, <4>2, <4>3
    <3>2. SubSeq(m, 1, 4) = [i \in 1 .. 4 |-> m[i]]
      BY <3>1
    <3>3. SubSeq(h, 1, 4) = [i \in 1 .. 4 |-> h[i]]
      BY <1>2
    <3>4. \A i \in 1 .. 4 : m[i] = h[i]
      BY <1>2, <3>1
    <3> QED
      BY <3>1, <3>2, <3>3, <3>4
  <2> QED
    BY <1>2, <2>1, <2>2 DEF IsPrefix
<1> QED
  BY <1>1, <1>2, <1>3 DEF HeaderOf, NoGuess, detect_codec

LEMMA CodecsAre == DOMAIN Headers = {"Gzip", "Zlib", "Lz4"}
BY DEF Headers

\* Every header is one of these.
LEMMA HeadersAre ==
  ASSUME NEW by \in DOMAIN Headers, NEW h \in Headers[by]
  PROVE  /\ HeaderOf(by, h)
         /\ h[1] = 31 \/ h[1] = 120 \/ (h[1] = 4 /\ h[2] = 34 /\ h[3] = 77 /\ Len(h) = 6)
<1>1. CASE by = "Gzip"
  <2>1. h = GzipMagic \o <<8, 0>>
    BY <1>1 DEF Headers
  <2>2. h[1] = 31
    BY <2>1, GzipIs
  <2> QED
    BY <1>1, <2>1, <2>2, GzipHeader
<1>2. CASE by = "Zlib"
  <2>1. PICK flg \in {1, 94, 156, 218} : h = <<120, flg, 99, 0>>
    BY <1>2 DEF Headers
  <2>2. h[1] = 120
    BY <2>1
  <2> QED
    BY <1>2, <2>1, <2>2, ZlibHeader
<1>3. CASE by = "Lz4"
  <2>1. h = Lz4Magic \o <<96, 64>>
    BY <1>3 DEF Headers
  <2>2. h[1] = 4 /\ h[2] = 34 /\ h[3] = 77 /\ Len(h) = 6
    BY <2>1, Lz4Is
  <2> QED
    BY <1>3, <2>1, <2>2, Lz4Header
<1> QED
  BY <1>1, <1>2, <1>3, CodecsAre

\* What is left of one is taken for no document: it is none, or, of an Lz4
\* frame, a name that does not end.
LEMMA HeaderRefused ==
  ASSUME NEW by \in DOMAIN Headers, NEW h \in Headers[by], NEW in, Starts(in, h)
  PROVE  ~ decode_auto(in).ok
<1>1. in \in Seq(Byte) /\ Len(in) \in Nat /\ Len(in) <= Len(h)
  BY DEF Starts
<1>2. \/ h[1] = 31 \/ h[1] = 120
      \/ h[1] = 4 /\ h[2] = 34 /\ h[3] = 77 /\ Len(h) = 6
  BY HeadersAre
<1>3. CASE in = <<>>
  BY <1>3, NoGuessReads DEF detect_format
<1>4. CASE in # <<>>
  <2>1. 1 \in 1 .. Len(in)
    BY <1>1, <1>4
  <2>2. in[1] = h[1] /\ in[1] # 0
    BY <1>2, <2>1 DEF Starts
  <2>3. CASE in[1] \notin DOMAIN TagIds \/ Len(in) < 3
    BY <1>4, <2>2, <2>3, NoGuessReads DEF detect_format
  <2>4. CASE in[1] \in DOMAIN TagIds /\ Len(in) >= 3
    <3>1. h[1] = 4 /\ h[2] = 34 /\ h[3] = 77 /\ Len(h) = 6
      <4>1. h[1] \in 1 .. 12
        BY <2>2, <2>4, TagsAre
      <4> QED
        BY <1>2, <4>1
    <3>2. 2 \in 1 .. Len(in) /\ 3 \in 1 .. Len(in)
      BY <1>1, <2>4
    <3>3. in[2] = 34 /\ in[3] = 77
      BY <3>1, <3>2 DEF Starts
    <3>4. ~ (Len(in) >= 2 + in[2])
      BY <1>1, <3>1, <3>3
    <3>5. ~ (in[2] >= 128) /\ in[2] # 0 /\ ~ (Len(in) < 3)
      BY <1>1, <2>4, <3>3
    <3>6. detect_format(in) = "BedrockLittleEndian"
      BY <1>4, <2>2, <2>4, <3>4, <3>5 DEF detect_format
    <3> SUFFICES ASSUME decode_auto(in).ok PROVE FALSE
      OBVIOUS
    <3>7. decode_auto(in) = decode("BedrockLittleEndian", in, 0)
      BY <1>1, <3>6, AutoIs
    <3>8. Len(in) < 8192 /\ in[3] >= 32
      BY <1>1, <3>1, <3>3
    <3> QED
      BY <1>1, <2>2, <2>4, <3>7, <3>8, MisreadName
  <2> QED
    BY <1>1, <2>3, <2>4
<1> QED
  BY <1>3, <1>4

-----------------------------------------------------------------------------
(* The file of NbtFile.                                                    *)

\* What a file is the beginning of: the document itself, or a header of its codec.
Fronts(by, raw) == IF by = "None" THEN {raw} ELSE Headers[by]

\* The file is one of bytes.
IsFile(f) ==
  /\ f = File(f.in, f.by, f.raw, f.whole)
  /\ f.by \in {"None"} \cup DOMAIN Headers
  /\ f.in \in Seq(Byte) /\ f.raw \in Seq(Byte) /\ f.whole \in BOOLEAN

\* The file holds nv, packed, or the beginning of that.
Holds(d, nv, f) ==
  /\ nv \in Docs /\ f \in Formats
  /\ encode(f, nv).ok /\ d.raw = encode(f, nv).out
  /\ \E h \in Fronts(d.by, d.raw) :
       /\ Starts(d.in, h)
       /\ IF d.whole THEN d.in = h ELSE Len(d.in) < Len(h)

\* What is stored is the document last written; what was answered, read from it.
FileInv ==
  /\ IsFile(disk)
  /\ wrote = Nothing => disk.whole /\ disk.in = <<>>
  /\ wrote # Nothing =>
       wrote = <<wrote[1], wrote[2]>> /\ Holds(disk, wrote[1], wrote[2])
  /\ answer = Nothing \/ answer = <<read_nbt_file(disk)>>

\* The documents of Docs, in the terms of the lemmas above.
LEMMA DocIs ==
  ASSUME NEW nv \in Docs
  PROVE  nv = <<nv[1], nv[2]>> /\ nv[1] \in ByteStrings /\ nv[2] \in Values(kMaxDecodeDepth)
BY DocsAssumption

LEMMA FrontsAre ==
  ASSUME NEW by \in {"None"} \cup DOMAIN Headers, NEW raw \in Seq(Byte),
         NEW h \in Fronts(by, raw)
  PROVE  h \in Seq(Byte) /\ Len(h) \in Nat
<1>1. CASE by = "None"
  BY <1>1 DEF Fronts
<1>2. CASE by # "None"
  BY <1>2, HeadersAre DEF Fronts, HeaderOf
<1> QED
  BY <1>1, <1>2

LEMMA InitFile == FileInit => FileInv
<1> SUFFICES ASSUME FileInit PROVE FileInv
  OBVIOUS
<1>1. PICK e \in Seq(Byte) : e = <<>>
  <2>1. <<>> \in Seq(Byte)
    OBVIOUS
  <2> QED
    BY <2>1
<1>2. disk = File(e, "None", e, TRUE) /\ wrote = Nothing /\ answer = Nothing
  BY <1>1 DEF FileInit
<1>3. disk.in = e /\ disk.by = "None" /\ disk.raw = e /\ disk.whole = TRUE
  BY <1>2 DEF File
<1>4. IsFile(disk)
  BY <1>2, <1>3 DEF IsFile
<1> QED
  BY <1>1, <1>2, <1>3, <1>4 DEF FileInv

LEMMA WriteFile ==
  ASSUME FileInv, NEW nv \in Docs, NEW f \in Formats,
         NEW codec \in {"None"} \cup DOMAIN Headers, WriteNbtFile(nv, f, codec)
  PROVE  FileInv'
<1>1. PICK o : o = encode(f, nv) /\ o.ok
  BY DEF WriteNbtFile
<1>2. PICK h \in Fronts(codec, o.out) : disk' = File(h, codec, o.out, TRUE)
  BY <1>1, Zenon DEF WriteNbtFile, Fronts
<1>3. wrote' = <<nv, f>> /\ answer' = Nothing
  BY DEF WriteNbtFile
<1>4. o.out \in Seq(Byte)
  <2>1. kMaxDecodeDepth \in Nat
    BY DepthAssumption
  <2> QED
    BY <1>1, <2>1, DocIs, OutBytes
<1>5. h \in Seq(Byte) /\ Len(h) \in Nat
  BY <1>4, FrontsAre
<1>6. disk'.in = h /\ disk'.by = codec /\ disk'.raw = o.out /\ disk'.whole = TRUE
  BY <1>2 DEF File
<1>7. IsFile(disk')
  BY <1>2, <1>4, <1>5, <1>6 DEF IsFile
<1>8. Starts(h, h)
  BY <1>5 DEF Starts
<1>9. Holds(disk', nv, f)
  BY <1>1, <1>6, <1>8 DEF Holds
<1>10. wrote' # Nothing /\ wrote'[1] = nv /\ wrote'[2] = f /\ wrote' = <<wrote'[1], wrote'[2]>>
  BY <1>3 DEF Nothing
<1> QED
  BY <1>3, <1>7, <1>9, <1>10 DEF FileInv

LEMMA CutFile ==
  ASSUME FileInv, NEW n \in Depths, LoseEnd(n)
  PROVE  FileInv'
<1>1. n \in Nat
  BY DocsAssumption
<1>2. disk.whole /\ n < Len(disk.in) /\ answer' = Nothing /\ wrote' = wrote
  BY DEF LoseEnd
<1>3. PICK b, k, o : /\ disk = File(b, k, o, TRUE)
                     /\ b = disk.in /\ k = disk.by /\ o = disk.raw
                     /\ k \in {"None"} \cup DOMAIN Headers
                     /\ b \in Seq(Byte) /\ o \in Seq(Byte)
  <2>1. disk = File(disk.in, disk.by, disk.raw, disk.whole) /\ disk.whole = TRUE
    BY <1>2 DEF FileInv, IsFile
  <2> QED
    BY <2>1 DEF FileInv, IsFile
<1>4. PICK c : c = SubSeq(b, 1, n)
  OBVIOUS
<1>5. disk' = File(c, k, o, FALSE)
  <2>1. disk' = [disk EXCEPT !.in = c, !.whole = FALSE]
    BY <1>3, <1>4 DEF LoseEnd
  <2> QED
    BY <1>3, <2>1, Zenon DEF File
<1>6. disk'.in = c /\ disk'.by = k /\ disk'.raw = o /\ disk'.whole = FALSE
  BY <1>5 DEF File
<1>7. n < Len(b) /\ Len(b) \in Nat
  <2>1. n < Len(b)
    BY <1>2, <1>3
  <2>2. Len(b) \in Nat
    <3>1. b \in Seq(Byte)
      BY <1>3
    <3> QED
      BY <3>1
  <2> QED
    BY <2>1, <2>2
<1>8. c \in Seq(Byte) /\ Len(c) = n /\ \A i \in 1 .. n : c[i] = b[i]
  <2>1. 0 \in Nat /\ 0 + n <= Len(b) /\ c = SubSeq(b, 0 + 1, 0 + n)
    BY <1>1, <1>4, <1>7
  <2>2. SliceOf(b, 0, n, c)
    BY <1>1, <1>3, <2>1, SlicedAt
  <2>3. \A i \in 1 .. n : 0 + i = i
    OBVIOUS
  <2> QED
    BY <2>2, <2>3 DEF SliceOf
<1>9. IsFile(disk')
  BY <1>3, <1>5, <1>6, <1>8 DEF IsFile
<1>10. wrote # Nothing
  <2>1. b # <<>>
    BY <1>1, <1>7
  <2> QED
    BY <1>3, <2>1 DEF FileInv
<1>11. PICK nv, f : wrote = <<nv, f>> /\ nv = wrote[1] /\ f = wrote[2] /\ Holds(disk, nv, f)
  BY <1>10 DEF FileInv
<1>12. b \in Fronts(k, o)
  BY <1>2, <1>3, <1>11 DEF Holds
<1>13. Starts(c, b) /\ Len(c) < Len(b)
  BY <1>1, <1>7, <1>8 DEF Starts
<1>14. Holds(disk', nv, f)
  BY <1>3, <1>6, <1>11, <1>12, <1>13 DEF Holds
<1> QED
  BY <1>2, <1>9, <1>10, <1>11, <1>14 DEF FileInv

LEMMA NextFile == FileInv /\ [FileNext]_fileVars => FileInv'
<1> SUFFICES ASSUME FileInv, [FileNext]_fileVars PROVE FileInv'
  OBVIOUS
<1>1. ASSUME NEW nv \in Docs, NEW f \in Formats, NEW codec \in {"None"} \cup DOMAIN Headers,
             WriteNbtFile(nv, f, codec)
      PROVE  FileInv'
  BY <1>1, WriteFile
<1>2. ASSUME NEW n \in Depths, LoseEnd(n) PROVE FileInv'
  BY <1>2, CutFile
<1>3. CASE ReadNbtFile
  <2>1. disk' = disk /\ wrote' = wrote /\ answer' = <<read_nbt_file(disk)>>
    BY <1>3 DEF ReadNbtFile
  <2> QED
    BY <2>1 DEF FileInv
<1>4. CASE UNCHANGED fileVars
  BY <1>4 DEF FileInv, fileVars
<1> QED
  BY <1>1, <1>2, <1>3, <1>4 DEF FileNext

LEMMA AlwaysFile == FileSpec => []FileInv
<1>1. FileInit => FileInv
  BY InitFile
<1>2. FileInv /\ [FileNext]_fileVars => FileInv'
  BY NextFile
<1> QED
  BY <1>1, <1>2, PTL DEF FileSpec

-----------------------------------------------------------------------------
(* What the file promises.                                                 *)

\* With ProperDocs, the documents are ones that encode, decode and back.
LEMMA DocProper ==
  ASSUME ProperDocs, NEW nv \in Docs
  PROVE  Proper(nv[2]) /\ Nested(nv[2])[kMaxDecodeDepth] = {}
<1>1. Nested(nv[2])[kMaxDecodeDepth] = {}
  BY DEF ProperDocs
<1> SUFFICES ASSUME NEW d \in Nat, d # 0 PROVE EndTag \notin Nested(nv[2])[d]
  BY <1>1 DEF Proper
<1>2. kMaxDecodeDepth \in Nat
  BY DepthAssumption
<1>3. CASE d <= kMaxDecodeDepth
  <2>1. d \in 1 .. kMaxDecodeDepth
    BY <1>2, <1>3
  <2> QED
    BY <2>1 DEF ProperDocs
<1>4. CASE ~ (d <= kMaxDecodeDepth)
  <2>1. Nested(nv[2])[kMaxDecodeDepth + 1] = {}
    <3>1. Nested(nv[2])[kMaxDecodeDepth + 1] = UNION {Below(x) : x \in Nested(nv[2])[kMaxDecodeDepth]}
      BY <1>2, NestedAre
    <3> QED
      BY <1>1, <3>1
  <2>2. d >= kMaxDecodeDepth + 1
    BY <1>2, <1>4
  <2> QED
    BY <1>2, <2>1, <2>2, NestedEnds
<1> QED
  BY <1>3, <1>4

\* A whole file is read as what was written to it.
LEMMA FileReads ==
  ASSUME ProperDocs, NEW d, IsFile(d), d.whole, NEW nv, NEW f, Holds(d, nv, f),
         Detectable(nv, f)
  PROVE  read_nbt_file(d).ok /\ read_nbt_file(d).v = Stored(nv)
<1>1. nv \in Docs /\ f \in Formats /\ encode(f, nv).ok /\ d.raw = encode(f, nv).out
  BY DEF Holds
<1>2. PICK name \in ByteStrings, v \in Values(kMaxDecodeDepth) : nv = <<name, v>> /\ v = nv[2]
  BY <1>1, DocIs
<1>3. PICK o : o = encode(f, nv) /\ o.ok /\ d.raw = o.out
  BY <1>1
<1>4. ReadAs(o.out, nv)
  <2>1. kMaxDecodeDepth \in Nat
    BY DepthAssumption
  <2>2. Proper(v) /\ Nested(v)[kMaxDecodeDepth] = {}
    BY <1>1, <1>2, DocProper
  <2>3. Detectable(<<name, v>>, f) /\ o = encode(f, <<name, v>>)
    BY <1>2, <1>3
  <2>4. ReadAs(o.out, <<name, v>>)
    BY <1>1, <1>3, <2>1, <2>2, <2>3, WholeReads
  <2> QED
    BY <1>2, <2>4
<1>5. d.in \in Fronts(d.by, d.raw)
  BY DEF Holds
<1>6. decompress(d) = Ok(d.raw, 0)
  <2>1. CASE d.by = "None"
    <3>1. d.in = o.out
      BY <1>3, <1>5, <2>1 DEF Fronts
    <3> QED
      BY <1>3, <1>4, <3>1 DEF decompress, ReadAs
  <2>2. CASE d.by # "None"
    <3>1. d.by \in DOMAIN Headers /\ d.in \in Headers[d.by]
      BY <1>5, <2>2 DEF IsFile, Fronts
    <3>2. detect_codec(d.in) = d.by /\ d.by # NoGuess
      BY <3>1, HeadersAre DEF HeaderOf
    <3> QED
      BY <3>2 DEF decompress
  <2> QED
    BY <2>1, <2>2
<1>7. read_nbt_file(d) = decode_auto(o.out)
  BY <1>3, <1>6, OkIs DEF read_nbt_file, Then
<1> QED
  BY <1>4, <1>7 DEF ReadAs

\* One that lost its end is not read.
LEMMA CutUnread ==
  ASSUME ProperDocs, NEW d, IsFile(d), ~ d.whole, NEW nv, NEW f, Holds(d, nv, f),
         Detectable(nv, f)
  PROVE  ~ read_nbt_file(d).ok
<1>1. nv \in Docs /\ f \in Formats /\ encode(f, nv).ok /\ d.raw = encode(f, nv).out
  BY DEF Holds
<1>2. PICK name \in ByteStrings, v \in Values(kMaxDecodeDepth) : nv = <<name, v>> /\ v = nv[2]
  BY <1>1, DocIs
<1>3. PICK o : o = encode(f, nv) /\ o.ok /\ d.raw = o.out
  BY <1>1
<1>4. PICK h \in Fronts(d.by, d.raw) : Starts(d.in, h) /\ Len(d.in) < Len(h)
  BY DEF Holds
<1>5. ~ decode_auto(d.in).ok
  <2>1. CASE d.by = "None"
    <3>1. h = o.out
      BY <1>3, <1>4, <2>1 DEF Fronts
    <3>2. kMaxDecodeDepth \in Nat
      BY DepthAssumption
    <3>3. Proper(v)
      BY <1>1, <1>2, DocProper
    <3>4. Detectable(<<name, v>>, f) /\ o = encode(f, <<name, v>>)
      BY <1>2, <1>3
    <3>5. PICK c : c = d.in /\ Starts(c, o.out) /\ Len(c) < Len(o.out)
      BY <1>4, <3>1
    <3> QED
      BY <1>1, <1>3, <3>2, <3>3, <3>4, <3>5, CutRefused
  <2>2. CASE d.by # "None"
    <3>1. d.by \in DOMAIN Headers /\ h \in Headers[d.by]
      BY <1>4, <2>2 DEF IsFile, Fronts
    <3> QED
      BY <1>4, <3>1, HeaderRefused
  <2> QED
    BY <2>1, <2>2
<1>6. CASE detect_codec(d.in) = NoGuess
  <2>1. decompress(d) = Ok(d.in, 0)
    BY <1>6 DEF decompress
  <2>2. read_nbt_file(d) = decode_auto(d.in)
    BY <2>1, OkIs DEF read_nbt_file, Then
  <2> QED
    BY <1>5, <2>2
<1>7. CASE detect_codec(d.in) # NoGuess
  <2>1. decompress(d) = Err("DecompressionFailed", 0)
    BY <1>7 DEF decompress
  <2>2. read_nbt_file(d) = Err("DecompressionFailed", 0)
    BY <2>1, ErrIs DEF read_nbt_file, Then
  <2> QED
    BY <2>2, ErrIs
<1> QED
  BY <1>6, <1>7

\* Where reading stops.
LEMMA ReadEnds ==
  ASSUME NEW d, IsFile(d)
  PROVE  read_nbt_file(d).pos \in 0 .. (Len(d.raw) + Len(d.in))
<1>1. d.in \in Seq(Byte) /\ d.raw \in Seq(Byte)
  BY DEF IsFile
<1>2. PICK m \in Nat, n \in Nat : m = Len(d.raw) /\ n = Len(d.in)
  BY <1>1
<1>3. decode_auto(d.in).pos \in 0 .. n /\ decode_auto(d.raw).pos \in 0 .. m
  BY <1>1, <1>2, AutoIs
<1>4. \/ decompress(d) = Ok(d.in, 0) \/ decompress(d) = Ok(d.raw, 0)
      \/ decompress(d) = Err("DecompressionFailed", 0)
  BY DEF decompress
<1>5. \/ read_nbt_file(d) = decode_auto(d.in) \/ read_nbt_file(d) = decode_auto(d.raw)
      \/ read_nbt_file(d) = Err("DecompressionFailed", 0)
  BY <1>4, OkIs, ErrIs DEF read_nbt_file, Then
<1>6. read_nbt_file(d).pos \in 0 .. n \/ read_nbt_file(d).pos \in 0 .. m
  <2>1. Err("DecompressionFailed", 0).pos \in 0 .. n
    BY <1>2, ErrIs
  <2> QED
    BY <1>3, <1>5, <2>1
<1>7. PICK x : x = read_nbt_file(d).pos
  OBVIOUS
<1>8. x \in 0 .. (m + n)
  <2>1. x \in 0 .. n \/ x \in 0 .. m
    BY <1>6, <1>7
  <2>2. m \in Nat /\ n \in Nat
    OBVIOUS
  <2> QED
    BY <2>1, <2>2
<1> QED
  BY <1>2, <1>7, <1>8

\* read_nbt_file gives back the document that write_nbt_file was given, whatever
\* the dialect and the codec, when detection is made for it.
THEOREM FilesReadBack ==
  ASSUME ProperDocs
  PROVE  FileSpec => []ReadsBack
<1>1. FileInv => ReadsBack
  <2> SUFFICES ASSUME FileInv, Known, disk.whole, answer # Nothing
               PROVE  answer[1].ok /\ answer[1].v = Stored(wrote[1])
    BY DEF ReadsBack
  <2>1. IsFile(disk) /\ answer = <<read_nbt_file(disk)>> /\ Holds(disk, wrote[1], wrote[2])
        /\ Detectable(wrote[1], wrote[2])
    BY DEF FileInv, Known, Written
  <2>2. read_nbt_file(disk).ok /\ read_nbt_file(disk).v = Stored(wrote[1])
    BY <2>1, FileReads
  <2> QED
    BY <2>1, <2>2
<1> QED
  BY <1>1, AlwaysFile, PTL

\* What is left of a document is not read, and the calls that guess agree with
\* the ones that are told.
THEOREM GuessesAlwaysAgree ==
  ASSUME ProperDocs
  PROVE  FileSpec => []GuessesAgree
<1>1. FileInv => GuessesAgree
  <2> SUFFICES ASSUME FileInv PROVE FileTypeOK /\ CutIsRefused /\ AutoAgrees
    BY DEF GuessesAgree
  <2>1. IsFile(disk) /\ (answer # Nothing => answer = <<read_nbt_file(disk)>>)
    BY DEF FileInv
  <2>2. FileTypeOK
    <3>1. answer # Nothing => answer[1].pos \in 0 .. (Len(disk.raw) + Len(disk.in))
      <4>1. PICK x : x = read_nbt_file(disk) /\ x.pos \in 0 .. (Len(disk.raw) + Len(disk.in))
        BY <2>1, ReadEnds
      <4>2. answer # Nothing => answer[1] = x
        BY <2>1, <4>1
      <4> QED
        BY <4>1, <4>2
    <3>2. disk.by \in {"None"} \cup DOMAIN Headers /\ disk.in \in Seq(Byte)
      BY <2>1 DEF IsFile
    <3>3. \A i \in DOMAIN disk.in : disk.in[i] \in Byte
      BY <3>2
    <3> QED
      BY <3>1, <3>2, <3>3, Zenon DEF FileTypeOK
  <2>3. CutIsRefused
    <3> SUFFICES ASSUME Known, ~ disk.whole, answer # Nothing PROVE ~ answer[1].ok
      BY DEF CutIsRefused
    <3>1. Holds(disk, wrote[1], wrote[2]) /\ Detectable(wrote[1], wrote[2])
      BY DEF FileInv, Known, Written
    <3>2. ~ read_nbt_file(disk).ok
      BY <2>1, <3>1, CutUnread
    <3> QED
      BY <2>1, <3>2
  <2>4. AutoAgrees
    <3>1. PICK b \in Seq(Byte) : b = disk.raw
      BY <2>1 DEF IsFile
    <3>2. PICK d, s : d = decode_auto(b) /\ s = skip_auto(b)
      OBVIOUS
    <3>3. Alike(detect_format(b), d, s)
      BY <3>2, AutoIs
    <3>4. ASSUME d.ok, NEW kind
          PROVE  skip_expect(detect_format(b), b, kind).ok = (kind = d.v[2][1])
      BY <3>2, <3>4, ExpectIs
    <3> QED
      BY <3>1, <3>2, <3>3, <3>4 DEF AutoAgrees
  <2> QED
    BY <2>2, <2>3, <2>4
<1> QED
  BY <1>1, AlwaysFile, PTL

=============================================================================
