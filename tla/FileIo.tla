------------------------------- MODULE FileIo -------------------------------
(***************************************************************************)
(* read_file and write_file of io.cpp on one path.  The library locks      *)
(* nothing: a writer (with its process, which may die) and a reader, which *)
(* may be another program, interleave at the system calls that the streams *)
(* of the C++ library make.                                                *)
(*                                                                         *)
(* Byte strings are sequences of cells, a cell being what one system call  *)
(* moves.  Zero is the cell of a buffer that was allocated and never       *)
(* filled.  A definition whose name extends that of the next one is that   *)
(* one with a slip in it, and is not used.                                 *)
(***************************************************************************)
EXTENDS Integers, SequencesExt

CONSTANTS
  Cells,        \* the cells callers write
  Buffers,      \* the byte strings passed to write_file
  Zero,         \* a value-initialised cell of read_file's vector
  NoFile,       \* there is no file at the path
  kBuffer       \* the most cells that wait in the stream's own buffer

ASSUME FileAssumption ==
  /\ Buffers \subseteq Seq(Cells)
  /\ Zero \notin Cells
  /\ NoFile \notin Seq(Cells)
  /\ kBuffer \in Nat

VARIABLES
  dir,          \* the parent directory exists
  file,         \* the cells at the path, or NoFile
  w,            \* write_file: where it is, its argument, its last answer
  r,            \* read_file: where it is, tellg's size, the cells so far
  during        \* the contents the file has had since the reader opened it

vars == <<dir, file, w, r, during>>

Init ==
  /\ dir \in BOOLEAN
  /\ file \in {NoFile} \cup (IF dir THEN Buffers ELSE {})
  /\ w = [pc |-> "idle", bytes |-> <<>>, answer |-> "none"]
  /\ r = [pc |-> "idle", size |-> 0, got |-> <<>>]
  /\ during = {}

-----------------------------------------------------------------------------
(* write_file.                                                             *)

\* A step of the writer that makes the file f.
Becomes(f) ==
  /\ file' = f
  /\ during' = IF r.pc = "reading" THEN during \cup {f} ELSE during
  /\ UNCHANGED <<dir, r>>

WriteCall(b) ==
  /\ w.pc = "idle"
  /\ w' = [pc |-> "mkdir", bytes |-> b, answer |-> "none"]
  /\ UNCHANGED <<dir, file, r, during>>

WriteAnswers(answer) ==
  w' = [w EXCEPT !.pc = "idle", !.answer = answer]

\* create_directories does nothing when the directory is there.
CreateDirectories ==
  /\ w.pc = "mkdir"
  /\ dir' = TRUE
  /\ w' = [w EXCEPT !.pc = "open"]
  /\ UNCHANGED <<file, r, during>>

\* Nothing has been touched when the directory or the file is refused.
CannotWrite ==
  /\ \/ w.pc = "mkdir" /\ ~ dir
     \/ w.pc = "open"
  /\ WriteAnswers("Io")
  /\ UNCHANGED <<dir, file, r, during>>

\* std::ios::trunc: the old contents are gone before the first byte is put.
OpenTruncate ==
  /\ w.pc = "open"
  /\ w' = [w EXCEPT !.pc = "write"]
  /\ Becomes(<<>>)

\* A system call of f.write, of the destructor's flush, or of neither's: the
\* stream decides when its buffer is full.
PutCell ==
  /\ w.pc \in {"write", "close"}
  /\ Len(file) < Len(w.bytes)
  /\ Becomes(Append(file, w.bytes[Len(file) + 1]))
  /\ UNCHANGED w

WriteFailsUnseen ==
  /\ w.pc = "write"
  /\ Len(file) < Len(w.bytes)
  /\ w' = [w EXCEPT !.pc = "close"]
  /\ UNCHANGED <<dir, file, r, during>>
\* The disk is full: f.write sets badbit and the check after it answers Io.
WriteFails ==
  /\ w.pc = "write"
  /\ Len(file) < Len(w.bytes)
  /\ WriteAnswers("Io")
  /\ UNCHANGED <<dir, file, r, during>>

\* f.write has taken everything; the last cells may still be in the buffer.
WriteChecked ==
  /\ w.pc = "write"
  /\ Len(w.bytes) - Len(file) <= kBuffer
  /\ w' = [w EXCEPT !.pc = "close"]
  /\ UNCHANGED <<dir, file, r, during>>

\* `return {}`, then f's destructor flushes, whose failure nobody sees.
CloseFlushed ==
  /\ w.pc = "close"
  /\ file = w.bytes
  /\ WriteAnswers("Ok")
  /\ UNCHANGED <<dir, file, r, during>>

CloseFails ==
  /\ w.pc = "close"
  /\ Len(file) < Len(w.bytes)
  /\ WriteAnswers("Ok")
  /\ UNCHANGED <<dir, file, r, during>>

\* The writing process dies, and what its stream still held dies with it.
Crash ==
  /\ w.pc # "idle"
  /\ WriteAnswers("crashed")
  /\ UNCHANGED <<dir, file, r, during>>

\* The steps a call takes when nothing goes wrong.
WriteStep ==
  CreateDirectories \/ OpenTruncate \/ PutCell \/ WriteChecked \/ CloseFlushed

-----------------------------------------------------------------------------
(* read_file (Region::open begins with the same code).                     *)

ReadCall ==
  /\ r.pc # "reading"
  /\ IF file = NoFile
     THEN /\ r' = [pc |-> "Io", size |-> 0, got |-> <<>>]
          /\ during' = {}
     ELSE /\ r' = [pc |-> "reading", size |-> Len(file), got |-> <<>>]
          /\ during' = {file}
  /\ UNCHANGED <<dir, file, w>>

TakeCell ==
  /\ r.pc = "reading"
  /\ Len(r.got) < r.size /\ Len(r.got) < Len(file)
  /\ r' = [r EXCEPT !.got = Append(r.got, file[Len(r.got) + 1])]
  /\ UNCHANGED <<dir, file, w, during>>

\* The file ended before `n` bytes: `!f` but `f.eof()`, which is no error, and
\* the rest of the vector keeps the zeros it was made of.
TakeEofResumes ==
  /\ r.pc = "reading"
  /\ Len(r.got) < r.size /\ Len(r.got) >= Len(file)
  /\ r' = [r EXCEPT !.got = Append(r.got, Zero)]
  /\ UNCHANGED <<dir, file, w, during>>
TakeEofRetries ==
  /\ r.pc = "reading"
  /\ Len(r.got) < r.size /\ Len(r.got) >= Len(file)
  /\ UNCHANGED vars
TakeEofUnsought ==
  /\ r.pc = "reading"
  /\ Len(r.got) < r.size
  /\ r' = [r EXCEPT !.pc = "Ok", !.got = [i \in 1 .. r.size |-> Zero]]
  /\ UNCHANGED <<dir, file, w, during>>
TakeEof ==
  /\ r.pc = "reading"
  /\ Len(r.got) < r.size /\ Len(r.got) >= Len(file)
  /\ r' = [r EXCEPT !.pc = "Ok",
                    !.got = [i \in 1 .. r.size |->
                               IF i <= Len(r.got) THEN r.got[i] ELSE Zero]]
  /\ UNCHANGED <<dir, file, w, during>>

ReadReturns ==
  /\ r.pc = "reading"
  /\ Len(r.got) = r.size
  /\ r' = [r EXCEPT !.pc = "Ok"]
  /\ UNCHANGED <<dir, file, w, during>>

\* tellg or read reports an error.
ReadFails ==
  /\ r.pc = "reading"
  /\ r' = [r EXCEPT !.pc = "Io"]
  /\ UNCHANGED <<dir, file, w, during>>

ReadStep == TakeCell \/ TakeEof \/ ReadReturns

Next ==
  \/ \E b \in Buffers : WriteCall(b)
  \/ CreateDirectories \/ CannotWrite \/ OpenTruncate \/ PutCell
  \/ WriteFails \/ WriteChecked \/ CloseFlushed \/ CloseFails
  \/ Crash
  \/ ReadCall \/ TakeCell \/ TakeEof \/ ReadReturns \/ ReadFails

Spec == Init /\ [][Next]_vars

\* Both calls are straight-line code: one that has begun goes on, and needs no
\* error to come to its end.
FairSpec == Spec /\ WF_vars(WriteStep) /\ WF_vars(ReadStep)

-----------------------------------------------------------------------------
(* Properties.                                                             *)

TypeOK ==
  /\ dir \in BOOLEAN
  /\ file \in Seq(Cells) \cup {NoFile}
  /\ w \in [pc : {"idle", "mkdir", "open", "write", "close"}, bytes : Seq(Cells),
            answer : {"none", "Ok", "Io", "crashed"}]
  /\ r \in [pc : {"idle", "reading", "Ok", "Io"}, size : Nat,
            got : Seq(Cells \cup {Zero})]
  /\ during \subseteq Seq(Cells)

\* An error that f.write meets is never reported as success: after Ok the file
\* is the bytes that were passed, but for at most a stream buffer of their end.
OkMeansAlmostWritten ==
  w.pc = "idle" /\ w.answer = "Ok" =>
    /\ IsPrefix(file, w.bytes)
    /\ Len(w.bytes) - Len(file) <= kBuffer

\* A read that no write touched returns the file, whole, even when the file
\* is what a crash or a failed write left.
QuietReadExact == r.pc = "Ok" /\ Cardinality(during) = 1 => during = {r.got}

\* A read answers with the number of bytes there were when it was opened, each
\* of them one the file had at that place at some time during the read; when
\* the file shrinks under it there are zeros instead, but only at the end.
OverlappedRead ==
  r.pc = "Ok" =>
    /\ \E f \in during : Len(f) = Len(r.got)
    /\ \A i \in DOMAIN r.got : r.got[i] # Zero =>
         /\ \E f \in during : i <= Len(f) /\ f[i] = r.got[i]
         /\ \A j \in 1 .. i : r.got[j] # Zero

\* Both calls return, however they are interleaved.
CallsReturn ==
  /\ (w.pc # "idle") ~> (w.pc = "idle")
  /\ (r.pc = "reading") ~> (r.pc # "reading")

-----------------------------------------------------------------------------
(* What a doc or a comment says and the code does not do: not invariants.  *)

\* "write_file + read_file round-trip bytes" (tests/unit/test_io.cpp:45-58):
\* once write_file has answered Ok the file is what was passed.
OkMeansWritten ==
  w.pc = "idle" /\ w.answer = "Ok" => file = w.bytes

\* "Each call performs one filesystem operation" (io.hpp:19-20): what a read
\* returns is what was in the file at one time.
ReadIsOneVersion == r.pc = "Ok" => r.got \in during

=============================================================================
