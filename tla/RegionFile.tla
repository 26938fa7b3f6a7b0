----------------------------- MODULE RegionFile -----------------------------
(***************************************************************************)
(* A Region and the file it is opened from and saved to: Region::open,     *)
(* edits, Region::save (save_to_bytes, then write_file on the result) and  *)
(* a process that may die at any step.  write_file is FileIo's, seen from  *)
(* the region: the file is some of the first bytes of the image being      *)
(* written.  Reads of chunks change the cache only and are left to Region. *)
(*                                                                         *)
(* A definition whose name extends that of the next one is that one with a *)
(* slip in it, and is not used.                                            *)
(***************************************************************************)
EXTENDS Region

CONSTANTS
  Cuts,         \* bound: the byte counts at which a write may be cut off
  kTail         \* the most bytes that wait in the stream's own buffer

VARIABLES
  file,         \* the path: is there a file, of which image, how much of it
  io,           \* save after save_to_bytes: idle, open, write, close
  answer,       \* what the last save answered, none after an edit
  up            \* the process runs

fileVars == <<file, io, answer, up>>
allVars == <<bytes, cache, overrides, views, packing, saved,
             file, io, answer, up>>

ASSUME CutAssumption == Cuts \subseteq Nat /\ kTail \in Nat

\* What is at the path: the image's first n bytes.  Of a block that reaches
\* beyond them there is no payload left that could be told from another.
CutOff(o, block, n) ==
  IF o * kSector + BlockBytes(block) <= n THEN block
  ELSE [block EXCEPT !.data = [raw |-> Empty, by |-> block.data.by]]

Torn(f, n) ==
  [f EXCEPT !.size = n,
            !.at = [o \in DOMAIN f.at |-> CutOff(o, f.at[o], n)]]

OnFile == Torn(file.image, file.size)

-----------------------------------------------------------------------------
(* Edits and save_to_bytes, as in Region.                                  *)

Edit(A) ==
  /\ up /\ io = "idle"
  /\ A
  /\ answer' = "none"
  /\ UNCHANGED <<file, io, up>>

FileWriteChunk == \E c \in Coords, w \in Writes :
                    Edit(WriteChunkBytes(c, w[1], w[2], w[3]))
FileRemoveChunk == \E c \in Coords : Edit(RemoveChunk(c))

FileSaveBegin == Edit(SaveBegin)

Pack == (SaveSkip \/ SaveAppend) /\ UNCHANGED fileVars

\* save_to_bytes answers an error, and the file is not even opened.
SaveRefused ==
  /\ SaveFail
  /\ answer' = "refused"
  /\ UNCHANGED <<file, io, up>>

SavePacked ==
  /\ SaveDone
  /\ io' = "open"
  /\ UNCHANGED <<file, answer, up>>

-----------------------------------------------------------------------------
(* write_file(path, saved.file).                                           *)

Returns(a) == io' = "idle" /\ answer' = a /\ UNCHANGED <<file, up>>

\* save's own buffer does not outlive the call.
DropBuffer ==
  /\ saved' = NotSaved
  /\ UNCHANGED <<bytes, cache, overrides, views, packing>>

CannotOpen ==
  /\ io = "open"
  /\ Returns("Io")
  /\ DropBuffer

OpenTruncate ==
  /\ io = "open"
  /\ file' = [some |-> TRUE, image |-> saved.file, size |-> 0]
  /\ io' = "write"
  /\ UNCHANGED <<answer, up>>
  /\ DropBuffer

\* Bytes reach the file in order, up to the n-th.
PutBytes(n) ==
  /\ io \in {"write", "close"}
  /\ file.size < n /\ n <= file.image.size
  /\ file' = [file EXCEPT !.size = n]
  /\ UNCHANGED <<io, answer, up>>
  /\ UNCHANGED vars

PutSome == \E n \in Cuts : PutBytes(n)
PutAll == PutBytes(file.image.size)

WriteFails ==
  /\ io = "write" /\ file.size < file.image.size
  /\ Returns("Io")
  /\ UNCHANGED vars

WriteChecked ==
  /\ io = "write" /\ file.image.size - file.size <= kTail
  /\ io' = "close"
  /\ UNCHANGED <<file, answer, up>>
  /\ UNCHANGED vars

CloseFlushed ==
  /\ io = "close" /\ file.size = file.image.size
  /\ Returns("Ok")
  /\ UNCHANGED vars

\* The destructor's flush fails, and the answer is Ok all the same.
CloseFails ==
  /\ io = "close" /\ file.size < file.image.size
  /\ Returns("Ok")
  /\ UNCHANGED vars

-----------------------------------------------------------------------------
(* The process ends, in the middle of a save or not, and starts again.     *)

Unloaded ==
  /\ bytes' = EmptyFile
  /\ cache' = [s \in Slots |-> Empty]
  /\ overrides' = [s \in Slots |-> NoOverride]
  /\ views' = {}
  /\ packing' = NotSaving
  /\ saved' = NotSaved

Crash ==
  /\ up
  /\ Unloaded
  /\ up' = FALSE /\ io' = "idle" /\ answer' = "none"
  /\ UNCHANGED file

OpenPath ==
  /\ ~ up
  /\ file.some /\ file.size >= kHeaderBytes
  /\ up' = TRUE
  /\ bytes' = OnFile
  /\ UNCHANGED <<cache, overrides, views, packing, saved>>
  /\ UNCHANGED <<file, io, answer>>

\* Region::create, which callers use where open answers Io (no file) or
\* RegionInvalidHeader (less than the tables).
CreateRegion ==
  /\ ~ up
  /\ ~ file.some \/ file.size < kHeaderBytes
  /\ up' = TRUE
  /\ UNCHANGED vars
  /\ UNCHANGED <<file, io, answer>>

FileInit ==
  /\ Loaded(EmptyFile)
  /\ packing = NotSaving
  /\ saved = NotSaved
  /\ \/ file = [some |-> FALSE, image |-> EmptyFile, size |-> 0]
     \/ \E f \in Files : file = [some |-> TRUE, image |-> f, size |-> f.size]
  /\ io = "idle" /\ answer = "none" /\ up = FALSE

FileNext ==
  \/ FileWriteChunk \/ FileRemoveChunk \/ FileSaveBegin
  \/ Pack \/ SaveRefused \/ SavePacked
  \/ CannotOpen \/ OpenTruncate \/ PutSome \/ PutAll
  \/ WriteFails \/ WriteChecked \/ CloseFlushed \/ CloseFails
  \/ Crash \/ OpenPath \/ CreateRegion

FileSpec == FileInit /\ [][FileNext]_allVars

-----------------------------------------------------------------------------
(* Properties.                                                             *)

FileTypeOK ==
  /\ TypeOK
  /\ file = [some |-> file.some, image |-> file.image, size |-> file.size]
  /\ file.some \in BOOLEAN
  /\ IsImage(file.image)
  /\ file.size \in 0 .. file.image.size
  /\ io \in {"idle", "open", "write", "close"}
  /\ answer \in {"none", "Ok", "Io", "refused"}
  /\ up \in BOOLEAN

\* Wherever a crash, a full disk or a failed flush cuts a save off, a file
\* whose header still opens has every chunk that was saved, and a read of it
\* is either the chunk's own payload or refused: never another chunk's, never
\* half of one.
TornFileSafe ==
  file.some /\ file.size >= kHeaderBytes =>
    \A s \in Slots :
      /\ Populated(OnFile, s) = Populated(file.image, s)
      /\ read_original(OnFile, s)
           \in {read_original(file.image, s), "RegionInvalidChunk"}

\* A cut loses chunks from the end: where a later slot's block is whole, so
\* is every earlier one's.
LostFromTheEnd ==
  file.some /\ kHeaderBytes <= file.size /\ file.size < file.image.size =>
    \A s, t \in {i \in Slots : Populated(file.image, i)} :
      s < t /\ HeaderInside(OnFile, t, 5) /\ Whole(OnFile, t)
        => HeaderInside(OnFile, s, 5) /\ Whole(OnFile, s)

\* After a save that answered Ok (and whose last bytes the flush did not
\* lose), and until the next edit, opening the path gives the Region's own
\* chunks and timestamps.
SavedIsRegion ==
  up /\ answer = "Ok" /\ file.size = file.image.size =>
    OnDisk(OnFile) = Contents

=============================================================================
