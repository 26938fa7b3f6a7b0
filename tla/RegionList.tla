----------------------------- MODULE RegionList -----------------------------
(***************************************************************************)
(* nbt-cli region-list: it opens a region file and prints one line for     *)
(* each populated slot, row by row, which is the order of the indices: the *)
(* timestamp and the size of the decompressed chunk, or the error that     *)
(* reading it gave.  Every read goes through chunk_raw and so through the  *)
(* cache of the Region it has just opened.                                 *)
(*                                                                         *)
(* ListChunkGivesUp is ListChunk with a slip in it, and is not used.       *)
(***************************************************************************)
EXTENDS Region, Sequences

VARIABLES
  at,           \* the slot the two loops are at
  listed        \* the lines printed so far

listVars == <<bytes, cache, overrides, views, packing, saved, at, listed>>

Outcome(raw) ==
  IF raw \in Errors THEN [error |-> raw, size |-> 0]
  ELSE [error |-> "none", size |-> RawSize[raw]]

Line(s) ==
  [slot |-> s, timestamp |-> chunk_timestamp(s),
   chunk |-> Outcome(chunk_raw(s))]

ListInit ==
  /\ Init
  /\ at = 0 /\ listed = <<>>

PassOver ==
  /\ at \in Slots /\ ~ has_chunk(at)
  /\ at' = at + 1
  /\ UNCHANGED <<bytes, cache, overrides, views, packing, saved, listed>>

ListChunkGivesUp ==
  /\ at \in Slots /\ has_chunk(at)
  /\ listed' = Append(listed, Line(at))
  /\ at' = IF chunk_raw(at) \in Errors THEN kSize * kSize ELSE at + 1
  /\ cache' = CacheAfterRead(at)
  /\ UNCHANGED <<bytes, overrides, views, packing, saved>>
\* A chunk that cannot be read has its line too, and the loops go on.
ListChunk ==
  /\ at \in Slots /\ has_chunk(at)
  /\ listed' = Append(listed, Line(at))
  /\ at' = at + 1
  /\ cache' = CacheAfterRead(at)
  /\ UNCHANGED <<bytes, overrides, views, packing, saved>>

ListNext == PassOver \/ ListChunk

ListSpec == ListInit /\ [][ListNext]_listVars

-----------------------------------------------------------------------------
(* Properties.                                                             *)

\* A line has a slot, a timestamp, and a size or an error; the Region stays
\* well formed under the reads, failed ones included.
ListTypeOK ==
  /\ TypeOK
  /\ at \in 0 .. kSize * kSize
  /\ listed \in Seq([slot : Slots, timestamp : Timestamps,
                     chunk : [error : Errors \cup {"none"}, size : Nat]])

\* What has been printed is the file's contents up to the present slot: every
\* populated slot once and in order, sizes and errors as a Region that has
\* read nothing else would give them, whichever chunks before were damaged.
ListsContents ==
  /\ \A i, j \in DOMAIN listed : i < j => listed[i].slot < listed[j].slot
  /\ {listed[i].slot : i \in DOMAIN listed} =
       {s \in Slots : s < at /\ Populated(bytes, s)}
  /\ \A i \in DOMAIN listed :
       LET s == listed[i].slot IN
       /\ listed[i].timestamp = bytes.ts[s]
       /\ listed[i].chunk = Outcome(read_original(bytes, s))

\* region-list prints every populated slot once, in order, as it would be
\* read from the file alone.
LinesTell == ListTypeOK /\ ListsContents

=============================================================================
