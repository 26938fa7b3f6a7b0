----------------------------- MODULE RegionSpec -----------------------------
(***************************************************************************)
(* What a Region promises its caller: a map from slots to chunks that      *)
(* writes and removes change at once, and a saved file that holds exactly  *)
(* the map as it stood when it was saved.  A chunk is what a read of its   *)
(* slot answers (its payload, or the error it is refused with) and a       *)
(* timestamp.  Reads change nothing.                                       *)
(***************************************************************************)
CONSTANTS
  Slots, Payloads, Errors, Timestamps,
  Writes,       \* the <<payload, codec, timestamp>> callers write
  Fits(_, _),   \* a reader accepts the payload when the codec packs it
  Absent        \* no chunk in this slot, or no saved file

Chunks == [raw : Payloads \cup Errors, ts : Timestamps]

VARIABLES
  contents,     \* the slots as a reader of the Region sees them
  disk          \* the slots of the last saved file, or Absent

vars == <<contents, disk>>

TypeOK ==
  /\ contents \in [Slots -> Chunks \cup {Absent}]
  /\ disk \in [Slots -> Chunks \cup {Absent}] \cup {Absent}

Init ==
  /\ contents \in [Slots -> Chunks \cup {Absent}]
  /\ disk = Absent

\* A chunk the reader accepts reads back as written; one above its output
\* limit is kept but refused.
Write(s, p, codec, t) ==
  /\ contents' = [contents EXCEPT ![s] =
                    [raw |-> IF Fits(codec, p) THEN p ELSE "LimitExceeded",
                     ts |-> t]]
  /\ UNCHANGED disk

Remove(s) ==
  /\ contents' = [contents EXCEPT ![s] = Absent]
  /\ UNCHANGED disk

\* Only a region none of whose chunks is damaged can be saved.
Save ==
  /\ \A s \in Slots : contents[s] # Absent
                        => contents[s].raw # "RegionInvalidChunk"
  /\ disk' = contents
  /\ UNCHANGED contents

Reopen ==
  /\ disk # Absent
  /\ contents' = disk
  /\ UNCHANGED disk

Next ==
  \/ \E s \in Slots, w \in Writes : Write(s, w[1], w[2], w[3])
  \/ \E s \in Slots : Remove(s)
  \/ Save
  \/ Reopen

Spec == Init /\ [][Next]_vars

=============================================================================
