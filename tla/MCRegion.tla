------------------------------ MODULE MCRegion ------------------------------
(***************************************************************************)
(* A region of 2 x 2 slots, two of which callers touch, one of them under  *)
(* two names ((-1, 2) wraps to (1, 0)).  The sector, header, output and    *)
(* table limits are the code's own.                                        *)
(*                                                                         *)
(* Payloads: "a" takes one sector; "b" three sectors raw and one packed;   *)
(* "sparse" is above 16 MiB raw, packs to 18 sectors, and raw needs more   *)
(* sectors than the table's 8-bit count holds; "noise" is bytes that are   *)
(* no NBT.                                                                 *)
(***************************************************************************)
EXTENDS Region, TLC

MCPayloads == {"", "a", "b", "sparse", "noise"}

MCRawSize == [p \in MCPayloads |-> CASE p = "" -> 0
                                     [] p = "a" -> 4000
                                     [] p = "b" -> 9000
                                     [] p = "sparse" -> 17825792
                                     [] p = "noise" -> 11]

MCPacked == [p \in MCPayloads |-> CASE p = "" -> 20
                                    [] p = "a" -> 300
                                    [] p = "b" -> 4092
                                    [] p = "sparse" -> 70000
                                    [] p = "noise" -> 30]

MCPackedSize == [c \in Codecs |-> IF c = "None" THEN MCRawSize ELSE MCPacked]

MCCoords == {<<0, 0>>, <<1, 0>>, <<-1, 2>>}

MCWrites == {<<"a", "Zlib", 7>>, <<"b", "None", 0>>, <<"sparse", "Lz4", 7>>}

LimitWrites == {<<"sparse", "None", 7>>, <<"", "Gzip", 7>>,
                <<"noise", "Gzip", 0>>}

\* A file from its table: slot -> <<offset, count, timestamp>>.
File(size, table, at) ==
  [size |-> size,
   loc  |-> [s \in Slots |-> IF s \in DOMAIN table
                             THEN [off |-> table[s][1], cnt |-> table[s][2]]
                             ELSE NoLocation],
   ts   |-> [s \in Slots |-> IF s \in DOMAIN table THEN table[s][3] ELSE 0],
   at   |-> at]

Packed(p, codec) == make_chunk_block(p, codec)
Damaged(p, by, len, codec) ==
  [len |-> len, codec |-> codec, data |-> [raw |-> p, by |-> by]]

\* Slots 0 and 1 share a sector, slot 2 has an unknown codec byte, slot 3's
\* stream is not what its codec byte says.
Odd == File(16384, (0 :> <<2, 1, 7>> @@ 1 :> <<2, 1, 0>>
                    @@ 2 :> <<3, 1, 7>> @@ 3 :> <<3, 2, 0>>),
            (2 :> Packed("a", "Zlib") @@ 3 :> Damaged("b", "Gzip", 40, 77)))

\* The file ends inside slot 0's block; slot 1 has a zero length and slot 2
\* an entry whose sector count is zero.
Cut == File(12300, (0 :> <<3, 1, 7>> @@ 1 :> <<2, 1, 0>> @@ 2 :> <<2, 0, 7>>),
            (2 :> Damaged("a", "Zlib", 0, 2) @@ 3 :> Packed("a", "Zlib")))

\* Slot 0's sector starts four bytes before the end of the file, slot 1's is
\* far beyond it, slot 2's is in the header.
Short == File(12292, (0 :> <<3, 1, 7>> @@ 1 :> <<90000, 255, 7>>
                      @@ 2 :> <<1, 1, 0>>),
              (3 :> Packed("a", "Zlib")))

Corrupt == File(16384, (0 :> <<2, 2, 7>> @@ 3 :> <<3, 1, 7>>),
                (2 :> Packed("b", "Lz4") @@ 3 :> Damaged("a", "Gzip", 99, 2)))

MCFiles == {Odd}

LimitFiles == {Short, Corrupt, Cut}

=============================================================================
