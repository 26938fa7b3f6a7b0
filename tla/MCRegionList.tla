---------------------------- MODULE MCRegionList ----------------------------
(***************************************************************************)
(* Every file of 2 x 2 slots whose entries are one of six: none, an entry  *)
(* in the header, an intact chunk, an empty one, one above the output      *)
(* bound, one with an unknown codec, and one past the end of the file.     *)
(***************************************************************************)
EXTENDS RegionList, TLC

MCPayloads == {"", "a", "sparse"}
MCRawSize == [p \in MCPayloads |-> CASE p = "" -> 0
                                     [] p = "a" -> 4000
                                     [] p = "sparse" -> 17825792]
MCPackedSize ==
  [c \in Codecs |-> IF c = "None" THEN MCRawSize
                    ELSE [p \in MCPayloads |-> 300]]

Entry == {<<0, 0, 0>>, <<1, 1, 7>>, <<2, 1, 7>>, <<3, 1, 0>>, <<4, 1, 7>>,
          <<5, 1, 0>>, <<6, 1, 7>>}

MCFiles ==
  {[size |-> 24580,
    loc  |-> [s \in Slots |-> [off |-> table[s][1], cnt |-> table[s][2]]],
    ts   |-> [s \in Slots |-> table[s][3]],
    at   |-> (2 :> make_chunk_block("a", "Zlib")
           @@ 3 :> make_chunk_block("", "Gzip")
           @@ 4 :> make_chunk_block("sparse", "Lz4")
           @@ 5 :> [make_chunk_block("a", "None") EXCEPT !.codec = 77]
           @@ 6 :> make_chunk_block("a", "Zlib"))] :
   table \in [Slots -> Entry]}

=============================================================================
