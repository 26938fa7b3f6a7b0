---------------------------- MODULE MCRegionFile ----------------------------
(***************************************************************************)
(* RegionFile with the payloads of MCRegion.  A saved file has its header, *)
(* then up to two blocks of one and three sectors; a write is cut off in   *)
(* the header, at its end, inside a block's first bytes and inside its     *)
(* payload.                                                                *)
(***************************************************************************)
EXTENDS MCRegion, RegionFile

FileCoords == {<<0, 0>>, <<1, 0>>}

FileWrites == {<<"a", "Zlib", 7>>, <<"b", "None", 0>>}

Sound == File(20480, (0 :> <<2, 1, 7>> @@ 3 :> <<3, 2, 7>>),
              (2 :> Packed("a", "Gzip") @@ 3 :> Packed("b", "Zlib")))

FileFiles == {Sound}

MCCuts == {4096, 8192, 8196, 8300, 12294, 17000}

=============================================================================
