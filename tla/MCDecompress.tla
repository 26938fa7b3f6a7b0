---------------------------- MODULE MCDecompress ----------------------------
(***************************************************************************)
(* Streams around the constants of the loops (4096, 65536, in * 4, in * 8) *)
(* and around the limits themselves, each with an honest, a wrapped and an *)
(* absurd ISIZE.                                                           *)
(***************************************************************************)
EXTENDS Decompress

MCLimits == {0, 1, 2, 4095, 4096, 4097, 65536, 65537, 300000}

Sizes == {0, 1, 2, 4096, 4097, 9001, 65536, 65537, 200000, 300000, 300001}

MCStreams ==
  [in : {3, 20, 2000}, size : Sizes, end : {"whole", "corrupt", "cut"},
   isize : {0, 1, 4096, 1000000000}]
    \cup {[in |-> 0, size |-> 0, end |-> "cut", isize |-> 0]}
    \cup {[in |-> 20, size |-> n, end |-> "whole", isize |-> n] : n \in Sizes}

=============================================================================
