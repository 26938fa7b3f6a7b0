------------------------------ MODULE MCNbtCli ------------------------------
(***************************************************************************)
(* Files that hold one root exactly (raw and packed), with a byte more,    *)
(* with a byte less, with a name spelled in a longer form than the encoder *)
(* uses, and packed but cut short; directories of some of them, one that   *)
(* cannot be read to its end; texts that read back and one nested deeper   *)
(* than decode goes, with and without a line feed among their bytes.       *)
(***************************************************************************)
EXTENDS NbtCli

Root == << <<97, 98>>,
           <<"Compound", << << <<97>>, <<"Int", -65>> >>,
                            << <<98>>, <<"String", <<195, 169>> >> >> >> >> >>

\* Its bytes in each dialect.
Bytes ==
  [JavaNamedRoot |->
     <<10, 0, 2, 97, 98, 3, 0, 1, 97, 255, 255, 255, 191,
       8, 0, 1, 98, 0, 2, 195, 169, 0>>,
   JavaAnonymousRoot |->
     <<10, 3, 0, 1, 97, 255, 255, 255, 191, 8, 0, 1, 98, 0, 2, 195, 169, 0>>,
   BedrockLittleEndian |->
     <<10, 2, 0, 97, 98, 3, 1, 0, 97, 191, 255, 255, 255,
       8, 1, 0, 98, 2, 0, 195, 169, 0>>,
   BedrockVarInt |->
     <<10, 2, 97, 98, 3, 1, 97, 129, 1, 8, 1, 98, 2, 195, 169, 0>>]

Raw(in) == File(in, "None", in, TRUE)
Packed(raw, by, whole) == File(CHOOSE h \in Headers[by] : TRUE, by, raw, whole)

InFile(ext, f) == [kind |-> "file", extension |-> ext, file |-> f]

MCEntries ==
  [p \in {"java", "le", "varint", "net", "gz", "lz4", "long", "short", "cut",
          "empty", "other", "dir", "missing", "locked", "walled"} |->
     CASE p = "java" -> InFile(".nbt", Raw(Bytes["JavaNamedRoot"]))
       [] p = "le" -> InFile(".nbt", Raw(Bytes["BedrockLittleEndian"]))
       [] p = "varint" -> InFile(".nbt", Raw(Bytes["BedrockVarInt"]))
       [] p = "net" -> InFile(".nbt", Raw(Bytes["JavaAnonymousRoot"]))
       [] p = "gz" -> InFile(".nbt", Packed(Bytes["JavaNamedRoot"], "Gzip", TRUE))
       [] p = "lz4" -> InFile(".dat", Packed(Bytes["BedrockVarInt"], "Lz4", TRUE))
       [] p = "long" -> InFile(".nbt", Raw(Bytes["JavaNamedRoot"] \o <<0>>))
       [] p = "short" -> InFile(".nbt", Raw(Front(Bytes["JavaNamedRoot"])))
       [] p = "cut" -> InFile(".dat", Packed(Bytes["JavaNamedRoot"], "Zlib", FALSE))
       [] p = "empty" -> InFile(".nbt", Raw(<<>>))
       [] p = "other" -> InFile(".nbt", Raw(<<3, 130, 0, 97, 98, 130, 1>>))
       [] p = "dir" -> [kind |-> "directory",
                        names |-> <<"java", "cut", "gz", "missing">>]
       [] p = "walled" -> [kind |-> "directory",
                           names |-> <<"java", "locked", "short">>]
       [] p = "locked" -> [kind |-> "unreadable"]
       [] p = "missing" -> [kind |-> "none"]]

MCHolds ==
  [e \in {<<"java", "JavaNamedRoot">>, <<"gz", "JavaNamedRoot">>,
   <<"le", "BedrockLittleEndian">>, <<"varint", "BedrockVarInt">>,
   <<"lz4", "BedrockVarInt">>, <<"net", "JavaAnonymousRoot">>}
     |-> Root[2]]

Deep == <<"List", << <<"List", << <<"List", <<>> >> >> >> >> >>
TooDeep == <<"List", <<Deep>> >>
MCTexts ==
  [p \in DOMAIN MCEntries |->
     IF p = "java" THEN <<Root[2]>>
     ELSE IF p = "le" THEN <<Deep>>
     ELSE IF p = "net" THEN << <<"String", <<104, 10, 195, 169>> >> >>
     ELSE IF p = "gz" THEN <<TooDeep>>
     ELSE IF p = "varint" THEN << <<"Int", -65>> >>
     ELSE <<>>]

MCPaths == {<<p>> : p \in DOMAIN MCEntries}
             \cup {<<p, q>> : p, q \in {"java", "dir", "long", "varint", "cut"}}
             \cup {<<"short", "java", "dir">>, <<"java", "gz", "java">>,
                   <<"java", "walled">>, <<"short", "locked">>, <<"walled", "dir">>}

=============================================================================
