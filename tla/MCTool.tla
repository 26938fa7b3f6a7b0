------------------------------- MODULE MCTool -------------------------------
(***************************************************************************)
(* nbt-cli and what it shares with the library's file helpers: one         *)
(* invocation of a subcommand on documents, one of region-list on a region *)
(* file, or one file written and read by write_nbt_file and read_nbt_file. *)
(* A behaviour is of one of them; the other two machines rest in a state   *)
(* in which they have nothing left to do.                                  *)
(***************************************************************************)
EXTENDS MCNbtCli, NbtFile, MCRegionList

(* Documents whose names have the lengths detection turns on: none, one,   *)
(* the ones that complete a zlib header with a String tag (29), the last   *)
(* of one VarInt byte (127), the first of two (128), and 255 and 256.      *)

Named(n) == [i \in 1 .. n |-> 97 + (i % 26)]

Text == <<"String", <<104, 105>> >>
Tree == <<"Compound", << << <<97>>, <<"Int", -65>> >>,
                         << <<195, 169>>, <<"List", << <<"Short", 258>> >> >> >> >> >>

MCDocs ==
  {<<Named(n), Tree>> : n \in {0, 1, 5, 29, 32, 127, 128, 255, 256}}
    \cup {<<Named(n), Text>> : n \in {1, 28, 29, 30, 33, 127}}
    \cup {<<Named(n), <<"Byte", 7>> >> : n \in {1, 34, 77}}
    \cup {<< <<195, 169>>, Tree>>,
          << <<65>>, EndTag>>, << <<77, 97>>, <<"Long", 1>> >>,
          << <<126, 32>>, <<"List", <<>>>> >>}

ASSUME ProperAssumption == ProperDocs

MCDepths == 0 .. 40 \cup {60, 126, 127, 128, 129, 130, 131, 140, 259, 262}

-----------------------------------------------------------------------------
\* decompress of an empty file has returned.
CliRests ==
  /\ cmd = "decompress" /\ args = <<"empty">> /\ todo = args
  /\ fmt_name = "auto" /\ failures = 0
  /\ stdout = [text |-> FALSE, fits |-> TRUE]
  /\ out = <<>> /\ exit = "0"

\* A file of which nothing is left has been read.
FileRests ==
  /\ disk = File(<<>>, "None", <<>>, FALSE)
  /\ wrote = << << <<65>>, EndTag>>, "JavaNamedRoot">>
  /\ answer = <<read_nbt_file(disk)>>

\* An empty region has been listed.
ListRests ==
  /\ Loaded(EmptyFile)
  /\ packing = NotSaving /\ saved = NotSaved
  /\ at = kSize * kSize /\ listed = <<>>

ToolInit ==
  \/ CliInit /\ FileRests /\ ListRests
  \/ FileInit /\ CliRests /\ ListRests
  \/ ListInit /\ CliRests /\ FileRests

ToolNext ==
  \/ CliNext /\ UNCHANGED fileVars /\ UNCHANGED listVars
  \/ FileNext /\ UNCHANGED cliVars /\ UNCHANGED listVars
  \/ ListNext /\ UNCHANGED cliVars /\ UNCHANGED fileVars

ToolSpec == ToolInit /\ [][ToolNext]_<<cliVars, fileVars, listVars>>

-----------------------------------------------------------------------------
\* What a command prints and the status it ends with tell what the files hold:
\* verify's failures, the document of from-snbt, the value of dump.
CommandsTell == CliTypeOK /\ VerifyTells /\ FromSnbtDecodes /\ DumpShows

=============================================================================
