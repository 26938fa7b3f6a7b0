------------------------------- MODULE NbtCli -------------------------------
(***************************************************************************)
(* nbt-cli, the command-line tool: one invocation, its option parsing, its *)
(* subcommands and its exit status.  All subcommands share one fmt_name,   *)
(* which is "auto" unless --format is given.  An exception that leaves a   *)
(* callback ends the process without a status.  What is written to stdout  *)
(* need not arrive there: nobody looks at what fwrite and cout report.     *)
(*                                                                         *)
(* Text is abstract: a file of SNBT is the Value it parses to, or none.    *)
(* A definition whose name extends that of the next one is that one with a *)
(* slip in it, and is not used.                                            *)
(***************************************************************************)
EXTENDS Detect

CONSTANTS
  Paths,        \* the argument lists users give: sequences of paths
  Entries,      \* what is at each path: a file, a directory, nothing, or what
                \* the file system refuses to tell
  Holds,        \* the <<path, dialect>> whose bytes are one encoded root: its Value
  Texts         \* what SNBT files parse to: one Value, or nothing

VARIABLES
  cmd,          \* the subcommand
  args,         \* its file or files
  fmt_name,     \* as the options left it
  todo,         \* the paths still to be done
  failures,     \* verify's count
  stdout,       \* text: it is in text mode on Windows; fits: it takes it all
  out,          \* what has arrived at stdout
  exit          \* running, the exit status, or terminated

cliVars == <<cmd, args, fmt_name, todo, failures, stdout, out, exit>>

Subcommands == {"dump", "from-snbt", "verify", "decompress"}

FormatNames ==
  [java |-> "JavaNamedRoot", javanet |-> "JavaAnonymousRoot",
   bedrockle |-> "BedrockLittleEndian", bedrockvarint |-> "BedrockVarInt"]

Exact == DOMAIN Holds

IsFile(p) == Entries[p].kind = "file"
IsDirectory(p) == Entries[p].kind = "directory"
\* Its status, or the directory iterator that comes upon it, is an exception.
Unreadable(p) == Entries[p].kind = "unreadable"

-----------------------------------------------------------------------------
(* Helpers that throw: not ok is an exception.                             *)

loadRaw(p) ==
  IF IsFile(p) THEN Ok(Entries[p].file.in, 0) ELSE Err("runtime_error", 0)
\* slurp, then decompress_if_compressed.
load(p) ==
  IF IsFile(p) THEN decompress(Entries[p].file) ELSE Err("runtime_error", 0)

parse_format(name, hint) ==
  IF name = "auto"
  THEN IF detect_format(hint) = NoGuess THEN Err("runtime_error", 0)
       ELSE Ok(detect_format(hint), 0)
  ELSE IF name \in DOMAIN FormatNames THEN Ok(FormatNames[name], 0)
  ELSE Err("runtime_error", 0)

CliInit ==
  /\ cmd \in Subcommands
  /\ fmt_name \in {"auto", "xml"} \cup DOMAIN FormatNames
  /\ args \in Paths /\ todo = args
  /\ cmd # "verify" => Len(args) = 1
  /\ failures = 0
  /\ stdout \in [text : BOOLEAN, fits : BOOLEAN]
  /\ out = <<>>
  /\ exit = "running"

Running(c) == cmd = c /\ exit = "running"

Exits(status) ==
  /\ exit' = status
  /\ UNCHANGED <<cmd, args, fmt_name, todo, failures, stdout>>

Terminates == out' = out /\ Exits("terminated")

\* write_stdout: what may arrive of bs.  In text mode a line feed becomes a
\* carriage return and a line feed.
Received(bs) ==
  LET sent == IF stdout.text
              THEN FlattenSeq([i \in DOMAIN bs |-> IF bs[i] = 10 THEN <<13, 10>>
                                                   ELSE << bs[i] >>])
              ELSE bs
  IN  IF stdout.fits THEN {sent} ELSE {SubSeq(sent, 1, n) : n \in 0 .. Len(sent)}

-----------------------------------------------------------------------------
(* Subcommands that handle one file.                                       *)

\* cmd_dump and cmd_to_snbt: the root's Value goes to the SNBT writer.
Dump ==
  /\ Running("dump")
  /\ \E b \in {load(Head(todo))} :
       IF ~ b.ok THEN Terminates
       ELSE \E f \in {parse_format(fmt_name, b.v)} :
              IF ~ f.ok THEN Terminates
              ELSE \E d \in {decode(f.v, b.v, 0)} :
                     /\ \/ d.ok /\ out' = <<d.v[2]>>
                        \/ ~ (d.ok /\ stdout.fits) /\ out' = <<>>
                     /\ Exits(IF d.ok THEN "0" ELSE "1")

Decompress ==
  /\ Running("decompress")
  /\ IF ~ IsFile(Head(todo)) THEN Terminates
     ELSE \E b \in {load(Head(todo))} :
            /\ out' \in IF b.ok THEN Received(b.v) ELSE {<<>>}
            /\ Exits(IF b.ok THEN "0" ELSE "1")

FromSnbtNamed ==
  /\ Running("from-snbt")
  /\ LET text == Texts[Head(todo)]
         f    == parse_format(fmt_name, <<>>) IN
     IF text = <<>> THEN out' = out /\ Exits("1")
     ELSE IF ~ f.ok THEN Terminates
     ELSE \E w \in {encode("JavaNamedRoot", << <<>>, text[1]>>)} :
            /\ out' \in IF w.ok THEN Received(w.out) ELSE {<<>>}
            /\ Exits(IF w.ok THEN "0" ELSE "1")
\* The text is parsed before the format is; the hint is empty.
FromSnbt ==
  /\ Running("from-snbt")
  /\ LET text == Texts[Head(todo)]
         f    == parse_format(fmt_name, <<>>) IN
     IF text = <<>> THEN out' = out /\ Exits("1")
     ELSE IF ~ f.ok THEN Terminates
     ELSE \E w \in {encode_anonymous(f.v, text[1])} :
            /\ out' \in IF w.ok THEN Received(w.out) ELSE {<<>>}
            /\ Exits(IF w.ok THEN "0" ELSE "1")

-----------------------------------------------------------------------------
(* verify: every file, and every .nbt file under every directory.          *)

\* verify_one counts 0 or 1; exceptions are caught and count.
verify_one(p) ==
  LET b == load(p)
      f == parse_format(fmt_name, <<>>) IN
  IF ~ b.ok \/ ~ f.ok THEN 1
  ELSE LET d == decode(f.v, b.v, 0) IN
       IF d.ok /\ encode(f.v, d.v) = Wrote(b.v) THEN 0 ELSE 1

\* What of a directory is not passed over: its .nbt files, and what the
\* iterator throws at.  What is in its own directories is in its listing too.
NbtFiles(p) ==
  SelectSeq(Entries[p].names,
            LAMBDA q : \/ IsFile(q) /\ Entries[q].extension = ".nbt"
                       \/ Unreadable(q))

VerifyDirectory ==
  /\ Running("verify") /\ todo # <<>>
  /\ IsDirectory(Head(todo))
  /\ todo' = NbtFiles(Head(todo)) \o Tail(todo)
  /\ UNCHANGED <<cmd, args, fmt_name, failures, stdout, out, exit>>

\* is_directory and the iterator are outside verify_one's try.
VerifyThrows ==
  /\ Running("verify") /\ todo # <<>>
  /\ Unreadable(Head(todo))
  /\ Terminates

VerifyFileForgets ==
  /\ Running("verify") /\ todo # <<>>
  /\ ~ IsDirectory(Head(todo)) /\ ~ Unreadable(Head(todo))
  /\ failures' = verify_one(Head(todo))
  /\ todo' = Tail(todo)
  /\ UNCHANGED <<cmd, args, fmt_name, stdout, out, exit>>
VerifyFile ==
  /\ Running("verify") /\ todo # <<>>
  /\ ~ IsDirectory(Head(todo)) /\ ~ Unreadable(Head(todo))
  /\ failures' = failures + verify_one(Head(todo))
  /\ todo' = Tail(todo)
  /\ UNCHANGED <<cmd, args, fmt_name, stdout, out, exit>>

VerifyDoneCounts ==
  /\ Running("verify") /\ todo = <<>>
  /\ out' = out
  /\ Exits(ToString(failures))
VerifyDone ==
  /\ Running("verify") /\ todo = <<>>
  /\ out' = out
  /\ Exits(IF failures = 0 THEN "0" ELSE "1")

CliNext == \/ Dump \/ Decompress \/ FromSnbt
        \/ VerifyDirectory \/ VerifyThrows \/ VerifyFile \/ VerifyDone

CliSpec == CliInit /\ [][CliNext]_cliVars

-----------------------------------------------------------------------------
(* Properties.                                                             *)

CliTypeOK ==
  /\ cmd \in Subcommands
  /\ failures \in 0 .. Len(todo) + Cardinality(DOMAIN Entries) * Len(args)
  /\ exit \in {"running", "0", "1", "terminated"}
  /\ stdout \in [text : BOOLEAN, fits : BOOLEAN]
  /\ exit = "running" => out = <<>>

Given == fmt_name \in DOMAIN FormatNames
GivenFormat == FormatNames[fmt_name]

Visited ==
  UNION {IF IsDirectory(args[i]) THEN ToSet(NbtFiles(args[i])) ELSE {args[i]} :
           i \in DOMAIN args}

\* "exits 0 if byte-exact" (README.md:233): verify exits with 0 exactly when
\* every file it was given, directly or in a directory, is one root as the
\* encoder writes it and nothing else; one bad file, missing file or stray
\* byte anywhere is enough for 1.  No exception of a file gets out; what the
\* file system refuses ends the process, before or after files that failed.
VerifyTells ==
  cmd = "verify" /\ exit # "running" =>
    exit = IF \E p \in Visited : Unreadable(p) THEN "terminated"
           ELSE IF /\ Given
                   /\ \A p \in Visited : <<p, GivenFormat>> \in Exact
           THEN "0" ELSE "1"

\* from-snbt, status 0: what it encoded, and what has arrived of it.
FromText == Texts[args[1]][1]
Encoded == encode_anonymous(GivenFormat, FromText).out

\* What from-snbt prints with status 0 is read back by dump's decoder as the
\* Value of the text, in every dialect, with no byte left over, unless a line
\* feed among the bytes met a stdout in text mode.  When not all of it arrives,
\* the decoder sees the end of its input and no smaller Value; only a text
\* nested deeper than decode goes is printed and refused.
FromSnbtDecodes ==
  /\ cmd = "from-snbt" /\ exit = "0"
  /\ stdout.text => 10 \notin ToSet(Encoded)
  => \E d \in {decode_anonymous(GivenFormat, out, 0)} :
       \/ d = Ok(FromText, Len(out))
       \/ ~ stdout.fits /\ d = Err("UnexpectedEndOfInput", d.pos)
       \/ Nested(FromText)[kMaxDecodeDepth] # {} /\ d = Err("LimitExceeded", d.pos)

\* dump prints the root that an exact file holds, in whatever codec it is
\* packed, if stdout takes it.
DumpShows ==
  cmd = "dump" /\ exit # "running" /\ Given /\ <<args[1], GivenFormat>> \in Exact
    => /\ exit = "0"
       /\ stdout.fits => out = <<Holds[<<args[1], GivenFormat>>]>>

-----------------------------------------------------------------------------
(* What a doc or a comment says and the code does not do: not invariants.  *)

\* "Convert SNBT to binary NBT (stdout)" (main.cpp:246): with status 0, and room
\* for them, the bytes of the text's NBT are what arrives.
BytesReachStdout ==
  cmd = "from-snbt" /\ exit = "0" /\ stdout.fits => out = Encoded

\* The help texts' defaults (main.cpp:248, 253): without --format, from-snbt
\* writes java-net and verify reads java.
DefaultsHold ==
  fmt_name = "auto" =>
    /\ cmd = "from-snbt" => exit # "terminated"
    /\ cmd = "verify" /\ exit = "1" =>
         \E p \in Visited : <<p, "JavaNamedRoot">> \notin Exact

=============================================================================
