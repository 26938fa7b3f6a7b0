# tagforge in TLA+

tagforge is a C++23 library for NBT, the tagged binary tree that Minecraft
stores and sends: it decodes, skips, views and encodes documents in four wire
dialects, packs and unpacks them, reads and prints them as text (SNBT), walks
them by path, and keeps region files (`.mca`), which hold up to 1024 compressed
documents each. This directory models the library's logic and its command-line
tool, checks the models with TLC and proves the results that matter most with
TLAPS.

The library has no threads of its own and locks nothing. What is hard in it is
*sequences of calls* (caches, borrowed views and pointers, pending edits, save
and reopen), *the file beneath it* (a writer and a reader of one path interleave
at the system calls; a save can be cut off by a crash or a full disk), *limits*
(8-bit sector counts, 24-bit offsets, output bounds, 65535-byte strings, nesting
depth), *partial failure* (a write that stops half-way, a document cut short, one
damaged chunk among good ones), *guesses* (which codec, which dialect), and *the
same walk written several times* (decode, skip and view each have one switch per
dialect that must agree to the byte).

## Inventory

| Component | State | Operations | What makes it correct | Modules |
|---|---|---|---|---|
| Region (`src/region`) | the file's bytes, a cache of decompressed chunks, pending writes and removes, the views callers borrowed | create, has_chunk, populated_chunks, chunk_timestamp, chunk_raw, chunk_value, chunk_view, write_chunk, write_chunk_bytes, remove_chunk, save_to_bytes, from_bytes | it behaves as a map that a saved file reproduces; cache and views are never stale; sectors never overlap | RegionFormat, Region, RegionSpec |
| Region and its file | the path, how much of a save has reached it, the process | open, save | a save that was cut off loses whole chunks and is never misread | RegionFile |
| Compression (`src/compress`) | the output buffer of one call | decompress, compress, detect_codec | the bound holds, the answer is right, the loop ends | Decompress, Detect |
| File I/O (`io.cpp`) | a file, a writer, a reader | read_file, write_file, read_nbt_file, write_nbt_file | a failed write is reported; a read gives one file's bytes; a document comes back | FileIo, NbtFile |
| Format detection (`format.cpp`) | none | detect_format, decode_auto, skip_auto, skip_expect | what write_nbt_file writes is guessed right; the calls agree | Detect |
| Cursor and wire primitives (`cursor.hpp`, `src/internal`) | a position in a buffer | reads of numbers, tags, lengths, strings, VarInts | the position after each read and each error | Cursor, NbtWire |
| MUTF-8 (`mutf8.cpp`) | none | both transcoders | they invert each other and are canonical | Mutf8, Transcoder |
| Decode, Skip, Encode | cursor, sink, span | one entry point per dialect, Decoder, Encoder, encode_into | roots read back; a cut is seen; skip agrees with decode; re-encoding is stable; a refused patch changes nothing | NbtCodec, NbtStream, NbtInto |
| View (`src/view`) | tag, payload offset and name in a buffer; iterator; the objects themselves | root, iteration, find, list access, scalars, materialise; copy, move, destroy | it shows what decode would return; moving it keeps its name | NbtView, ViewNames |
| Value and Compound (`value.cpp`) | a vector of entries and the pointers into it | find, upsert, typed accessors | an ordered map; pointers stay good until a new key | CompoundSpec, Compound |
| Path (`path.cpp`) | parser position, node | parse_path, get_at, typed accessors | the grammar, and the node the segments name | Path |
| SNBT (`src/snbt`) | parser position | to_snbt, parse_snbt | text reads back; a cut text is refused | Snbt |
| nbt-cli (`tools/nbt-cli`) | options, counters | dump, decompress, from-snbt, verify, region-list | output and exit status tell what the files hold | NbtCli, RegionList |
| Errors and tag ids | none | - | - | values in NbtWire; texts left out |
| Build, tests, benchmarks | none | - | - | not modelled |

How they interact: Region calls Compression for every chunk, Encode for
`write_chunk`, Decode for `chunk_value`, View for `chunk_view`, and File I/O for
`open` and `save`. A chunk_view *borrows* Region's cache; a View borrows its
buffer, and its name may lie inside the View itself; a Compound hands out
pointers into its vector. Decode, Skip and View share the cursor, the wire
helpers and MUTF-8; View::materialise calls Decode on a rebuilt buffer.
`read_nbt_file` chains File I/O, codec detection, Compression, format detection
and Decode, and nbt-cli is built on all of it.

Behaviours deliberately covered: any interleaving of reads, writes, removes,
saves and reopens of a region, starting from damaged files; a crash, a full disk
or a lost flush at every byte of a save; a read of a file while it is
overwritten; two coordinate pairs that wrap to one slot; any cut and any one-byte
damage of a stream, with any mixture of decode and skip on it; writers whose
roots are refused half-way; Views copied, moved and destroyed in any order;
pointers kept across calls; texts cut short or with one symbol changed.

## Modules

In every module a definition whose name extends that of the next one
(`FillsAlways`, `growUncapped`, `skip_arrayBytes`...) is that definition with a
slip in it. No specification uses it; substituting it shows that the property it
is paired with in PROJECT.json really depends on that piece of code.

### Region

`RegionFormat` is the file format: an image has a size, the two header tables
and, per sector, the chunk block that starts there. A payload is abstract (its
raw size, its packed size per codec, whether it parses); a block is its 32-bit
length, its codec byte and what was packed. `read_original` is the chain of checks
of `chunk_raw` in the code's order. Sector size, header size, the 8-bit count
and the 24-bit offset are the code's numbers, not parameters; the side of the
region is `kSize` (32 in the code), under an assumption that only says the tables
can address it.

`Region` is the class. Its variables are the members `bytes_`, `cache_`,
`overrides_`, plus `views` (the slots of which a caller still holds an intact
view: assigning or clearing a cache entry takes the slot out), `packing` (the
local variables of `save_to_bytes`) and `saved` (the last file a save returned).
One action per public operation; the save loop is one action per slot
(`SaveSkip`, `SaveAppend`, `SaveFail`), because its intermediate file is what the
layout properties are about. No other operation runs during a save:
`save_to_bytes` calls nothing back. A call refused before it changed anything is
a stuttering step.

`RegionSpec` is what the caller is promised, without caches, blocks or sectors: a
map from slots to (what a read answers, timestamp) and the map as last saved.
`Region!ImplementsRegionSpec` is that specification under the mapping `contents`
<- what `has_chunk`, `chunk_raw` and `chunk_timestamp` answer, `disk` <- what they
would answer on the saved file.

### RegionFile

Region composed with `write_file` on one path and a process that may die at any
step. The file is the first `file.size` bytes of an image; `Torn` gives what a
Region opened on it finds: the tables are there once the header is, and a block
that reaches beyond the end has no payload left. `OpenTruncate`, `PutSome`,
`PutAll`, `WriteChecked`, `CloseFlushed` and `CloseFails` are write_file's system
calls (io.cpp:50-58), `CannotOpen` and `WriteFails` its error paths, `SaveRefused`
the save that fails before a file is opened. Its edits are Region's own actions,
so everything proved of Region holds here.

### FileIo

`read_file` and `write_file` against each other, one action per system call of
the streams: the directory is made, the file opened and truncated, filled cell by
cell, checked and closed; the reader takes the size, then cells, until it has as
many as the size said or the file ends. `kBuffer` is what may still be in the
stream's own buffer when the check after `f.write` passes. `during` is a history
variable: the versions the file has had since the read began.

### Decompress

The growth loops of `decompress_gzip`, `decompress_zlib` and `decompress_lz4`, one
action per library call. The libraries are external; a stream is its own size,
its content's size, how it ends and (gzip) the four bytes a caller reads as
ISIZE, which need not be true.

### Cursor, Mutf8, Transcoder

A read is given a buffer and a position and returns `[ok, v, pos]`, the position
included after an error. `Cursor` has what all of them are made of: `Ok` and
`Err`, `Then` (go on where the last read stopped, unless it failed), `take`, and
`Rounds`, the loop every reader of the library is: a bounded number of rounds
from where the last one stopped, up to the first that fails or reads nothing.

`Mutf8` is both transcoders: for each, the forms the next character can have, in
the order of the code's tests, each with its length, its bytes and its condition,
and the loop over them. `Transcoder` builds a text piece by piece and runs both
on it.

### NbtWire, NbtCodec

Pure operators, down to the byte. `NbtWire` has numbers, VarInts, lengths and
strings by dialect. `NbtCodec` has decode, skip and encode. The four dialects'
files hold four copies of each switch that differ only in NbtWire's primitives,
so the model has one switch with the dialect as a parameter, plus the entry
point of each file. No operator is RECURSIVE: the functions of one nesting level
are given those of the next as `inner`, and a recursive function over the levels
ties them together (`decode_payloads` over the depth that is left, `write_value`
over the depth in the tree). `Values` is every tree that nests so many levels at
most, with numbers in the range of their kind.

### NbtStream and NbtInto

NbtStream: an Encoder appends roots to one sink; the bytes arrive whole, cut short
or with one byte changed; a reader takes roots with `Decoder::decode` or `skip` in
any mixture until an error. It composes encode, decode and skip of NbtCodec.

NbtInto: `encode_into` and `encode_anonymous_into` patch one caller-owned span
again and again with longer, shorter and refused documents; the caller reads
back what the span begins with.

### NbtView and ViewNames

NbtView: the view walkers (`java_payload_size` and its siblings), `View`, the
`CompoundIterator` as a state machine, `find`, `contains`, `ListView::at`, the
scalar accessors, `as_string` and `materialise`, over buffers that encode made,
intact or damaged in one byte.

ViewNames: View objects as C++ objects. `name_view_` points into the source
buffer or at the View's own `name_owned_`, a std::string that keeps a short name
inside the object and a long one in a heap block. The implicit copy and move copy
the pointer as it is. The state is what each object holds, whom each heap block
belongs to, and where each name points.

### Detect, NbtFile

Detect is `detect_codec` and `detect_format` byte by byte, and `decode_auto`,
`skip_auto`, `skip_expect` on top of NbtCodec. NbtFile composes it with encode and
Decompress's answers into `write_nbt_file` and `read_nbt_file` on a file that may
lose its end in between; a packed file is its header bytes and what was packed.

### NbtCli, RegionList

NbtCli is one invocation of `dump`, `decompress`, `from-snbt` or `verify`: option
parsing (one `fmt_name` shared by all subcommands), `load`, one action per file of
`verify`, and the exit status. An exception that escapes ends the process:
`slurp`'s, `parse_format`'s, and what `is_directory` and the directory iterator
throw outside `verify_one`'s try (`VerifyThrows`). `stdout` says what is at the
other end of `write_stdout`, which nobody asks: a stream in text mode, or one that
does not take everything (`Received`). RegionList is
`region-list`: Region's own operations called slot by slot, with the lines
printed so far.

### CompoundSpec, Compound

CompoundSpec is an ordered map with references: a reference is as good as its key
until a new key is added. Compound is the vector: `find`'s linear scan, `upsert`
in its two cases (replace in place; `emplace_back`, which moves the entries when
the capacity is used up), the typed accessors, and callers who keep pointers,
read and assign through them. Vectors may repeat a key, as decoded ones may.
`ImplementsMap` is CompoundSpec with a key's value that of its first entry.

### Path

`parse_path` one round of its loop per action, then `get_at` one segment per
action, for both overloads (a root that is a Value, one that is a Compound), and
the typed accessors on the result. Indices are bounded by `kMaxIndex`, where the
code's digit loop refuses to overflow.

### Snbt

The writer and the parser over symbols: a character, or a lexeme (a longest run
of identifier characters, which the parser takes apart into body and suffix). A
body is what `std::from_chars` can tell of it. A float's body is read as a double
and then narrowed; `Prints` gives, for the bodies that come out of this as a number
that prints otherwise, what is printed of it. A text goes from the writer to the
parser whole, cut, or with one symbol changed, or comes from elsewhere.

### Modules for model checking

`MCRegion`, `MCRegionFile` and `MCDecompress` give the constants of
one specification each. `MCFileIo` (FileIo, Decompress), `MCCodec` (NbtStream, NbtInto, Transcoder), `MCView` (NbtView,
ViewNames), `MCValue` (Compound, Path, Snbt) and `MCTool` (NbtCli, RegionList,
NbtFile) check machines that share a subject but no state: a behaviour belongs
to one of them, and the others rest in a state in which they have nothing left
to do, so that the state spaces add up and do not multiply. The modules they
extend (`MCNbtStream`, `MCViewNames`, `MCPath`, `MCSnbt`, `MCNbtCli`,
`MCRegionList`) hold the inputs.

## Runs

| Run | Properties | Shows |
|---|---|---|
| region | TypeOK, CacheCoherent, LiveViewCurrent, SavedLayout, ViewsSurviveReads, ImplementsRegionSpec | reads, writes, removes, saves and reopens of a damaged file: cache and views stay current, blocks never overlap, Region refines RegionSpec |
| region_limits | PackInv, ImplementsRegionSpec | the save loop's invariant and the refinement, with chunks at and above the limits and files that are short, cut or corrupt |
| region_file | TornFileSafe, LostFromTheEnd, SavedIsRegion | edit, save, crash, reopen: a file cut off at any byte gives saved chunks whole or errors; a completed save is the Region |
| file_io | OkMeansAlmostWritten, QuietReadExact, OverlappedRead, OutputBounded, AnswerRight, CallsReturn, Returns | what Ok promises of the file; what a read returns, alone and under a writer; bounds, answers and termination of the growth loops of decompress |
| codec | RootsReadBack, CutIsSeen, SkipAgrees, Reencodes, HoldsLast, TranscodersInvert | framing, truncation, agreement of skip and decode, stability of re-encoding, patches of a span, MUTF-8 |
| view | MovedNamesSurvive, ShowsWhatDecodeReads, IterationAdvances | names that survive moves; iteration, lookups and scalars against decode |
| value | PointersStay, ImplementsMap, ParsesTheGrammar, FindsTheNode, RoundTrips, ReadsAsWritten | Compound refines an ordered map; paths against the grammar; SNBT round trip |
| tool | CommandsTell, ReadsBack, GuessesAgree, LinesTell | nbt-cli's answers; files read back with codec and dialect guessed |
| view_names_short, stream_end, cli_defaults, stdout_bytes | one each | the disagreements 1 to 4 below |

Bounds and why they are enough.

* Region: 2 x 2 slots, two of them touched by callers, one of these under two
  names. The operations of a slot touch no other slot except through the save
  loop, which needs a slot before, a slot after and an absent one. Payload sizes
  are chosen at the edges of a sector (4092 packed bytes and the header make one
  byte more than a sector), of the 16 MiB output bound and of the 255-sector
  count. The opened files have shared sectors, unknown codec bytes, zero lengths,
  zero counts, entries in the header and beyond the end. The proofs remove these
  bounds.
* RegionFile: blocks of one and of three sectors; a write is cut off in the
  header, at its end, inside a block's first bytes and inside a payload
  (`Cuts`); the stream's buffer is 4096 bytes (`kTail`). The proofs take any.
* FileIo: three byte strings of lengths 3, 2 and 0 that differ in every cell, one
  cell of buffer. A mixture of two versions needs two cells of one and one of the
  other; a length that shrinks or grows under a read needs two lengths.
* Decompress: sizes and limits on both sides of 4096, 65536 and of each other.
* Stream: two roots (framing needs one boundary), every kind of payload, every cut
  position, every byte position changed to each of nine values that are tags, sign
  bits, continuation bits or MUTF-8 leads. `kMaxDecodeDepth` is 3 instead of 512 so
  that documents at and above it are small; nothing depends on its value.
  `MaxNesting`, the depth of the roots, is 3 too.
* Into: seven roots, one that no dialect accepts, one that only Bedrock does, the
  empty one; seven span sizes, one of them the exact size of a root.
* View buffers: five documents per dialect and one more in Java, each intact and
  with every byte changed to each of six values.
* ViewNames: four objects (a View, its copy, where they are moved to, and one that
  takes a destroyed one's place), three heap blocks, names of each storage;
  objects and blocks are symmetric.
* Transcoder: all strings of up to three pieces out of 25: the first and last code
  point of every form, characters cut short, lone surrogates, overlong spellings,
  stray bytes. A character's form depends on at most six bytes, two of the longest
  pieces. The proofs take any byte string.
* Compound: three names, two values of two kinds, initial vectors that repeat a
  key, upserts up to `MaxEntries` = 4, two holders of pointers.
* Path: every text of up to six characters over a letter, a digit and the five
  characters with a meaning, compared with the grammar built from the segments
  up, and chosen longer texts; trees with lists, arrays and dotted keys;
  `kMaxIndex` = 99, so that three digits overflow.
* Snbt: trees of every kind, with names and strings that need quotes, escapes or
  neither, extreme and non-finite numbers, and decimals on either side of the middle
  of two floats; each of the writer's
  options changed from its default (`sort_keys`, which nothing reads, together with
  `quote_all_keys`); every cut; every symbol replaced by each symbol of `Damage`; and texts
  the writer never prints. Trees are nested once or twice, since the parser
  treats every level alike.
* NbtFile: names of the lengths detection turns on (0, 1, those that complete a
  zlib header, 127 and 128, 255 and 256); cuts to each of 0 to 40 bytes and around
  the ends of the longer names.
* NbtCli: 15 paths: exact, raw and packed, too long, too short, damaged, empty,
  spelled unusually, a directory, one whose status cannot be read, a directory with
  such a one inside, a missing one; argument lists of up to three; every cut of what
  is printed, in text mode and not.
* RegionList: all 7^4 tables of 2 x 2 slots over seven kinds of entry.

Deadlock is not checked where the system stops by design: a decompress call that
has returned, a stream or a document that has been read, a loop that has ended
(file_io, codec, view, value, tool).

Fairness. Every fair step is the next step of a straight-line call that nothing
can block: the whole of a decompress call, and in FileIo the steps that a call takes
when nothing goes wrong. These are the two places where the code retries (the growth
loops, `Returns`) or could (a read cut short by a writer, `CallsReturn`); that a `for`
over the slots of a region ends is left to its shape. No fairness is assumed of callers, crashes, errors or restarts, so that the liveness
properties hold whether or not those happen. The other specifications claim no
liveness; that iteration ends is the step property `IterationAdvances` together
with the part of `ShowsWhatDecodeReads` that keeps the offset inside the buffer.

## Proofs

Eight modules; the theorems hold for every value of the constants under the
assumptions the modules name. TLC evaluates the assumptions in every run.

`RegionProofs`, for every region size, set of payloads, file and caller:

* `TypeCorrect`, `PackingIsSound`, `LayoutCorrect`, `OffsetsFit`. The inductive
  invariant is `TypeOK` with `PackInv`: when the loop has done the slots below k,
  every populated one of them has its block, covered, at a place of its own that
  ends before the next, and the file has at most 2 + 255 k sectors. `SavedLayout`
  alone is not inductive, since it says nothing of the end of the file where the
  next block goes. `AppendPacks` is the main lemma; `CastsExact` shows that the
  casts to 24 and 8 bits lose nothing behind the code's check.
* `CacheIsCoherent`, `LiveViewsAreCurrent`, `ReadsKeepViews`. The first two
  invariants need each other: a view is current because its cache entry is.
* `BlocksAreMade` and `RegionImplementsSpec`: Region implements RegionSpec. Reads
  map to stuttering by cache coherence, writes and removes change one slot,
  `SaveDone` maps to the abstract save because `PackInv` says that a Region opened
  on the file finds every block again (`BlockReadsBack`, `SavedContents`), and all
  other steps of a save are invisible.

and for the file, with every cut: `FileTypeCorrect`, `TornFilesAreSafe`,
`CutsLoseTheEnd`, `SavedFilesAreTheRegion`. The invariant is Region's (`AllInv`) with what a dead process holds (`DownInv`), that between
`save_to_bytes` and the next edit the image and the Region hold the same
(`SaveInv`), and that only a file made by a save can be there in part, and such a
file has its blocks in the order of the slots (`OrderInv`). The last is what
"lost from the end" rests on, and it fails for a file from elsewhere.
`LinesAreRight` is the theorem of `region-list`: the lines printed so far are, in
order, those of the populated slots before the next one, and no read changes
what the others answer (`Opened`).

`FileIoProofs`, for every set of byte strings and buffer size: `TypeCorrect`,
`OkIsAlmostWritten`, `QuietReadsAreExact`, `OverlappedReadsAreSeen`. The invariant
adds that a write that has begun has put a prefix of its bytes (`WriterInv`), that
every cell a reader has taken was in the file at that place in some version since
the read began (`ReadingInv`), and that those versions are finitely many.

The same module has NbtFile, for every set of documents: `FilesReadBack`, a document
comes back from its file with the codec and the dialect guessed, and
`GuessesAlwaysAgree`, no file that lost its end, wherever it was cut, is read as a
document. The invariant is what the file is the beginning of (`FileInv`, `Holds`);
the rest is about bytes. `Fronted` says what a document that detection is made for
begins with: its tag, and a length in the way of its dialect before a name that can
be printed. From these bytes alone no codec is detected (`NoCodec`) and the dialect
is (`LongGuess`), but for one case: a VarInt document cut within its name is taken
for a little-endian one, whose name is then so long that it does not end in the
buffer (`MisreadName`); a cut LZ4 header is refused for the same reason
(`HeaderRefused`). What remains is `RootGets`: decode of the whole is the document,
and of a part the end of the input.

`ViewProofs`, for every set of objects and names: `TypeCorrect`,
`MovesKeepNames`. `HeapInv` says that a block in use has one live
owner and the reverse; `MovesInv` that a moved View's name points at the block it
now owns or into the buffer.

The same module has NbtView, for every buffer. `ChildrenInBuffer` and
`LoopAdvances`: the iterator stands between two entries or is done (`LoopInv`); an
entry takes at least its tag byte and lies in the buffer (`ChildInside`), however
far the walkers, which have no depth limit, go (`SkipsInside`).
`ViewsShowWhatIsRead`: where decode accepts the bytes, the loop, `find`, `at` and
the accessors show what it returns.
Three copies of one walk have to be told alike, and the argument is one lemma about
all of them: from places with the same bytes after them, two walks read the same
values and end as far along (`Abreast`, `Echoes`), when the second may go as many
levels deep or deeper than there are bytes left (`LevelsEcho`, by induction over the
levels and, for each, the bytes). With another walk over the same bytes it says that
the walkers stop where decode stops (`WalkedAsRead`) and that a payload reads the
same one level down (`LowerIs`); with the bytes that `materialise` puts together it
says that those decode to what stood in the buffer (`Materialised`). What is left is
each loop beside decode's: `ListShown` for `at`, which steps over the elements
before; `EntryShown` for one entry of a compound, whose name the view and decode
read differently (`NameRead`); from it `FindShown`, from the end of the buffer to its
beginning, and the invariant of the iteration, `LoopShows`: the entries visited are
the first of those that decode returns, and decode, started where the iterator
stands, returns the others.

`ValueProofs` has Compound, for every set of names and values: `TypeCorrect`,
`PointersCorrect`, `OrderCorrect`, `CompoundIsMap`. `FirstIsLeast` and `SameNames`
say what decides the entry a find stops at; `OneMore` what a new key adds;
the refinement then maps each call to one of CompoundSpec's, and a new key to
`Add` with the references kept or not as the vector moves.

The same module has Path, for every text and every tree: `PathTypeCorrect`, and
`GetAtFinds`, which is `FindsTheNode`. A segment is that of at most one child of a
value, and `find`, or the bounds check, goes to it or knows there is none
(`KeyNames`, `IndexNames`, `WrongKind`). So the invariant, `Walked`, says of every
step that its segment allowed no other, and of a failed one that it allowed none;
then whatever node the segments lead to lies on the way that was walked (`OneWay`).
That the parser stays inside its text is a fact about each of its loops
(`DigitsEnd`, `KeyEnd`, `FromCharsIs`, `QuotedEnds`).

`DecompressProofs`, for every stream and limit: `TypeCorrect`, `OutputIsBounded`,
`AnswersAreRight`. The invariant adds that the LZ4 loop always has more content to
come, which is why reaching the limit there is really too much content.

`Mutf8Proofs`, for every byte string: `EncoderInverted`, `DecoderInverted`,
`TextsRoundTrip`. What one transcoder accepts, the other gives back byte for byte.
A relation `Spelt` says for each of the five kinds of character how it stands in
UTF-8 and in MUTF-8. That a transcoder accepts a character exactly when it is
spelt so, and writes it so, is arithmetic on six-bit digits (`Utf8Reads`,
`Mutf8Reads` and the lemmas before them); each therefore undoes the other's
characters (`DecodingUndoes`, `EncodingUndoes`), and `LoopsInverse` carries that
over the loops. The lemmas on loops that the other modules use are here too
(`RoundsAre`, `WholeLoop`, `Upward`, `Downward`).

`CodecProofs`, for every byte string, cursor and depth limit: `SkipsWhatDecodes`.
Decode and skip take the same bytes for a root or fail alike, but for the one
licence `Alike` names (skip does not transcode). Every primitive leaves the cursor
inside the buffer (`Yields`); two reads that do `Same` continue with reads that do
`Same` (`Chain`); a loop of them does (`LoopsAgree`), where the compound's loop
ends because each round takes a byte; stepping over n elements of one size at once
is reading n of them (`SizedLoop`); and the levels follow from the innermost up
(`LevelsAgree`). The same module has `EncodesBytes`: encode returns bytes for every
tree, even when it fails half-way, by induction over the depth of the tree
(`ValuesAre`, `NestedTyped`, `WriteLevelsExist`, `PartsWritten`). And it has
`RootGets`, the round trip: what encode wrote for a root, wherever it stands in a
buffer, is decoded to that root and stepped over by skip, exactly to its last
byte; cut short, it is the end of the input; and only a root nested past the
depth limit may be refused instead. `Gets` says this of any reader and anything
written, where `Stand` says that the bytes are there as far as the buffer goes. It
is shown for the numbers (`SignedBack`, `ZigzagBack`: the digits of a VarInt and
the bytes of a word, for every number of the kind's range), lengths and strings
(`StringGets`, on `Mutf8Proofs`), carried from one part to the next (`GetsChain`,
`AfterGets`) and through loops (`LoopGets`), and then from the parts of one depth
to those around them (`PayloadGets`); `ValueGets` is the induction.

`StreamProofs`, for every set of roots and patches, every cut and damage:

* `SentRootsReadBack`, `CutIsAlwaysSeen`, `StreamTyped`, `SkipAlwaysAgrees`. The
  properties speak of the reads so far and are not inductive: what the next read
  returns depends on the bytes still ahead. `RootsInv` says what these are: the
  roots accepted stand one after the other from the beginning of the sink, each as
  encode wrote it (`Tiled`), whole until the bytes arrive and as far as they go
  afterwards (`SinkInv`); the reader took the first of them and is where the next
  one begins (`Taken`), or failed at that one for one of the two reasons there are
  (`FailsAt`).
* `SpansHoldTheLast`: what encode_into leaves in a span decodes to the last document
  accepted. `IntoInv` says that the span begins with that document as encode wrote
  it, which a refused call does not touch and an accepted one replaces.
* `DecodedEncodes` and, for the stream, `WhatDecodesReencodes`: whatever bytes decode
  accepts, torn and damaged ones too, encode writes the root it made of them, in no
  more bytes than were read, and those decode to the same root. The bytes may not be
  the ones encode would have written (a VarInt with needless digits, an empty list
  that names an element kind), so this does not follow from the round trip. Each part
  is shown to be of a kind that encode accepts and no longer than it was (`Short`,
  `UvarintSize`, `ZigzagReencodes`, `LengthReencodes`, and for texts the transcoders'
  inverses); a loop that read its items leaves a sequence of such parts (`Ran`);
  `PayloadBack` is one level, `LevelsBack` the induction over the levels, which also
  says that the Value has no End tag inside and is no deeper than decode goes, so
  that `RootGets` applies to what is written.

The inductions are over numbers (bytes taken, rounds left, levels left) and use
`Upward` and `Downward`, which name a set of numbers and not a predicate. A
recursive function is defined by a CHOOSE: each is first shown to exist
(`RoundsExist`, `LevelsExist`, `ValueLevelsExist`, `WriteLevelsExist`...), by
building it up to any bound.

`OffsetFits`, `BlocksMade`, `OrderKept` and the type invariants of Decompress,
FileIo, RegionFile, ViewNames, Compound, NbtStream and NbtInto are proved and are in no
cfg.

The assumptions: sizes are naturals, an uncompressed payload's packed size is its
raw size, opened files are images (every byte inside a file exists), error codes
are not payloads, an intact stream is not empty, names of the three storages of
ViewNames are distinct, byte strings are made of the cells, the depth limit is a
natural, the pieces of a text, the damage to a stream and the byte a span is
filled with are bytes, the sizes of spans are naturals, and roots and patches are
Values of some depth, as documents are, what a View is made of and damaged with is
bytes, the depth limit lets a root be decoded at all, what is printed of a double is
read as that double (Snbt), and Path's trees are made of
lists and compounds that are sequences of values. Five theorems have a
hypothesis besides, which TLC evaluates in `MCCodec` and `MCTool`:
`SentRootsReadBack` and `CutIsAlwaysSeen` need that no root has an End tag inside
(`ProperRoots`), and `SpansHoldTheLast`, `FilesReadBack` and `GuessesAlwaysAgree`
that no patch or document has, or nests deeper than decode goes (`ProperPatches`,
`ProperDocs`). Neither decode nor the SNBT parser makes a Value with an End tag
inside; a program can, and disagreement 2 below shows that such a Value does not
come back.

Only model-checked: liveness; the tool (`CommandsTell`); and the texts of Path and
Snbt, where the reference the code is compared with is a recursion over texts and
trees that no prover here can follow (`ParsesTheGrammar`, `RoundTrips`,
`ReadsAsWritten`).

## Disagreements found

Four have a run that shows them:

1. `view_names_short`: `make_view_root` points `name_view_` at `name_owned_` of the
   same View (view.cpp:140), and the implicit copy and move copy the pointer, so a
   transcoded name short enough to lie inside the object is another object's, or a
   destroyed one's, after a copy or a move; view.hpp:61-63 says "the type holds no
   invariants we need to defend beyond what its members already enforce".
   `NamesAreRight` is what fails; `MovedNamesSurvive` says which names are safe.
2. `stream_end`: a compound holding a default Value (EndTag) is encoded as if its
   name came after the compound's end (encode_java.cpp:142-150), against the
   byte-exact round trip of README.md:3.
3. `cli_defaults`: the subcommands share `fmt_name`, which is "auto"
   (main.cpp:226), so `from-snbt` without `--format` throws, whatever the default
   that `default_str` puts into the help text (main.cpp:248, 253).
4. `stdout_bytes`: `write_stdout` ignores the result of `fwrite` and leaves stdout in
   the mode it was opened in (main.cpp:42-45). On Windows that is text mode, and each
   byte 0A arrives as 0D 0A; 0A is the tag of every compound, so that what
   `from-snbt` and `decompress` print is another document, with exit status 0,
   against "Convert SNBT to binary NBT (stdout)" (main.cpp:246).
   `FromSnbtDecodes` says what can still be read: a document without that byte, and
   of one that did not arrive whole only the end of the input.

The others are stated at the end of the module named, under "What a doc or a
comment says and the code does not do", and no run lists them; TLC finds each one
violated when it is put in the cfg of the run in brackets by its name.

5. Region `WrittenChunkReads` [region]: `chunk_raw` always uses a 16 MiB
   bound (region_file.cpp:199, 253) and has no parameter for it, while
   compress.hpp:42-43 says "Default 64 MiB. Set higher when reading region files
   with very large chunks". A larger chunk can be written and saved but not read.
6. Decompress `OutputWithin` [file_io]: compress.hpp:41 calls max_output a hard
   upper bound; with 0 a gzip stream of up to 4096 bytes succeeds
   (libdeflate_wrap.cpp:50-54).
7. NbtStream `SinkHoldsRoots` [codec]: an Encoder::write that fails leaves the
   beginning of the root in the sink (encode_dispatch.cpp:99-102); encode.hpp:29
   speaks of appending roots.
8. NbtView `EveryEntryVisited` [view]: the iterator and find read Bedrock names as
   MUTF-8 (view.cpp:403-411, 441-444), though view.cpp:142 says they are plain
   UTF-8.
9. NbtView `BedrockStringsBorrowed` [view]: `as_string` refuses every string that
   is not ASCII, in Bedrock too (view.cpp:273), against view.hpp:45-46.
10. Path `PlainKeysAreFound` [value]: an unquoted key ends at a dot (path.cpp:26),
    while path.hpp:22-23 lists '.' among its characters.
11. Path `ArraysAreIndexed` [value]: an index into an array is refused
    (path.cpp:163); path.hpp:26 says "list / array index".
12. Path `MissIsMissing` [value]: an index past the end is LengthOverflow
    (path.cpp:156) and a text that does not parse SnbtSyntax, while path.hpp:64-66
    names two other errors.
13. Snbt `FloatsRoundTrip` [value]: infinities and NaNs are printed as words and
    come back as strings (snbt_writer.cpp:62), and some finite floats come back as
    their neighbours, since the parser reads a double and rounds it again
    (snbt_parser.cpp:381-388): 0x15AE43FD is printed `7.038531e-26f` and read as
    0x15AE43FE. README.md:117 has the heading "SNBT (Mojangson) round-trip".
14. Snbt `KeysAreSorted` [value]: `sort_keys` is read by nothing
    (snbt_writer.cpp:177, snbt.hpp:21).
15. NbtFile `RawIsRaw` [tool]: one in 31 second bytes passes the zlib test
    (detect.cpp:37), so that an uncompressed Bedrock String with a name of 29 bytes
    is inflated; compress.hpp:49 lists four second bytes after 0x78.
16. NbtFile `ContinuationIsVarInt` [tool]: a little-endian name of 128 to 255 bytes
    is taken for a VarInt (format.cpp:120), which the comment above calls
    "unambiguous".
17. NbtFile `LengthsAreZigZag` [tool]: string lengths are plain VarInts
    (name_io.hpp:87), while format.hpp:30-32 says every integer is ZigZag.
18. FileIo `OkMeansWritten` [file_io]: the last bytes are flushed by the
    destructor, after the check (io.cpp:58), so Ok can be answered for a file that
    lacks them, against the round trip of test_io.cpp:45-58.
    `OkMeansAlmostWritten` bounds the loss by the stream's buffer.
19. FileIo `ReadIsOneVersion` [file_io]: a read during a write returns bytes of two
    versions (io.cpp:28), though io.hpp:19-20 calls each call one filesystem
    operation. `OverlappedRead` says what it can return.
20. Transcoder `RejectedAsInvalid` [codec]: a text that ends inside a character is
    refused with UnexpectedEndOfInput (mutf8.cpp:102, 130, 221, 235, 262), which
    name_io.hpp:42-47 passes on, so that a damaged string in a complete document
    looks like a document cut short; mutf8.hpp:26-27 promises InvalidMutf8.

With `array_suffix_caps` off the SNBT writer prints `[b;...]`, which `parse_snbt`
does not read as an array; no doc promises that it does, and `RoundTrips` is
stated for the option on.

## Abstractions

* Error messages and offsets are dropped; error codes are kept where a property
  tells them apart.
* Compressed bytes are not modelled: a payload has sizes and a packer, and
  inflating it with another codec fails.
* A float is its bit pattern in the codec and its printed body in SNBT, where a table
  (`Prints`) says which bodies are read as another number; the
  payload of a NaN is not kept apart. 64-bit numbers outside 32 bits are one
  value, read but never written, because TLC's integers have 32 bits.
* A string or name is at most 2^31 - 1 bytes, the length of a longer one being
  unreadable.
* Memory is unbounded; an allocation failure is not modelled, and neither is
  `decode`'s reservation for a claimed count (it changes no answer).
* `decode_payload` of the tag End is unreachable from every caller and left out.
* The view walkers' and parse_snbt's missing depth limits are modelled (they walk
  where decode refuses); the stack they use is not.
* A View assignment is a destruction and a copy or move.
* In SNBT all whitespace is one symbol, the indent's width is left out, and a
  lexeme is one symbol.
* A crash keeps a prefix of what was written: a machine that loses power and
  writes back its pages out of order is not modelled, since the code never calls
  fsync and so asks for nothing there.
* Text printed by nbt-cli is the value it shows; its layout is left out.

## Not modelled

Build files, tests, fuzzers and benchmarks; the texts of error messages
(`error.cpp`) and the names of tags; the insides of libdeflate and lz4; CLI11.
What is left of `src/` without a definition is formatting, constructors and
plumbing that change no state a property speaks of.

## Plan

1. Done: Region with its abstract specification and proofs, and with its file and
   crashes; Decompress; FileIo; Mutf8, NbtWire, NbtCodec with NbtStream and
   NbtInto; NbtView and ViewNames; Detect and NbtFile; Compound; Path; Snbt; the
   command-line tool. Proofs of Region, RegionFile, RegionList, Decompress, FileIo,
   ViewNames, Compound, Path and Mutf8, of the agreement of decode, skip and the
   views, and of the round trip of encode and decode with what it means for a stream,
   a span and a file.
2. Open: that `parse_path` accepts exactly the grammar of path.hpp, proved; Decompress as an implementation of a
   one-step abstract call.
