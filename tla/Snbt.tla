-------------------------------- MODULE Snbt --------------------------------
(***************************************************************************)
(* to_snbt and parse_snbt, and a text on its way from the one to the       *)
(* other.  A text is a sequence of symbols: a character <<"ch", c>>, or a  *)
(* lexeme <<"lex", body, suffix>>, which is a longest run of unquoted      *)
(* identifier characters, taken apart as parse_unquoted_or_number does:    *)
(* the suffix is its last letter, if that is one of Suffixes, and the body *)
(* the rest.  All whitespace is the one character " ".                     *)
(*                                                                         *)
(* A body is one of                                                        *)
(*   <<"int", k>>   an integer of up to 64 bits, without a '+'             *)
(*   <<"more", k>>  one followed by more of the characters of numbers      *)
(*   <<"big", x>>   one of more bits than that                             *)
(*   <<"dec", x>>   a decimal, with a '.' or an 'e'                        *)
(*   <<"plus", x>>  a '+' and digits, which std::from_chars refuses        *)
(*   <<"bad", x>>   other number characters that it refuses: no digits, or *)
(*                  a decimal out of the range of a double                 *)
(*   <<"word", w>>  anything else, and <<"word", "">> for nothing at all   *)
(* Values are those of NbtWire, but strings and names are sequences of     *)
(* symbols and a Float or Double is the body that std::to_chars prints of  *)
(* it.                                                                     *)
(*                                                                         *)
(* A definition whose name extends that of the next one is that one with a *)
(* slip in it, and is not used.                                            *)
(***************************************************************************)
EXTENDS Integers, Sequences, FiniteSetsExt, SequencesExt

CONSTANTS
  Trees,        \* the Values callers write
  Options,      \* the SnbtOptions they write them with
  Prints,       \* per kind, the bodies read as a number printed otherwise: how
  Snippets,     \* texts from elsewhere
  Damage        \* the characters a changed symbol may become

Ch(x) == <<"ch", x>>
Lex(body, suffix) == <<"lex", body, suffix>>
IsLex(symbol) == symbol[1] = "lex"

Nothing == <<"word", "">>
Infinity == <<"word", "inf">>

\* 2^63 - 1: a 64-bit integer whose low 32 bits are those of -1.
Wide == 2147483647

\* std::to_chars prints as much of a double as std::from_chars needs to read it
\* again.
ASSUME PrintsAssumption ==
  \A body \in DOMAIN Prints.Double : Prints.Double[body] \notin DOMAIN Prints.Double

Suffix == [Byte |-> "b", Short |-> "s", Int |-> "", Long |-> "L",
           Float |-> "f", Double |-> "d"]

Elem == [ByteArray |-> "Byte", IntArray |-> "Int", LongArray |-> "Long"]

-----------------------------------------------------------------------------
(* The writer.                                                             *)

needs_quotingButEmpty(s) == \E i \in DOMAIN s : ~ IsLex(s[i])
needs_quoting(s) == s = <<>> \/ \E i \in DOMAIN s : ~ IsLex(s[i])

emit_quotedBare(s) ==
  <<Ch("\"")>>
    \o FlattenSeq([i \in DOMAIN s |-> IF s[i] = Ch("\"") THEN <<Ch("\\"), s[i]>>
                                      ELSE <<s[i]>>])
    \o <<Ch("\"")>>
emit_quoted(s) ==
  <<Ch("\"")>>
    \o FlattenSeq([i \in DOMAIN s |->
                     IF s[i] \in {Ch("\""), Ch("\\")} THEN <<Ch("\\"), s[i]>>
                     ELSE <<s[i]>>])
    \o <<Ch("\"")>>

emit_key(key, opts) ==
  IF opts.quote_all_keys \/ needs_quoting(key) THEN emit_quoted(key) ELSE key

emit_number(v) ==
  <<Lex(IF v[1] \in {"Float", "Double"} THEN v[2] ELSE <<"int", v[2]>>,
        Suffix[v[1]])>>

ArrayTag(kind, caps) ==
  IF kind = "ByteArray" THEN Lex(Nothing, IF caps THEN "B" ELSE "b")
  ELSE IF kind = "IntArray" THEN Lex(<<"word", IF caps THEN "I" ELSE "i">>, "")
  ELSE IF caps THEN Lex(Nothing, "L") ELSE Lex(<<"word", "l">>, "")

Gap(opts) == IF opts.pretty THEN <<Ch(" ")>> ELSE <<>>

\* Items between brackets, each on a line of its own when pretty.
emit_items(open, items, close, opts) ==
  LET comma(i) == IF i < Len(items) THEN <<Ch(",")>> ELSE <<>>
  IN  <<Ch(open)>>
        \o FlattenSeq([i \in DOMAIN items |-> Gap(opts) \o items[i] \o comma(i)])
        \o (IF items = <<>> THEN <<>> ELSE Gap(opts)) \o <<Ch(close)>>

\* sort_keys is not looked at.
RECURSIVE emit_value(_, _)
emit_value(v, opts) ==
  LET kind == v[1]
      data == v[2]
  IN  IF kind = "End" THEN <<Lex(<<"word", "END">>, "")>>
      ELSE IF kind \in DOMAIN Suffix THEN emit_number(v)
      ELSE IF kind = "String" THEN emit_quoted(data)
      ELSE IF kind \in DOMAIN Elem
        THEN <<Ch("["), ArrayTag(kind, opts.array_suffix_caps), Ch(";")>>
               \o Tail(emit_items("[", [i \in DOMAIN data |->
                                          emit_number(<<Elem[kind], data[i]>>)],
                                  "]", [opts EXCEPT !.pretty = FALSE]))
      ELSE IF kind = "List"
        THEN emit_items("[", [i \in DOMAIN data |-> emit_value(data[i], opts)],
                        "]", opts)
      ELSE emit_items("{", [i \in DOMAIN data |->
                              emit_key(data[i][1], opts) \o <<Ch(":")>>
                                \o Gap(opts) \o emit_value(data[i][2], opts)],
                      "}", opts)

to_snbt(v, opts) == emit_value(v, opts)

-----------------------------------------------------------------------------
(* The parser.  A position is a number of symbols.                         *)

Ok(v, pos) == [ok |-> TRUE, v |-> v, pos |-> pos]
Err(code, pos) == [ok |-> FALSE, v |-> code, pos |-> pos]
Syntax(pos) == Err("SnbtSyntax", pos)

\* `if (!r) return unexpected(r.error());` and the rest of the function.
Then(r, Rest(_, _)) == IF r.ok THEN Rest(r.v, r.pos) ELSE r

peek(t, pos, x) == pos < Len(t) /\ t[pos + 1] = Ch(x)

\* Where the run of symbols in Of that begins at pos ends.
PastRun(t, pos, Of(_)) ==
  Min({m \in pos .. Len(t) : m = Len(t) \/ ~ Of(t[m + 1])})

skip_ws(t, pos) == PastRun(t, pos, LAMBDA s : s = Ch(" "))

\* The low bits of a number, as a signed one.
narrow(k, width) ==
  LET u == k % (2 ^ width)
  IN  IF u >= 2 ^ (width - 1) THEN u - 2 ^ width ELSE u

Narrow(kind, k) ==
  IF kind = "Byte" THEN narrow(k, 8)
  ELSE IF kind = "Short" THEN narrow(k, 16)
  ELSE IF kind = "Int" /\ k = Wide THEN -1
  ELSE k

\* A body read as a double, which is narrowed to make a float: what is printed
\* of the number.  Narrowing rounds a second time, so it may print another text
\* of a float too: 7.038531e-26, printed of the float 0x15AE43FD, is as a double
\* midway between that and the next one, 7.0385313e-26, which is the even one.
numberSingle(kind, body) ==
  IF body \in DOMAIN Prints.Float THEN Prints.Float[body] ELSE body
number(kind, body) ==
  IF body \in DOMAIN Prints[kind] THEN Prints[kind][body] ELSE body

\* parse_unquoted_or_number on the lexeme at pos.
lexeme_value(symbol, pos) ==
  LET body == symbol[2]
      suffix == symbol[3]
      decimal == suffix \in {"f", "F", "d", "D"} \/ body[1] = "dec"
      kind == IF suffix \in {"f", "F"} THEN "Float"
              ELSE IF decimal THEN "Double"
              ELSE IF suffix \in {"b", "B"} THEN "Byte"
              ELSE IF suffix \in {"s", "S"} THEN "Short"
              ELSE IF suffix = "L" \/ body[2] = Wide THEN "Long"
              ELSE "Int"
  IN  IF symbol = Lex(<<"word", "true">>, "") THEN Ok(<<"Byte", 1>>, pos)
      ELSE IF symbol = Lex(<<"word", "false">>, "") THEN Ok(<<"Byte", 0>>, pos)
      ELSE IF body[1] = "word" THEN Ok(<<"String", <<symbol>> >>, pos)
      ELSE IF body[1] \in {"plus", "bad"} \/ (body[1] = "big" /\ ~ decimal)
        THEN Err("SnbtNumberOutOfRange", pos)
      ELSE IF decimal THEN Ok(<<kind, number(kind, body)>>, pos)
      ELSE Ok(<<kind, Narrow(kind, body[2])>>, pos)

RECURSIVE quoted(_, _, _, _)
quoted(t, pos, quote, out) ==
  IF pos >= Len(t) THEN Syntax(pos)
  ELSE LET s == t[pos + 1] IN
       IF s = quote THEN Ok(out, pos + 1)
       ELSE IF s # Ch("\\") THEN quoted(t, pos + 1, quote, Append(out, s))
       ELSE IF pos + 1 < Len(t) /\ t[pos + 2] \in {Ch("\""), Ch("'"), Ch("\\")}
         THEN quoted(t, pos + 2, quote, Append(out, t[pos + 2]))
       ELSE Syntax(pos)

AtQuote(t, pos) == peek(t, pos, "\"") \/ peek(t, pos, "'")

parse_quoted_string(t, pos) == quoted(t, pos + 1, t[pos + 1], <<>>)

parse_key(t, pos) ==
  IF AtQuote(t, pos) THEN parse_quoted_string(t, pos)
  ELSE LET e == PastRun(t, pos, IsLex)
       IN  IF e = pos THEN Syntax(pos) ELSE Ok(SubSeq(t, pos + 1, e), e)

\* parse_number, which takes the digits that it finds, and the check of what
\* it returns: an integer that the array's element type holds, whatever the
\* suffix.  What follows the digits is then not a comma.
IntegerBodies == {"int", "more"}

parse_elementWrapped(t, pos, kind) ==
  LET s == t[pos + 1] IN
  IF pos >= Len(t) \/ ~ IsLex(s) \/ s[2][1] \notin IntegerBodies \cup {"big", "plus"}
    THEN Syntax(pos)
  ELSE IF s[2][1] \notin IntegerBodies THEN Err("SnbtNumberOutOfRange", pos + 1)
  ELSE IF s[2][1] = "more" \/ s[3] \in {"f", "F", "d", "D"} THEN Syntax(pos)
  ELSE Ok(Narrow(kind, s[2][2]), pos + 1)
parse_element(t, pos, kind) ==
  LET s == t[pos + 1] IN
  IF pos >= Len(t) \/ ~ IsLex(s) \/ s[2][1] \notin IntegerBodies \cup {"big", "plus"}
    THEN Syntax(pos)
  ELSE IF s[2][1] \notin IntegerBodies \/ Narrow(kind, s[2][2]) # s[2][2]
    THEN Err("SnbtNumberOutOfRange", pos + 1)
  ELSE IF s[2][1] = "more" \/ s[3] \in {"f", "F", "d", "D"} THEN Syntax(pos)
  ELSE Ok(s[2][2], pos + 1)

RECURSIVE parse_value(_, _), parse_elements(_, _, _, _),
          parse_list(_, _, _), parse_entries(_, _, _)

\* After an item: another one, or the closing bracket.
after_itemLenient(t, pos, close) ==
  LET p == skip_ws(t, pos) IN
  IF peek(t, p, ",") THEN [is |-> "more", pos |-> p + 1]
  ELSE IF peek(t, p, close) THEN [is |-> "end", pos |-> p + 1]
  ELSE [is |-> IF p = Len(t) THEN "end" ELSE "neither", pos |-> p]
after_item(t, pos, close) ==
  LET p == skip_ws(t, pos) IN
  IF peek(t, p, ",") THEN [is |-> "more", pos |-> p + 1]
  ELSE IF peek(t, p, close) THEN [is |-> "end", pos |-> p + 1]
  ELSE [is |-> "neither", pos |-> p]

Finish(after, done) ==
  IF after.is = "end" THEN Ok(done, after.pos) ELSE Syntax(after.pos)

parse_elements(t, pos, kind, sofar) ==
  Then(parse_element(t, skip_ws(t, pos), Elem[kind]), LAMBDA x, p :
    LET all == Append(sofar, x)
        after == after_item(t, p, "]")
    IN  IF after.is = "more" THEN parse_elements(t, after.pos, kind, all)
        ELSE Finish(after, <<kind, all>>))

parse_listMixed(t, pos, sofar) ==
  Then(parse_value(t, pos), LAMBDA x, p :
    LET all == Append(sofar, x)
        after == after_item(t, p, "]")
    IN  IF after.is = "more" THEN parse_list(t, after.pos, all)
        ELSE Finish(after, <<"List", all>>))
parse_list(t, pos, sofar) ==
  Then(parse_value(t, pos), LAMBDA x, p :
    LET all == Append(sofar, x)
        after == after_item(t, p, "]")
    IN  IF x[1] # all[1][1] THEN Err("MixedListArm", p)
        ELSE IF after.is = "more" THEN parse_list(t, after.pos, all)
        ELSE Finish(after, <<"List", all>>))

parse_entry(t, pos) ==
  Then(parse_key(t, skip_ws(t, pos)), LAMBDA key, p :
    LET q == skip_ws(t, p) IN
    IF peek(t, q, ":")
    THEN Then(parse_value(t, q + 1), LAMBDA x, r : Ok(<<key, x>>, r))
    ELSE Syntax(q))

parse_entries(t, pos, sofar) ==
  Then(parse_entry(t, pos), LAMBDA entry, p :
    LET all == Append(sofar, entry)
        after == after_item(t, p, "}")
    IN  IF after.is = "more" THEN parse_entries(t, after.pos, all)
        ELSE Finish(after, <<"Compound", all>>))

parse_array_or_list(t, pos) ==
  LET tags == {k \in DOMAIN Elem : pos < Len(t) /\ peek(t, pos + 1, ";")
                                     /\ t[pos + 1] = ArrayTag(k, TRUE)}
  IN  IF tags # {}
      THEN LET kind == CHOOSE k \in tags : TRUE
               p == skip_ws(t, pos + 2)
           IN  IF peek(t, p, "]") THEN Ok(<<kind, <<>> >>, p + 1)
               ELSE parse_elements(t, p, kind, <<>>)
      ELSE LET p == skip_ws(t, pos)
           IN  IF peek(t, p, "]") THEN Ok(<<"List", <<>> >>, p + 1)
               ELSE parse_list(t, p, <<>>)

parse_compound(t, pos) ==
  LET p == skip_ws(t, pos)
  IN  IF peek(t, p, "}") THEN Ok(<<"Compound", <<>> >>, p + 1)
      ELSE parse_entries(t, p, <<>>)

parse_value(t, pos) ==
  LET p == skip_ws(t, pos)
  IN  IF p = Len(t) THEN Syntax(p)
      ELSE IF peek(t, p, "{") THEN parse_compound(t, p + 1)
      ELSE IF peek(t, p, "[") THEN parse_array_or_list(t, p + 1)
      ELSE IF AtQuote(t, p)
        THEN Then(parse_quoted_string(t, p), LAMBDA s, q : Ok(<<"String", s>>, q))
      ELSE IF IsLex(t[p + 1]) THEN lexeme_value(t[p + 1], p + 1)
      ELSE Syntax(p)

parse_snbt(t) ==
  Then(parse_value(t, 0), LAMBDA v, p :
    IF skip_ws(t, p) = Len(t) THEN Ok(v, Len(t)) ELSE Syntax(skip_ws(t, p)))

-----------------------------------------------------------------------------
(* A text: written, cut or changed, or from elsewhere; then parsed.        *)

VARIABLES
  value,        \* what was written
  opts,         \* with which options
  symbols,
  from,         \* where the text is from
  parsed        \* what parse_snbt made of it, if it has been called

snbtVars == <<value, opts, symbols, from, parsed>>

NotYet == <<>>

SnbtInit ==
  /\ value \in Trees /\ opts \in Options
  /\ symbols = <<>> /\ from = "nowhere" /\ parsed = NotYet

ToSnbt ==
  /\ from = "nowhere"
  /\ symbols' = to_snbt(value, opts) /\ from' = "writer"
  /\ UNCHANGED <<value, opts, parsed>>

TypeIn ==
  /\ from = "nowhere"
  /\ symbols' \in Snippets /\ from' = "elsewhere"
  /\ UNCHANGED <<value, opts, parsed>>

LoseEnd ==
  /\ from = "writer" /\ parsed = NotYet
  /\ \E m \in 0 .. Len(symbols) - 1 : symbols' = SubSeq(symbols, 1, m)
  /\ from' = "cut"
  /\ UNCHANGED <<value, opts, parsed>>

ChangeSymbol ==
  /\ from = "writer" /\ parsed = NotYet
  /\ \E m \in DOMAIN symbols, x \in Damage : symbols' = [symbols EXCEPT ![m] = Ch(x)]
  /\ from' = "elsewhere"
  /\ UNCHANGED <<value, opts, parsed>>

ParseSnbt ==
  /\ from # "nowhere" /\ parsed = NotYet
  /\ parsed' = <<parse_snbt(symbols)>>
  /\ UNCHANGED <<value, opts, symbols, from>>

SnbtNext == ToSnbt \/ TypeIn \/ LoseEnd \/ ChangeSymbol \/ ParseSnbt

SnbtSpec == SnbtInit /\ [][SnbtNext]_snbtVars

-----------------------------------------------------------------------------
(* Properties.                                                             *)

Accepted == parsed # NotYet /\ parsed[1].ok

\* A tree that the encoder takes: lists of one arm, numbers in range.
RECURSIVE WellFormed(_)
WellFormed(v) ==
  IF v[1] \in DOMAIN Elem
    THEN \A i \in DOMAIN v[2] : Narrow(Elem[v[1]], v[2][i]) = v[2][i]
  ELSE IF v[1] = "List"
    THEN \A i \in DOMAIN v[2] : WellFormed(v[2][i]) /\ v[2][i][1] = v[2][1][1]
  ELSE IF v[1] = "Compound" THEN \A i \in DOMAIN v[2] : WellFormed(v[2][i][2])
  ELSE IF v[1] \in {"Byte", "Short", "Int", "Long"}
    THEN Narrow(v[1], v[2]) = v[2]
  ELSE v[1] \in {"Float", "Double", "String"}

\* Whatever the text, a value that parse_snbt returns is one the encoder can
\* write, and an error is at a place in the text.
SnbtTypeOK ==
  parsed # NotYet =>
    /\ parsed[1].pos \in 0 .. Len(symbols)
    /\ parsed[1].ok => WellFormed(parsed[1].v)

\* No infinity, no NaN, no End, and no float whose text narrows to another one.
RECURSIVE Survives(_)
Survives(v) ==
  IF v[1] = "Float" THEN v[2][1] # "word" /\ v[2] \notin DOMAIN Prints.Float
  ELSE IF v[1] = "Double" THEN v[2][1] # "word"
  ELSE IF v[1] = "List" THEN \A i \in DOMAIN v[2] : Survives(v[2][i])
  ELSE IF v[1] = "Compound" THEN \A i \in DOMAIN v[2] : Survives(v[2][i][2])
  ELSE v[1] # "End"

ReadsBack == parsed[1].ok /\ parsed[1].v = value

\* What to_snbt writes parses to the same Value, kinds of numbers and order of
\* keys included, with any options that vanilla's reader shares; what does not
\* is an infinity, a NaN, an End or one of the floats that are printed as a text
\* which, read as a double first, narrows to the next float, and nothing else.
RoundTrips ==
  (from = "writer" /\ parsed # NotYet /\ opts.array_suffix_caps) =>
    (ReadsBack <=> Survives(value))

\* The text of a compound, a list, an array or a string that has lost its end
\* is refused, not taken for a smaller value.
CutIsRefused ==
  (from = "cut" /\ value[1] \notin DOMAIN Suffix \cup {"End"}) => ~ Accepted

\* The elements of an array are the numbers in its text: one that the element
\* type does not hold is refused, not wrapped as a number alone is.
ElementsAsWritten ==
  LET numbers == SelectSeq(symbols, LAMBDA s : IsLex(s) /\ s[2][1] = "int")
  IN  (Accepted /\ parsed[1].v[1] \in DOMAIN Elem) =>
        parsed[1].v[2] = [i \in DOMAIN numbers |-> numbers[i][2][2]]

\* A value read from any text is one that to_snbt writes so that it is read
\* again: of what the parser lets through nothing is lost on the way back but
\* what RoundTrips excepts.
Settles ==
  (Accepted /\ opts.array_suffix_caps) =>
    \A again \in {parse_snbt(to_snbt(parsed[1].v, opts))} :
      Survives(parsed[1].v) => (again.ok /\ again.v = parsed[1].v)

-----------------------------------------------------------------------------
(* What a doc or a comment says and the code does not do: not invariants.  *)

\* "SNBT (Mojangson) round-trip" (README.md:117), of any float or double: not of
\* an infinity or a NaN, nor of the float 0x15AE43FD.
FloatsRoundTrip ==
  (from = "writer" /\ parsed # NotYet /\ value[1] \in {"Float", "Double"}) =>
    ReadsBack

\* "off: preserves Compound insertion order" (snbt.hpp:21), so that when it is
\* on the order of the insertions does not show.
KeysAreSorted ==
  (from = "writer" /\ opts.sort_keys /\ value[1] = "Compound") =>
    symbols = to_snbt(<<"Compound", Reverse(value[2])>>, opts)

=============================================================================
