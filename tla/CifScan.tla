------------------------------- MODULE CifScan -------------------------------
(***************************************************************************)
(* The scanner of parser.c and the parsing of values: next_token and the   *)
(* functions it scans with, decode_text, parse_value, parse_list,          *)
(* parse_table.  The parser goes on after no error: the error callback is  *)
(* the default one.  Line folding and text prefixes are recognized, as     *)
(* CIF 2.0 has it and an option for CIF 1.1.                               *)
(***************************************************************************)
EXTENDS CifForms

\* A value, as it is read and written
Scalar(kind, text, quoted) == [kind |-> kind, text |-> text, quoted |-> quoted]
Unk == Scalar("unk", UnkText, FALSE)
Na  == Scalar("na", NaText, FALSE)
Error == Scalar("error", <<>>, FALSE)

---------------------------------------------------------------------------
(* Text blocks *)

\* The length of the prefix, and whether the block is folded, by its first line
Marks(first) ==
    LET slashes == {i \in DOMAIN first : first[i] = "\\"}
        length  == Max(slashes \cup {0}) - Cardinality(slashes)
        marked  == /\ EndsInBackslash(first)
                   /\ \/ Cardinality(slashes) = 1
                      \/ Cardinality(slashes) = 2 /\ length > 0 /\ first[length + 1] = "\\"
    IN  IF marked THEN [prefix |-> length, folded |-> length = 0 \/ Cardinality(slashes) = 2]
        ELSE [prefix |-> 0, folded |-> FALSE]

\* A line up to the backslash that it ends in
Unfolded(line) == Front(Trimmed(line))

\* decode_text
DecodeText(t) ==
    LET lines == Lines(t)
        marks == Marks(Head(lines))
        prefix == SubSeq(t, 1, marks.prefix)
        bare(line) ==
            IF IsPrefix(prefix, line) THEN SubSeq(line, marks.prefix + 1, Len(line)) ELSE line
        logical(i) ==
            LET line == bare(lines[i])
            IN  IF i = Len(lines) THEN line
                ELSE IF marks.folded /\ EndsInBackslash(line) THEN Unfolded(line)
                ELSE Append(line, "nl")
    IN  IF t = <<>> \/ Head(t) = ";" \/ (marks.prefix = 0 /\ ~marks.folded) THEN t
        ELSE FlattenSeq([i \in 1..(Len(lines) - 1) |-> logical(i + 1)])

---------------------------------------------------------------------------
(* Tokens *)

\* A token with its text, and where the next one is looked for
Token(type, text, next) == [type |-> type, text |-> text, next |-> next]
BadToken == Token("ERROR", <<>>, 0)

\* Tokens that need not be separated from the one before, or the one after
Openers == {"OLIST", "OTABLE", "KEY", "TKEY", "END"}
Closes(c, cif2) == cif2 /\ c \in {"]", "}"}

\* Whitespace and comments, from i on; a comment needs whitespace before it.
RECURSIVE SkipSpace(_, _, _)
SkipSpace(s, i, spaced) ==
    IF i <= Len(s) /\ s[i] \in Whitespace THEN SkipSpace(s, i + 1, TRUE)
    ELSE IF i <= Len(s) /\ s[i] = "#" /\ spaced THEN SkipSpace(s, FirstOf(s, {"nl"}, i), spaced)
    ELSE [at |-> i, spaced |-> spaced]

\* scan_unquoted: brackets may be in the codes of blocks and frames.
ScanUnquoted(s, i, cif2) ==
    LET header == s[i] \in {"data_", "save_"}
        end    == FirstOf(s, Whitespace \cup (IF cif2 /\ ~header THEN Brackets ELSE {}), i)
        text   == SubSeq(s, i, end - 1)
        code   == Tail(text)
    IN  IF end <= Len(s) /\ s[end] \in {"[", "{"} THEN BadToken
        ELSE IF text = <<"data_">> \/ text \in {<<"stop_">>, <<"global_">>} THEN BadToken
        ELSE IF Head(text) = "data_" THEN Token("BLOCK_HEAD", code, end)
        ELSE IF text = <<"save_">> THEN Token("FRAME_TERM", code, end)
        ELSE IF Head(text) = "save_" THEN Token("FRAME_HEAD", code, end)
        ELSE IF text = <<"loop_">> THEN Token("LOOPKW", code, end)
        ELSE Token("VALUE", text, end)

\* A token that ends before `end'; of a delimiter of n characters
Delimited(type, s, i, end, n) ==
    IF end > Len(s) THEN BadToken ELSE Token(type, SubSeq(s, i, end - 1), end + n)

\* HANDLE_EOL in a token: the newline counts as a character of the line, so that
\* a line that has the full length is too long.
OrOverlength(token, lines) ==
    IF \E k \in DOMAIN lines : Len(lines[k]) >= LineLength THEN BadToken ELSE token

\* scan_delim_string: a string ends at its delimiter, which in CIF 1.1 counts
\* only if whitespace comes after it.  At the end of the line it is an error.
RECURSIVE EndOfQuoted(_, _, _, _)
EndOfQuoted(s, d, i, cif2) ==
    LET j == FirstOf(s, {d, "nl"}, i)
    IN  IF j > Len(s) \/ s[j] = "nl" THEN Len(s) + 1
        ELSE IF cif2 \/ j = Len(s) \/ s[j + 1] \in Whitespace THEN j
        ELSE EndOfQuoted(s, d, j + 1, cif2)

\* scan_delim_string and scan_triple_delim_string.  The third of the quotes is
\* not counted, which makes up for the newline in the first line.
ScanQuoted(s, i, cif2) ==
    LET d     == s[i]
        token == Delimited("QVALUE", s, i + 3, FirstSeq(s, Tripled(d), i + 3), 3)
        lines == Lines(token.text)
    IN  IF cif2 /\ i + 2 <= Len(s) /\ s[i + 1] = d /\ s[i + 2] = d
        THEN OrOverlength(token, SubSeq(lines, 2, Len(lines) - 1))
        ELSE Delimited("QVALUE", s, i + 1, EndOfQuoted(s, d, i + 1, cif2), 1)

\* scan_text
ScanText(s, i) ==
    LET token == Delimited("TVALUE", s, i + 1, FirstSeq(s, <<"nl", ";">>, i + 1), 2)
    IN  OrOverlength(token, Lines(<<";">> \o token.text))

\* A string with a colon after it is a key.
OrKey(token, s, type) ==
    IF token # BadToken /\ token.next <= Len(s) /\ s[token.next] = ":"
    THEN [token EXCEPT !.type = type, !.next = @ + 1]
    ELSE token

\* next_token, after a token of type `last'
NextToken(s, i, last, cif2) ==
    LET space == SkipSpace(s, i, last \in Openers)
        j     == space.at
        c     == s[j]
        column1 == j = 1 \/ s[j - 1] = "nl"
    IN  CASE j > Len(s) -> Token("END", <<>>, j)
          [] j <= Len(s) /\ ~space.spaced /\ ~Closes(c, cif2) -> BadToken
          [] OTHER ->
                CASE c = "_" -> LET end == FirstOf(s, Whitespace, j)
                                IN  Token("NAME", SubSeq(s, j, end - 1), end)
                  [] c = "[" /\ cif2 -> Token("OLIST", <<c>>, j + 1)
                  [] c = "]" /\ cif2 -> Token("CLIST", <<c>>, j + 1)
                  [] c = "{" /\ cif2 -> Token("OTABLE", <<c>>, j + 1)
                  [] c = "}" /\ cif2 -> Token("CTABLE", <<c>>, j + 1)
                  [] c \in {"'", "\""} -> OrKey(ScanQuoted(s, j, cif2), s, "KEY")
                  [] c = ";" /\ column1 -> IF cif2 THEN OrKey(ScanText(s, j), s, "TKEY")
                                           ELSE ScanText(s, j)
                  [] OTHER -> ScanUnquoted(s, j, cif2)

RECURSIVE TokensFrom(_, _, _, _)
TokensFrom(s, i, last, cif2) ==
    LET t == NextToken(s, i, last, cif2)
    IN  IF t.type \in {"END", "ERROR"} THEN <<t>>
        ELSE <<t>> \o TokensFrom(s, t.next, t.type, cif2)

---------------------------------------------------------------------------
(* Values *)

\* A value, or what else was parsed, and the rest of the tokens
Parsed(v, rest) == [val |-> v, rest |-> rest]

\* What parse_value makes of a token without delimiters
Bare(text, cif2) ==
    IF text = UnkText THEN Unk
    ELSE IF text = NaText THEN Na
    ELSE IF Reserved(text) \/ (cif2 /\ Has(text, Brackets)) THEN Error
    ELSE Scalar("char", text, FALSE)

RECURSIVE ParseValue(_, _), ParseList(_, _, _), ParseTable(_, _, _)

\* parse_list, after some elements
ParseList(ts, elements, cif2) ==
    LET t == Head(ts)
        e == ParseValue(ts, cif2)
    IN  IF t.type = "CLIST" THEN Parsed([kind |-> "list", elements |-> elements], Tail(ts))
        ELSE IF e.val = Error THEN Parsed(Error, ts)
        ELSE ParseList(e.rest, Append(elements, e.val), cif2)

\* parse_table, after some entries: a key and its value, or the end
ParseTable(ts, entries, cif2) ==
    LET t == Head(ts)
        e == ParseValue(Tail(ts), cif2)
    IN  IF t.type = "CTABLE" THEN Parsed([kind |-> "table", entries |-> entries], Tail(ts))
        ELSE IF t.type # "KEY" \/ e.val = Error THEN Parsed(Error, ts)
        ELSE ParseTable(e.rest, Append(entries, [key |-> t.text, val |-> e.val]), cif2)

\* parse_value
ParseValue(ts, cif2) ==
    LET t == Head(ts) IN
    CASE t.type = "OLIST"  -> ParseList(Tail(ts), <<>>, cif2)
      [] t.type = "OTABLE" -> ParseTable(Tail(ts), <<>>, cif2)
      [] t.type = "TVALUE" -> Parsed(Scalar("char", DecodeText(t.text), TRUE), Tail(ts))
      [] t.type = "QVALUE" -> Parsed(Scalar("char", t.text, TRUE), Tail(ts))
      [] t.type = "VALUE"  -> Parsed(Bare(t.text, cif2), Tail(ts))
      [] OTHER -> Parsed(Error, ts)

\* A file as it is read: values, and other tokens with their texts.  The
\* brackets of lists and tables are in values.
RECURSIVE Contents(_, _)
Contents(ts, cif2) ==
    LET t == Head(ts)
        v == ParseValue(ts, cif2)
    IN  IF t.type = "END" THEN <<>>
        ELSE IF t.type \in {"NAME", "BLOCK_HEAD", "FRAME_HEAD", "FRAME_TERM", "LOOPKW"}
        THEN <<[type |-> t.type, text |-> t.text]>> \o Contents(Tail(ts), cif2)
        ELSE IF v.val = Error THEN <<Error>>
        ELSE <<v.val>> \o Contents(v.rest, cif2)

\* A line that ends between tokens may have the full length (HANDLE_EOL).
Read(s, cif2) ==
    IF LongestOf(Lines(s)) > LineLength THEN <<Error>>
    ELSE Contents(TokensFrom(s, 1, "END", cif2), cif2)

=============================================================================
