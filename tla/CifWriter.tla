------------------------------ MODULE CifWriter ------------------------------
(***************************************************************************)
(* cif_write (ciffile.c): the handlers that write what cif_walk visits, in *)
(* CIF 2.0 or CIF 1.1.  The walk itself is the business of CifWalk; here   *)
(* it calls the handlers in any order that some CIF has them called in.    *)
(* The output device never fails.                                          *)
(***************************************************************************)
EXTENDS CifScan

CONSTANTS
    Versions,       \* the CIF versions written
    Codes, Names,   \* of blocks, frames and items
    Values,         \* the values written
    CommonValues,   \* bound: all values of a file but one are among these
    MaxValues       \* bound: the values in a file

VARIABLES
    version,
    context,    \* what is written so far, and the fields of write_context_t that
                \* change; whether a handler has failed, and how
    place,      \* the elements that the walk is in, from the outside
    left,       \* the items still to come in the packet, or <<>>
    names,      \* the items of the loop
    written     \* what was written so far, as it should be read (a ghost)

vars == <<version, context, place, left, names, written>>

CIF1 == version = 1

---------------------------------------------------------------------------
(* Writing: each of these does nothing once one before it has failed. *)

Failed(c, how) == [c EXCEPT !.status = how]

\* Outputs text, after which the last column is given.
Put(c, text, column) == [c EXCEPT !.out = @ \o text, !.last_column = column]

\* write_newline
Newline(c) == IF c.status # "ok" THEN c ELSE Put(c, <<"nl">>, 0)

\* write_literal, write_uliteral
Literal(c, text, wrap) ==
    IF c.status # "ok" THEN c
    ELSE IF c.last_column + Len(text) <= LineLength THEN Put(c, text, c.last_column + Len(text))
    ELSE IF wrap THEN Put(Newline(c), text, Len(text))
    ELSE Failed(c, "error")

EnsureSpacedOffByOne(c) ==
    IF c.last_column = 0 THEN c
    ELSE IF c.last_column <= LineLength THEN Literal(c, <<" ">>, FALSE)
    ELSE Newline(c)

\* ENSURE_SPACED
EnsureSpaced(c) ==
    IF c.last_column = 0 THEN c
    ELSE IF c.last_column < LineLength THEN Literal(c, <<" ">>, FALSE)
    ELSE Newline(c)

QuotedWithoutDelimiters(c, text, d) ==
    LET s == IF c.last_column + Len(text) > LineLength THEN Newline(c) ELSE c
    IN  Put(s, d \o text \o d, s.last_column + Len(text) + 2)

\* write_quoted
Quoted(c, text, d) ==
    LET s == IF c.last_column + Len(text) + 2 > LineLength THEN Newline(c) ELSE c
    IN  Put(s, d \o text \o d, s.last_column + Len(text) + 2)

TripleForgetful(c, text, d) ==
    Put(c, d \o text \o d, Len(Last(Lines(text))) + 3)

\* write_triple_quoted, given the length of the first line and three more; it
\* counts these as characters of the text, so that those of one line all fail.
\* As in every build without assertions: where it takes the text to have a line
\* end (ciffile.c:1249) there is another character, or none if the text is short.
TripleQuoted(c, text, d) ==
    LET line1 == Len(Head(Lines(text))) + 3
        fresh == c.last_column + line1 + 3 > LineLength
        s     == IF fresh THEN Newline(c) ELSE c
        column == IF ~fresh /\ line1 < Len(text) THEN 0 ELSE s.last_column
        done  == Put(s, d \o text \o d, column + Len(Last(Lines(text))) + 3)
    IN  IF Len(text) >= line1 THEN done ELSE Failed(done, "error")

\* write_text and its closing delimiter
Text(c, text) ==
    LET block == TextBlock(text, Folded(text), ContainsTextDelim(text))
    IN  IF Has(block, {Unfoldable}) THEN Failed(c, "error") ELSE Put(c, block \o <<";">>, 1)

\* cif_validate_cif11_characters; "u" is a character beyond ASCII.
Allowed(text) == CIF1 => ~Has(text, {"u"})

\* write_char
WriteChar(c, v, allowText) ==
    LET d == Delimiter(v.text, ~v.quoted, ~CIF1)
    IN  IF c.status # "ok" THEN c
        ELSE IF ~Allowed(v.text) THEN Failed(c, "disallowed")
        ELSE CASE Len(d) = 0 -> Literal(c, v.text, TRUE)
               [] Len(d) = 1 -> Quoted(c, v.text, d)
               [] Len(d) = 3 -> TripleQuoted(c, v.text, d)
               [] OTHER -> IF allowText /\ ~(CIF1 /\ ContainsTextDelim(v.text))
                           THEN Text(c, v.text)
                           ELSE Failed(c, "disallowed")

\* write_numb
WriteNumb(c, v) ==
    IF v.quoted THEN WriteChar(c, v, TRUE) ELSE Literal(c, v.text, c.separate_values)

RECURSIVE WriteValue(_, _), WriteList(_, _), WriteTable(_, _)

\* write_item, but for the data name
WriteValue(c, v) ==
    LET s == IF c.separate_values THEN EnsureSpaced(c) ELSE c
    IN  IF c.status # "ok" THEN c
        ELSE CASE v.kind = "char"  -> WriteChar(s, v, TRUE)
               [] v.kind = "numb"  -> WriteNumb(s, v)
               [] v.kind = "list"  -> IF CIF1 THEN Failed(s, "disallowed") ELSE WriteList(s, v)
               [] v.kind = "table" -> IF CIF1 THEN Failed(s, "disallowed") ELSE WriteTable(s, v)
               [] OTHER -> Literal(s, v.text, TRUE)

\* The flags that were saved are as they were.
Restored(c, saved) ==
    [c EXCEPT !.write_item_names = saved.write_item_names, !.separate_values = saved.separate_values]

\* write_list
WriteList(c, v) ==
    LET opened == [Literal(c, <<"[">>, TRUE) EXCEPT !.write_item_names = FALSE, !.separate_values = TRUE]
        filled == FoldLeft(WriteValue, opened, v.elements)
    IN  Restored(Literal(filled, <<" ", "]">>, TRUE), c)

\* write_table: a key, its colon and the value follow each other at once.
WriteTable(c, v) ==
    LET opened == [Literal(c, <<"{">>, c.separate_values) EXCEPT !.write_item_names = FALSE]
        entry(a, e) ==
            LET b == IF Len(e.key) > LineLength - (a.last_column + 4) THEN Newline(a) ELSE a
                k == WriteChar(EnsureSpaced([b EXCEPT !.separate_values = FALSE]),
                               Scalar("char", e.key, TRUE), FALSE)
            IN  IF a.status # "ok" THEN a ELSE WriteValue(Literal(k, <<":">>, FALSE), e.val)
    IN  Restored(Literal(FoldLeft(entry, opened, v.entries), <<" ", "}">>, TRUE), c)

---------------------------------------------------------------------------
(* The handlers *)

Init ==
    /\ version \in Versions
    /\ context = [out |-> <<>>, last_column |-> 0, write_item_names |-> FALSE,
                  separate_values |-> TRUE, depth |-> 0, status |-> "ok"]
    /\ place = <<"start">> /\ left = <<>> /\ names = <<>> /\ written = <<>>

Within(elements) == context.status = "ok" /\ Last(place) \in elements

Wrote(type, text) == written' = Append(written, [type |-> type, text |-> text])

\* The name of an element that CIF 1.1 cannot express
Unless(allowed, c) == IF allowed THEN c ELSE Failed(context, "disallowed")

\* write_cif_start
CifStart ==
    /\ Within({"start"})
    /\ context' = Put(context, <<"#", IF CIF1 THEN "CIF_1.1" ELSE "CIF_2.0", "nl">>, 0)
    /\ place' = <<"cif">>
    /\ UNCHANGED <<version, left, names, written>>

\* write_cif_end
CifEnd ==
    /\ Within({"cif"}) /\ written # <<>>
    /\ context' = Newline(context)
    /\ place' = <<"end">>
    /\ UNCHANGED <<version, left, names, written>>

\* A container before and after its loop of scalars
Containers == {"container", "with scalars"}

\* write_container_start.  In a container the frames come before the loops.
ContainerStart(code) ==
    /\ \/ Within({"cif"}) /\ written = <<>>
       \/ Within({"container"}) /\ Len(written) = 1 /\ context.depth = 1
    /\ LET header == IF context.depth = 0 THEN "data_" ELSE "save_" IN
       /\ context' = Unless(Allowed(code),
              [Put(context, <<"nl", header>> \o code \o <<"nl">>, 0) EXCEPT !.depth = @ + 1])
       /\ Wrote(IF header = "data_" THEN "BLOCK_HEAD" ELSE "FRAME_HEAD", code)
    /\ place' = Append(place, "container")
    /\ UNCHANGED <<version, left, names>>

\* write_container_end
ContainerEnd ==
    /\ Within(Containers)
    /\ LET outer == [context EXCEPT !.depth = @ - 1] IN
       IF outer.depth = 0
       THEN context' = Newline(outer) /\ UNCHANGED written
       ELSE context' = Put(outer, <<"nl", "save_", "nl">>, 0) /\ Wrote("FRAME_TERM", <<>>)
    /\ place' = Front(place)
    /\ UNCHANGED <<version, left, names>>

\* write_loop_start for the loop of a container's scalars, and for others
LoopStart(items, scalar) ==
    /\ Within(IF scalar THEN {"container"} ELSE Containers)
    /\ LET nameLine(c, n) == IF Allowed(n) THEN Put(c, <<" ">> \o n \o <<"nl">>, 0)
                             ELSE Failed(c, "disallowed")
           header == FoldLeft(LAMBDA c, n : IF c.status = "ok" THEN nameLine(c, n) ELSE c,
                              Put(context, <<"nl", "loop_", "nl">>, 0), items)
       IN  context' = [(IF scalar THEN Newline(context) ELSE header) EXCEPT
                          !.write_item_names = scalar]
    /\ written' = IF scalar THEN written
                  ELSE written \o <<[type |-> "LOOPKW", text |-> <<>>]>>
                       \o [i \in DOMAIN items |-> [type |-> "NAME", text |-> items[i]]]
    /\ place' = IF scalar THEN Front(place) \o <<"with scalars", "scalars">>
                ELSE Append(place, "loop")
    /\ names' = items
    /\ UNCHANGED <<version, left>>

\* The values among what was written
ValuesOf(w) == SelectSeq(w, LAMBDA e : "kind" \in DOMAIN e)

\* write_packet_start.  Bound: the packet does not have too many values.
PacketStart ==
    /\ Within({"loop", "scalars"})
    /\ Len(ValuesOf(written)) + Len(names) <= MaxValues
    /\ place' = Append(place, "packet")
    /\ left' = names
    /\ UNCHANGED <<version, context, names, written>>

\* write_item
Item(v) ==
    /\ Within({"packet"}) /\ left # <<>>
    /\ LET n == Head(left)
           c == context
           named == IF ~Allowed(n) THEN Failed(c, "disallowed")
                    ELSE Literal(IF c.last_column > 0 THEN Newline(c) ELSE c, n, FALSE)
       IN  /\ context' = WriteValue(IF c.write_item_names THEN named ELSE c, v)
           /\ written' = written \o (IF c.write_item_names THEN <<[type |-> "NAME", text |-> n]>>
                                     ELSE <<>>) \o <<v>>
    /\ left' = Tail(left)
    /\ UNCHANGED <<version, place, names>>

\* write_packet_end
PacketEnd ==
    /\ Within({"packet"}) /\ left = <<>>
    /\ context' = Newline(context)
    /\ place' = Front(place)
    /\ UNCHANGED <<version, left, names, written>>

\* write_loop_end; a loop has at least one packet.
LoopEnd ==
    /\ Within({"loop", "scalars"}) /\ written # <<>> /\ "kind" \in DOMAIN Last(written)
    /\ context' = Newline(context)
    /\ place' = Front(place)
    /\ UNCHANGED <<version, left, names, written>>

\* Bound: there is one value that is not common, in a file that is otherwise.
Usual ==
    \A e \in ToSet(written) :
       IF "kind" \in DOMAIN e THEN e \in CommonValues
       ELSE e.type # "FRAME_HEAD" /\ ~Has(e.text, {"u"})

Next ==
    \/ CifStart \/ CifEnd
    \/ \E code \in Codes : ContainerStart(code)
    \/ ContainerEnd
    \/ \E items \in Names, scalar \in BOOLEAN : LoopStart(items, scalar)
    \/ PacketStart
    \/ Within({"packet"}) /\ \E v \in (IF Usual THEN Values ELSE CommonValues) : Item(v)
    \/ PacketEnd \/ LoopEnd

Spec == Init /\ [][Next]_vars

---------------------------------------------------------------------------
(* Properties *)

\* The texts in a value; those that are not keys are in text blocks now and then.
RECURSIVE Scalars(_)
Scalars(v) ==
    CASE v.kind = "list"  -> UNION {Scalars(v.elements[i]) : i \in DOMAIN v.elements}
      [] v.kind = "table" -> UNION {Scalars(v.entries[i].val) : i \in DOMAIN v.entries}
      [] OTHER -> {v}

RECURSIVE EntriesIn(_)
EntriesIn(v) ==
    CASE v.kind = "list"  -> UNION {EntriesIn(v.elements[i]) : i \in DOMAIN v.elements}
      [] v.kind = "table" -> UNION {{e} \cup EntriesIn(e.val) : e \in ToSet(v.entries)}
      [] OTHER -> {}

AllScalars == UNION {Scalars(v) : v \in ToSet(ValuesOf(written))}
AllEntries == UNION {EntriesIn(v) : v \in ToSet(ValuesOf(written))}

\* What a value is when it is read: a number is a text until it is asked for.
\* Texts that look like text blocks or are too long are given delimiters.
RECURSIVE AsRead(_)
AsRead(v) ==
    CASE v.kind = "list"  -> [v EXCEPT !.elements = [i \in DOMAIN @ |-> AsRead(@[i])]]
      [] v.kind = "table" -> [v EXCEPT !.entries = [i \in DOMAIN @ |->
                                [@[i] EXCEPT !.val = AsRead(@)]]]
      [] v.kind = "numb"  -> [v EXCEPT !.kind = "char"]
      [] v.kind = "char" /\ ~v.quoted ->
            [v EXCEPT !.quoted = Head(v.text) = ";" \/ Len(v.text) > LineLength]
      [] OTHER -> v

Complete == place = <<"end">> /\ context.status = "ok"

\* The scanners that a file is read with: what is written in CIF 1.1 is
\* "also well-formed CIF 2.0".
Readers == IF CIF1 THEN BOOLEAN ELSE {TRUE}

ReadsAsWritten ==
    \A cif2 \in Readers :
        Read(context.out, cif2) = [i \in DOMAIN written |->
            IF "kind" \in DOMAIN written[i] THEN AsRead(written[i]) ELSE written[i]]

\* Texts that are not read as they were: a block that is folded begins with a
\* semicolon on a line of its own, which ends it; of a block that is folded or
\* prefixed the newline at the end is lost; and a line in a block, or between the
\* first and the last of a text in triple quotes, may have the full length,
\* where the scanner says that it is too long.
Lossy(text, quoted) ==
    LET d      == Delimiter(text, ~quoted, ~CIF1)
        folded == Folded(text)
        prefix == ContainsTextDelim(text)
        lines  == IF Len(d) = 2 THEN Lines(Tail(TextBlock(text, folded, prefix)))
                  ELSE IF Len(d) = 3 THEN Tail(Lines(text)) ELSE <<>>
    IN  \/ Len(d) = 2 /\ folded /\ ~prefix /\ Head(text) = ";"
        \/ Len(d) = 2 /\ (folded \/ prefix) /\ Last(text) = "nl"
        \/ \E i \in DOMAIN lines : Len(lines[i]) >= LineLength

NothingLossy ==
    /\ \A v \in AllScalars : v.kind = "char" /\ v.text # <<>> => ~Lossy(v.text, v.quoted)
    /\ \A e \in AllEntries : e.key # <<>> => ~Lossy(e.key, TRUE)

OutputLines == Lines(context.out)

\* What cif_write wrote cif_parse reads: the same structure, names and values,
\* quoted or not, without an error, whatever the texts, however they had to be
\* delimited, folded and prefixed, and wherever on a line they came to stand.
\* Excepted are texts that are lossy, and lines that are too long (LinesFit).
ReadsBack ==
    Complete /\ NothingLossy /\ LongestOf(OutputLines) <= LineLength => ReadsAsWritten

\* "Returns CIF_OK if the data are fully written" (cif.h:1285).
FullyWritten == Complete => ReadsAsWritten

\* No line is longer than CIF_LINE_LENGTH, excepting the lines of names in a loop
\* header, numbers without delimiters, and segments with a prefix.
LinesFit ==
    LET lines == OutputLines IN
    Complete => \A i \in DOMAIN lines :
        \/ Len(lines[i]) <= LineLength
        \/ \E e \in ToSet(written) : "type" \in DOMAIN e /\ lines[i] = <<" ">> \o e.text
        \/ \E v \in AllScalars : v.kind = "numb" /\ lines[i] = v.text
        \/ Len(lines[i]) = LineLength + 1 /\ IsPrefix(Prefix, lines[i])

\* last_column is where the output is, or beyond, and says truly whether this is
\* the beginning of a line: what comes next is neither put too far to the right
\* nor taken for part of what is there.
ColumnIsKnown ==
    LET out    == context.out
        column == Len(out) - Max({0} \cup {i \in DOMAIN out : out[i] = "nl"})
    IN
    context.status = "ok" =>
        context.last_column >= column /\ (context.last_column = 0 <=> column = 0)

\* Texts that cif_write cannot write: those that write_triple_quoted miscounts,
\* or that are nothing but semicolons where it would fold them.
Unwritable(t) ==
    \/ Len(Delimiter(t, FALSE, TRUE)) = 3 /\ Len(t) < Len(Head(Lines(t))) + 3
    \/ SemiRun(t, LineLength - FoldingMargin - 1)

\* cif_write fails for a reason: a character, a list or table, or a text that
\* CIF 1.1 does not have, a text that cannot be written, a key too long for its
\* colon or without delimiters that suit it, or a number or table that does not
\* fit behind its key.
FailsForAReason ==
    context.status # "ok" =>
        \/ CIF1 /\ \/ \E v \in ToSet(ValuesOf(written)) : v.kind \in {"list", "table"}
                   \/ \E v \in AllScalars : Has(v.text, {"u"}) \/ ContainsTextDelim(v.text)
                   \/ \E e \in ToSet(written) : "type" \in DOMAIN e /\ Has(e.text, {"u"})
        \/ \E v \in AllScalars : Unwritable(v.text)
        \/ \E e \in AllEntries :
             \/ Unwritable(e.key) \/ Len(e.key) + 3 > LineLength
             \/ Len(Delimiter(e.key, FALSE, TRUE)) = 2
             \/ e.val.kind \in {"numb", "table"}

=============================================================================
