------------------------------- MODULE CifForms -------------------------------
(***************************************************************************)
(* The form a text is written in: which delimiters suit it                 *)
(* (cif_analyze_string) and how a text block is folded and prefixed        *)
(* (write_text, fold_line of ciffile.c).  A character is one UChar, and    *)
(* the only line terminator is the newline: a text with a carriage return  *)
(* is read back with newlines in its place anyway.                         *)
(***************************************************************************)
EXTENDS CifChars, Integers, SequencesExt

CONSTANTS
    LineLength,     \* CIF_LINE_LENGTH
    FoldingWindow,  \* FOLDING_WINDOW
    FoldingMargin   \* what a folded line is shorter by, 8 in the code

ASSUME FormsAssumption ==
    /\ LineLength \in Nat /\ FoldingWindow \in Nat /\ FoldingMargin \in Nat
    /\ LineLength - FoldingMargin > FoldingWindow

Prefix == <<">", " ">>

Tripled(d) == <<d, d, d>>

\* The first place from i on that holds one of S, or where s is; beyond the end
\* if there is none.
RECURSIVE FirstOf(_, _, _), FirstSeq(_, _, _)
FirstOf(t, S, i) == IF i > Len(t) \/ t[i] \in S THEN i ELSE FirstOf(t, S, i + 1)
FirstSeq(t, s, i) ==
    IF i + Len(s) > Len(t) + 1 THEN Len(t) + 1
    ELSE IF SubSeq(t, i, i + Len(s) - 1) = s THEN i
    ELSE FirstSeq(t, s, i + 1)

HasWithin(t, s) == FirstSeq(t, s, 1) <= Len(t)

RECURSIVE Lines(_)
Lines(t) ==
    LET i == FirstOf(t, {"nl"}, 1)
    IN  IF i > Len(t) THEN <<t>>
        ELSE <<SubSeq(t, 1, i - 1)>> \o Lines(SubSeq(t, i + 1, Len(t)))

\* A text up to its last character that is not blank
RECURSIVE Trimmed(_)
Trimmed(t) == IF t # <<>> /\ Last(t) \in Blanks THEN Trimmed(Front(t)) ELSE t

EndsInBackslash(t) == LET u == Trimmed(t) IN u # <<>> /\ Last(u) = "\\"

---------------------------------------------------------------------------
(* cif_analyze_string *)

LongestOf(lines) == Max({Len(lines[i]) : i \in DOMAIN lines})

\* Whether the longest run of semicolons has n of them or more
SemiRun(t, n) == HasWithin(t, [i \in 1..n |-> ";"])

\* Whether a text can go without delimiters
Plain(t) ==
    /\ t # <<>> /\ ~Has(t, Brackets \cup Blanks \cup {"nl"})
    /\ Head(t) # ";" /\ t \notin {UnkText, NaText} /\ ~Reserved(t)

\* The first of the quotation marks that is good enough for triple quotes
TripleQuote(t) ==
    LET good(d) == Last(t) # d /\ ~HasWithin(t, Tripled(d))
    IN  IF good("'") THEN Tripled("'") ELSE IF good("\"") THEN Tripled("\"") ELSE <<"nl", ";">>

Delimiter(t, allowUnquoted, allowTriple) ==
    LET lines == Lines(t)
        long  == LongestOf(lines)
        text  == <<"nl", ";">>
    IN  IF long > LineLength THEN text
        ELSE IF Len(lines) = 1
        THEN IF allowUnquoted /\ Plain(t) THEN <<>>
             ELSE IF long <= LineLength - 2 /\ ~Has(t, {"'"}) THEN <<"'">>
             ELSE IF long <= LineLength - 2 /\ ~Has(t, {"\""}) THEN <<"\"">>
             ELSE IF allowTriple /\ long <= LineLength - 6 THEN TripleQuote(t)
             ELSE text
        ELSE IF /\ allowTriple
                /\ Len(Last(lines)) < LineLength - 3 /\ Len(Head(lines)) < LineLength - 3
             THEN TripleQuote(t)
             ELSE text

\* What decides about folding and prefixing
ContainsTextDelim(t) == HasWithin(t, <<"nl", ";">>)
HasReservedStart(t) == Head(t) # ";" /\ EndsInBackslash(Head(Lines(t)))

---------------------------------------------------------------------------
(* Text blocks *)

\* fold_line: how much of a line goes into the next segment.  A blank near the
\* target length is best; without one a segment does not end before a semicolon.
FoldLine(line, fold, prefix) ==
    LET target  == LineLength - FoldingMargin
        n       == Len(line)
        blank(i) == i < n /\ line[i + 1] \in Blanks
        low     == Max({-1} \cup {i \in 0..target : blank(i)})
        highs   == {i \in (target + 1)..(target + FoldingWindow) : blank(i)}
        high    == Min(highs)
        fits(i) == i > 0 /\ i < n /\ (line[i + 1] # ";" \/ prefix)
        window  == [k \in 0..(2 * FoldingWindow) |->
                      target + (IF k % 2 = 1 THEN (k + 1) \div 2 ELSE -(k \div 2))]
        inWindow == {k \in DOMAIN window : fits(window[k])}
        below   == {i \in 1..(target - FoldingWindow - 1) : fits(i)}
        above   == {i \in (target + FoldingWindow + 1)..n : fits(i)}
    IN  IF ~fold \/ n <= target + FoldingWindow THEN n
        ELSE IF highs # {}
        THEN IF low < target - FoldingWindow \/ (high + low) \div 2 < target THEN high ELSE low
        ELSE IF inWindow # {} THEN window[Min(inWindow)]
        ELSE IF below # {} THEN Max(below)
        ELSE IF above # {} THEN Min(above)
        ELSE 0

Unfoldable == "internal error"

\* The segments of a line, each on a line of its own with its prefix; a
\* backslash after those that are continued or end in one themselves.
RECURSIVE Segments(_, _, _, _)
Segments(line, fold, prefix, protect) ==
    IF line = <<>> THEN <<>>
    ELSE LET n == FoldLine(line, fold, prefix) IN
         IF n = 0 THEN <<Unfoldable>>
         ELSE <<"nl">> \o (IF prefix THEN Prefix ELSE <<>>) \o SubSeq(line, 1, n)
             \o (IF n < Len(line) \/ protect THEN <<"\\">> ELSE <<>>)
             \o Segments(SubSeq(line, n + 1, Len(line)), fold, prefix, protect)

BodyUnprotected(t, fold, prefix) ==
    FoldLeft(LAMBDA s, line : s \o (IF line = <<>> THEN <<"nl">> ELSE Segments(line, fold, prefix, FALSE)),
             <<>>, IF Last(t) = "nl" THEN Front(Lines(t)) ELSE Lines(t))

\* The body of a text block with the lines of a text.  A line that is empty has
\* no prefix; after the last newline there is no line.
Body(t, fold, prefix) ==
    LET logical(line) ==
            LET protect == fold /\ EndsInBackslash(line)
            IN  IF line = <<>> THEN <<"nl">>
                ELSE Segments(line, fold, prefix, protect) \o (IF protect THEN <<"nl">> ELSE <<>>)
    IN  FoldLeft(LAMBDA s, line : s \o logical(line), <<>>,
                 IF Last(t) = "nl" THEN Front(Lines(t)) ELSE Lines(t))

\* write_text, without the semicolon that ends it
TextBlock(t, fold, prefix) ==
    <<"nl", ";">> \o (IF prefix THEN Prefix \o <<"\\">> ELSE <<>>) \o (IF fold THEN <<"\\">> ELSE <<>>)
    \o (IF fold \/ prefix THEN Body(t, fold, prefix) ELSE t) \o <<"nl">>

\* When write_char wants a text block folded
Folded(t) ==
    \/ Len(Head(Lines(t))) >= LineLength
    \/ LongestOf(Lines(t)) > LineLength
    \/ HasReservedStart(t)
    \/ SemiRun(t, LineLength - 1)

=============================================================================
