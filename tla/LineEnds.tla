------------------------------ MODULE LineEnds ------------------------------
(***************************************************************************)
(* The scanner's character buffer (parser.c): how get_first_char and        *)
(* get_more_chars fill it, make room in it and convert the line terminators *)
(* CR and CR LF to LF where they lie, and how the scanner moves through it  *)
(* from token to token.                                                     *)
(*                                                                          *)
(* A character is CR, LF or a letter.  The character source delivers pieces *)
(* of any length, as it converts from a byte buffer of its own, and may     *)
(* fail.  Positions are offsets from the start of the buffer, as the C      *)
(* pointers are.                                                            *)
(***************************************************************************)
EXTENDS Integers, Sequences, FiniteSets, Selections

CONSTANTS
  CR, LF,        \* the characters that end lines
  Letter,        \* all others
  InitialSize,   \* BUF_SIZE_INITIAL
  MinFill,       \* BUF_MIN_FILL
  MaxInput       \* the longest input considered

\* The sizes the code starts with are 64 lines and one line.
ASSUME SizesAssumption ==
  /\ MinFill \in Nat \ {0}
  /\ InitialSize \in Nat
  /\ InitialSize >= 2 * MinFill

ASSUME CharsAssumption == CR # LF /\ {CR, LF} \cap Letter = {}

VARIABLES
  phase,         \* "new" before get_first_char, then "open", "failed" after an error
  input,         \* what the character source delivers from first to last
  pos,           \* how many of these characters have been read
  buffer,        \* the characters up to buffer_limit
  buffer_size,
  text_start,    \* where the current token starts
  tvalue_start,  \* where its value starts
  next_char,     \* the next character to scan
  at_eof,
  text,          \* ghost: all that was ever put into the buffer
  token, value   \* ghosts: where in this text the token and its value start

scan == <<text_start, tvalue_start, next_char>>
ghosts == <<text, token, value>>
vars == <<phase, input, pos, buffer, buffer_size, scan, at_eof, ghosts>>

Char == {CR, LF} \cup Letter

Init ==
  /\ phase = "new"
  /\ input \in UNION {[1 .. n -> Char] : n \in 0 .. MaxInput}
  /\ pos = 0
  /\ buffer = <<>>
  /\ buffer_size = InitialSize
  /\ text_start = 0 /\ tvalue_start = 0 /\ next_char = 0
  /\ at_eof = FALSE
  /\ text = <<>> /\ token = 0 /\ value = 0

-----------------------------------------------------------------------------
\* The conversion of one fill.

\* Characters that are the CR of a CR LF within s.
CRLFs(s) == {i \in 1 .. Len(s) - 1 : s[i] = CR /\ s[i + 1] = LF}

\* A bare CR is changed where it is.
BareConverted(s) ==
  [i \in 1 .. Len(s) |-> IF s[i] = CR /\ i \notin CRLFs(s) THEN LF ELSE s[i]]

\* The characters that stay, moved together.
Kept(s) == 1 .. Len(s) \ CRLFs(s)
Gathered(s) == Selected(BareConverted(s), Kept(s))

\* Mutation: the count is not lowered at all.
ConvertedUncounted(s) ==
  Gathered(s) \o SubSeq(BareConverted(s), Len(Gathered(s)) + 1, Len(s))

\* The CRs that are left are overwritten by what follows them, up to the next
\* one.  The count is lowered where a further CR LF is found, hence not for the
\* first: of what lies behind the text that was moved, one character counts.
Converted(s) ==
  IF CRLFs(s) = {} THEN BareConverted(s)
  ELSE Gathered(s) \o <<BareConverted(s)[Len(Gathered(s)) + 1]>>

\* What the conversion is to achieve, for the properties: each of CR, LF and CR LF
\* becomes LF.
LineEndsOf(s) ==
  LET lf(c) == IF c = CR THEN LF ELSE c
  IN  Selected([i \in 1 .. Len(s) |-> lf(s[i])],
               {i \in 1 .. Len(s) : ~(i > 1 /\ s[i] = LF /\ s[i - 1] = CR)})

-----------------------------------------------------------------------------
\* Making room.

\* Mutation: the token fits into the buffer as it is.
FitsOnce(current) == current < buffer_size

\* The characters of the token leave more than half of the buffer free.
FitsTwice(current) == current * 2 < buffer_size

\* Mutation: the value is taken to start where the token does.
MovedForgettingValue(s) == [s EXCEPT !.tvalue_start = 0, !.text_start = 0]

\* To the front of the buffer: tvalue_start keeps its distance from text_start.
Moved(s) == [s EXCEPT !.tvalue_start = @ - s.text_start, !.text_start = 0]

\* The buffer as get_more_chars arranges it before it reads.
Arranged ==
  LET as_is   == [buffer |-> buffer, size |-> buffer_size,
                  text_start |-> text_start, tvalue_start |-> tvalue_start]
      current == next_char - text_start
  IN  IF text_start >= Len(buffer)
      THEN [as_is EXCEPT !.buffer = <<>>, !.text_start = 0, !.tvalue_start = 0]
      ELSE IF buffer_size < Len(buffer) + MinFill
      THEN [Moved(as_is) EXCEPT
              !.buffer = SubSeq(buffer, text_start + 1, next_char),
              !.size   = IF FitsTwice(current) THEN @ ELSE 2 * @]
      ELSE as_is

-----------------------------------------------------------------------------
\* Reading.

Read(n) == SubSeq(input, pos + 1, pos + n)

\* The numbers of characters a read with room for so many may return.
Counts(room) == IF pos = Len(input) THEN {0}
                ELSE {n \in 1 .. room : pos + n <= Len(input)}

\* get_first_char.  After a CR it reads on for the LF that may belong to it, as
\* much as the buffer holds, and counts one character of what it got, or none if
\* that is the LF.
FirstChar ==
  /\ phase = "new"
  /\ phase' = "open"
  /\ IF pos = Len(input)
     THEN at_eof' = TRUE /\ UNCHANGED <<pos, buffer>>
     ELSE IF input[1] # CR
     THEN pos' = 1 /\ buffer' = Read(1) /\ UNCHANGED at_eof
     ELSE \E n \in {m \in 0 .. buffer_size - 1 : 1 + m <= Len(input)} :
            /\ n = 0 <=> Len(input) = 1
            /\ pos' = 1 + n
            /\ at_eof' = (n = 0)
            /\ buffer' = <<LF>> \o (IF n = 0 \/ input[2] = LF THEN <<>> ELSE <<input[2]>>)
  /\ text' = buffer'
  /\ UNCHANGED <<input, buffer_size, scan, token, value>>

\* get_more_chars, called when all characters of the buffer are scanned.
MoreChars ==
  /\ phase = "open"
  /\ next_char = Len(buffer)
  /\ LET a == Arranged IN
     /\ text_start' = a.text_start
     /\ tvalue_start' = a.tvalue_start
     /\ next_char' = Len(a.buffer)
     /\ buffer_size' = a.size
     /\ \E n \in IF at_eof THEN {0} ELSE Counts(a.size - Len(a.buffer)) :
          /\ pos' = pos + n
          /\ at_eof' = (n = 0)
          /\ buffer' = a.buffer \o Converted(Read(n))
          /\ text' = text \o Converted(Read(n))
  /\ UNCHANGED <<phase, input, token, value>>

\* The source reports an error, or there is no memory for a larger buffer: the
\* parse ends.
ReadFails ==
  /\ \/ phase = "new"
     \/ phase = "open" /\ next_char = Len(buffer)
  /\ phase' = "failed"
  /\ UNCHANGED <<input, pos, buffer, buffer_size, scan, at_eof, ghosts>>

-----------------------------------------------------------------------------
\* Scanning.

\* NEXT_CHAR, and the loops of the scan_ functions, within the buffer.
NextChar ==
  /\ phase = "open"
  /\ next_char < Len(buffer)
  /\ next_char' = next_char + 1
  /\ UNCHANGED <<phase, input, pos, buffer, buffer_size, text_start, tvalue_start, at_eof, ghosts>>

\* BACK_UP, REJECT_TOKEN and TRIM_TOKEN: scan some of the token again.
BackUp ==
  /\ phase = "open"
  /\ next_char' \in tvalue_start .. next_char - 1
  /\ UNCHANGED <<phase, input, pos, buffer, buffer_size, text_start, tvalue_start, at_eof, ghosts>>

\* TVALUE_INCSTART: the value starts behind the opening delimiter.
SkipDelimiter ==
  /\ phase = "open"
  /\ tvalue_start = text_start /\ tvalue_start < next_char
  /\ tvalue_start' = tvalue_start + 1
  /\ value' = value + 1
  /\ UNCHANGED <<phase, input, pos, buffer, buffer_size, text_start, next_char, at_eof, text, token>>

\* CONSUME_TOKEN.
ConsumeToken ==
  /\ phase = "open"
  /\ text_start < next_char
  /\ text_start' = next_char /\ tvalue_start' = next_char
  /\ token' = token + (next_char - text_start)
  /\ value' = token'
  /\ UNCHANGED <<phase, input, pos, buffer, buffer_size, next_char, at_eof, text>>

\* The parse has returned; the variables keep their values.
Ended == phase = "failed" /\ UNCHANGED vars

Next ==
  \/ FirstChar \/ MoreChars \/ ReadFails
  \/ NextChar \/ BackUp \/ SkipDelimiter \/ ConsumeToken
  \/ Ended

Spec == Init /\ [][Next]_vars

-----------------------------------------------------------------------------
\* Properties.

\* The buffer holds the text from the start of the token on, and the value starts
\* where the scanner said it does, however often the token was moved to the front
\* of the buffer or to a larger one while it was being scanned.
TokenKept ==
  /\ SubSeq(buffer, text_start + 1, Len(buffer)) = SubSeq(text, token + 1, Len(text))
  /\ tvalue_start - text_start = value - token

\* Whenever get_more_chars reads, there is room for BUF_MIN_FILL characters: a
\* read of none would be taken for the end of the file.
RoomToRead ==
  phase = "open" /\ next_char = Len(buffer) =>
    Arranged.size - Len(Arranged.buffer) >= MinFill

\* What get_more_chars reads arrives converted, and at most one character comes
\* after it that was not read.
FillsConverted ==
  [][pos' # pos /\ phase = "open" =>
       \E surplus \in {<<>>} \cup {<<c>> : c \in Char} :
         text' = text \o LineEndsOf(SubSeq(input, pos + 1, pos')) \o surplus]_vars
=============================================================================
