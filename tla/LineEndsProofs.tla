---------------------------- MODULE LineEndsProofs ----------------------------
(***************************************************************************)
(* The scanner's buffer, for every input, however it comes in pieces, and  *)
(* for every initial size and minimum fill.  What is in the buffer from    *)
(* the start of the token on is the end of the text (InStep), as long as   *)
(* the pointers are in order and within the buffer (InOrder): that the     *)
(* buffer is reset only when it holds no token is not tested by the code   *)
(* but follows from this order.  That a fill fits rests on a fact about    *)
(* the conversion of line terminators, which never makes it longer, as it  *)
(* counts one character too many only where it removed one.                *)
(***************************************************************************)
EXTENDS LineEnds, SelectionProofs

TypesOK ==
    /\ phase \in {"new", "open", "failed"}
    /\ input \in Seq(Char) /\ pos \in 0 .. Len(input)
    /\ buffer \in Seq(Char) /\ text \in Seq(Char)
    /\ buffer_size \in Nat
    /\ text_start \in Nat /\ tvalue_start \in Nat /\ next_char \in Nat
    /\ token \in Nat /\ value \in Nat

\* The order of the pointers, and what the assertions of get_first_char say
InOrder ==
    /\ text_start <= tvalue_start /\ tvalue_start <= next_char
    /\ next_char <= Len(buffer) /\ Len(buffer) <= buffer_size
    /\ InitialSize <= buffer_size
    /\ phase = "new" => pos = 0 /\ buffer = <<>> /\ text = <<>> /\ token = 0 /\ value = 0

\* The last characters of the text are those in the buffer from the token on.
InStepWith(b, ts, t, tok) ==
    /\ tok <= Len(t)
    /\ Len(b) - ts = Len(t) - tok
    /\ \A i \in 1 .. Len(b) - ts : b[ts + i] = t[tok + i]

InStep == /\ InStepWith(buffer, text_start, text, token)
          /\ tvalue_start - text_start = value - token
          /\ token <= value

\* What is inductive
BufferInv == TypesOK /\ InOrder /\ InStep

-----------------------------------------------------------------------------
(* The conversion of line terminators. *)

\* A bare CR is a character like any other.
LEMMA BareType ==
    ASSUME NEW s \in Seq(Char)
    PROVE  /\ BareConverted(s) \in Seq(Char) /\ Len(BareConverted(s)) = Len(s)
           /\ DOMAIN BareConverted(s) = 1 .. Len(s)
           /\ \A i \in 1 .. Len(s) : BareConverted(s)[i] \in Char
<1>1. \A i \in 1 .. Len(s) : (IF s[i] = CR /\ i \notin CRLFs(s) THEN LF ELSE s[i]) \in Char
  BY DEF Char
<1>. QED
  BY <1>1 DEF BareConverted

\* The characters that stay, together
LEMMA GatheredType ==
    ASSUME NEW s \in Seq(Char)
    PROVE  /\ Gathered(s) \in Seq(Char)
           /\ Len(Gathered(s)) = Cardinality(Kept(s)) /\ Cardinality(Kept(s)) \in Nat
           /\ CRLFs(s) # {} => Len(Gathered(s)) < Len(s)
<1>1. /\ Gathered(s) \in Seq(Char)
      /\ Len(Gathered(s)) = Cardinality(Kept(s)) /\ Cardinality(Kept(s)) \in Nat
  <2>1. Kept(s) \in SUBSET DOMAIN BareConverted(s) /\ BareConverted(s) \in Seq(Char)
    BY BareType DEF Kept
  <2>. QED
    BY <2>1, SelectedType DEF Gathered
<1>2. ASSUME CRLFs(s) # {}
      PROVE  Cardinality(Kept(s)) < Len(s)
  <2>1. Len(s) \in Nat /\ Len(s) \in Int /\ 1 \in Int
    OBVIOUS
  <2>2. IsFiniteSet(1 .. Len(s)) /\ Cardinality(1 .. Len(s)) = Len(s)
    BY <2>1, FS_Interval
  <2>3. Kept(s) \in SUBSET (1 .. Len(s)) /\ Kept(s) # 1 .. Len(s)
    BY <1>2 DEF Kept, CRLFs
  <2>4. Cardinality(Kept(s)) <= Len(s) /\ Cardinality(Kept(s)) # Len(s)
    BY <2>2, <2>3, FS_Subset
  <2>. QED
    BY <1>1, <2>1, <2>4
<1>. QED
  BY <1>1, <1>2

\* The conversion makes no fill longer, though it counts one more character than
\* it keeps.
LEMMA ConversionFits ==
    ASSUME NEW s \in Seq(Char)
    PROVE  Converted(s) \in Seq(Char) /\ Len(Converted(s)) <= Len(s)
<1>1. CASE CRLFs(s) = {}
  BY <1>1, BareType DEF Converted
<1>2. CASE CRLFs(s) # {}
  <2> DEFINE g == Gathered(s)
             c == BareConverted(s)[Len(g) + 1]
  <2>1. g \in Seq(Char) /\ Len(g) \in Nat /\ Len(g) < Len(s) /\ Len(s) \in Nat
    BY <1>2, GatheredType
  <2>2. Len(g) + 1 \in 1 .. Len(s)
    BY <2>1
  <2>3. c \in Char
    BY <2>2, BareType
  <2>4. Converted(s) = g \o <<c>>
    BY <1>2 DEF Converted
  <2> HIDE DEF g, c
  <2>5. g \o <<c>> \in Seq(Char) /\ Len(g \o <<c>>) = Len(g) + 1
    BY <2>1, <2>3
  <2>. QED
    BY <2>1, <2>4, <2>5
<1>. QED
  BY <1>1, <1>2

\* What the code keeps are the characters that are no CR of a CR LF, a bare CR
\* changed; what is wanted are those that are no LF of a CR LF, a CR changed.  The
\* LF behind each CR that goes stands for the CR that is wanted.
LEMMA GatheredIsWanted ==
    ASSUME NEW s \in Seq(Char)
    PROVE  Gathered(s) = LineEndsOf(s)
<1> DEFINE n == Len(s)
           A == Kept(s)
           B == {i \in 1 .. n : ~ (i > 1 /\ s[i] = LF /\ s[i - 1] = CR)}
           lf(c) == IF c = CR THEN LF ELSE c
           w == [i \in 1 .. n |-> lf(s[i])]
           h == [b \in B |-> IF b \in CRLFs(s) THEN b + 1 ELSE b]
<1>1. n \in Nat /\ n \in Int /\ 1 \in Int
  OBVIOUS
<1>2. A \in SUBSET (1 .. n) /\ B \in SUBSET (1 .. n)
  BY DEF Kept
<1>3. A \in SUBSET Int /\ B \in SUBSET Int /\ IsFiniteSet(B)
  <2>1. IsFiniteSet(1 .. n)
    BY <1>1, FS_Interval
  <2>2. 1 .. n \in SUBSET Int
    BY <1>1
  <2>. QED
    BY <1>2, <2>1, <2>2, FS_Subset
<1>4. ASSUME NEW b \in B
      PROVE  /\ h[b] \in A /\ b \in 1 .. n /\ h[b] \in 1 .. n
             /\ BareConverted(s)[h[b]] = lf(s[b])
  <2>1. b \in 1 .. n /\ b \in Int
    BY <1>1
  <2>2. CASE b \in CRLFs(s)
    <3>1. b + 1 \in 1 .. n /\ s[b] = CR /\ s[b + 1] = LF /\ h[b] = b + 1
      BY <2>1, <2>2, <1>1 DEF CRLFs
    <3>2. b + 1 \notin CRLFs(s)
      BY <3>1, CharsAssumption DEF CRLFs
    <3>3. BareConverted(s)[b + 1] = LF
      BY <3>1, CharsAssumption DEF BareConverted
    <3>. QED
      BY <2>1, <3>1, <3>2, <3>3 DEF Kept
  <2>3. CASE b \notin CRLFs(s)
    <3>1. h[b] = b /\ BareConverted(s)[b] = lf(s[b])
      BY <2>1, <2>3 DEF BareConverted
    <3>. QED
      BY <2>1, <2>3, <3>1 DEF Kept
  <2>. QED
    BY <2>2, <2>3
<1>5. ASSUME NEW i \in B, NEW j \in B, i < j
      PROVE  h[i] < h[j]
  <2>1. i \in Int /\ j \in Int /\ i \in 1 .. n /\ j \in 1 .. n
    BY <1>1
  <2>2. i \in CRLFs(s) => j # i + 1
    BY <1>1, <2>1 DEF CRLFs
  <2>. QED
    BY <1>5, <2>1, <2>2
<1>6. ASSUME NEW a \in A
      PROVE  \E b \in B : h[b] = a
  <2>1. a \in 1 .. n /\ a \in Int /\ a \notin CRLFs(s)
    BY <1>1 DEF Kept
  <2>2. CASE a \in B
    BY <2>1, <2>2
  <2>3. CASE a \notin B
    <3>1. a > 1 /\ s[a] = LF /\ s[a - 1] = CR
      BY <2>1, <2>3
    <3>2. a - 1 \in CRLFs(s) /\ a - 1 \in 1 .. n /\ (a - 1) + 1 = a
      BY <1>1, <2>1, <3>1 DEF CRLFs
    <3>3. a - 1 \in B
      BY <3>1, <3>2, CharsAssumption
    <3>. QED
      BY <3>2, <3>3
  <2>. QED
    BY <2>2, <2>3
<1>7. h \in [B -> A]
  BY <1>4
<1> DEFINE N == Cardinality(B)
<1>8. /\ Cardinality(A) = N
      /\ \A k \in 1 .. N : Ascending(A)[k] = h[Ascending(B)[k]]
  <2> HIDE DEF A, B, h
  <2>. QED
    BY <1>3, <1>5, <1>6, <1>7, AscendingAlong
<1>9. \A k \in 1 .. N : Ascending(B)[k] \in B
  BY <1>3, AscendingType
<1>10. LineEndsOf(s) = [k \in 1 .. N |-> w[Ascending(B)[k]]]
  BY DEF LineEndsOf, Selected
<1>11. Gathered(s) = [k \in 1 .. N |-> BareConverted(s)[Ascending(A)[k]]]
  BY <1>8 DEF Gathered, Selected
<1>12. ASSUME NEW k \in 1 .. N
       PROVE  BareConverted(s)[Ascending(A)[k]] = w[Ascending(B)[k]]
  <2> DEFINE b == Ascending(B)[k]
  <2>1. b \in B /\ Ascending(A)[k] = h[b]
    BY <1>8, <1>9
  <2>2. BareConverted(s)[h[b]] = lf(s[b]) /\ b \in 1 .. n
    BY <1>4, <2>1
  <2>. QED
    BY <2>1, <2>2
<1>. QED
  <2> HIDE DEF N, w
  <2>. QED
    BY <1>10, <1>11, <1>12

\* The conversion does what is wanted of it, and leaves at most one character
\* behind.
LEMMA ConversionConverts ==
    ASSUME NEW s \in Seq(Char)
    PROVE  /\ LineEndsOf(s) \in Seq(Char)
           /\ \E surplus \in {<<>>} \cup {<<c>> : c \in Char} :
                 Converted(s) = LineEndsOf(s) \o surplus
<1>1. LineEndsOf(s) \in Seq(Char)
  BY GatheredIsWanted, GatheredType
<1>2. CASE CRLFs(s) = {}
  <2>1. Kept(s) = DOMAIN BareConverted(s)
    BY <1>2, BareType DEF Kept
  <2>2. Gathered(s) = BareConverted(s)
    BY <2>1, BareType, SelectedAll DEF Gathered
  <2>3. Converted(s) = LineEndsOf(s)
    BY <1>2, <2>2, GatheredIsWanted DEF Converted
  <2>4. LineEndsOf(s) \o <<>> = LineEndsOf(s)
    BY <1>1
  <2>. QED
    BY <1>1, <2>3, <2>4
<1>3. CASE CRLFs(s) # {}
  <2> DEFINE c == BareConverted(s)[Len(Gathered(s)) + 1]
  <2>1. Len(Gathered(s)) + 1 \in 1 .. Len(s)
    BY <1>3, GatheredType
  <2>2. c \in Char
    BY <2>1, BareType
  <2>3. Converted(s) = LineEndsOf(s) \o <<c>>
    BY <1>3, GatheredIsWanted DEF Converted
  <2>. QED
    BY <1>1, <2>2, <2>3
<1>. QED
  BY <1>2, <1>3

-----------------------------------------------------------------------------
(* Steps. *)

\* get_first_char
LEMMA FirstCharStep == BufferInv /\ FirstChar => BufferInv'
<1> SUFFICES ASSUME BufferInv, FirstChar PROVE BufferInv'
  OBVIOUS
<1> USE DEF BufferInv, TypesOK, InOrder
<1>1. /\ text_start = 0 /\ tvalue_start = 0 /\ next_char = 0
      /\ token = 0 /\ value = 0 /\ buffer = <<>>
  BY DEF FirstChar
<1>2. /\ pos' \in 0 .. Len(input) /\ buffer' \in Seq(Char)
      /\ Len(buffer') <= 2
  <2>1. CASE pos = Len(input)
    BY <1>1, <2>1 DEF FirstChar
  <2>2. CASE pos # Len(input) /\ input[1] # CR
    <3>1. pos' = 1 /\ buffer' = Read(1)
      BY <2>2 DEF FirstChar
    <3>2. pos = 0 /\ Len(input) \in Nat \ {0}
      BY <2>2 DEF FirstChar
    <3>3. Read(1) = SubSeq(input, 1, 1)
      BY <3>2 DEF Read
    <3>4. SubSeq(input, 1, 1) \in Seq(Char) /\ Len(SubSeq(input, 1, 1)) = 1
      BY <3>2
    <3>5. Read(1) \in Seq(Char) /\ Len(Read(1)) = 1
      BY <3>3, <3>4, Zenon
    <3>6. 1 \in 0 .. Len(input)
      BY <3>2
    <3> HIDE DEF BufferInv, TypesOK, InOrder
    <3>. QED
      BY <3>1, <3>5, <3>6
  <2>3. CASE pos # Len(input) /\ input[1] = CR
    <3>1. PICK n \in {m \in 0 .. buffer_size - 1 : 1 + m <= Len(input)} :
            /\ n = 0 <=> Len(input) = 1
            /\ pos' = 1 + n
            /\ buffer' = <<LF>> \o (IF n = 0 \/ input[2] = LF THEN <<>> ELSE <<input[2]>>)
      BY <2>3 DEF FirstChar
    <3>2. n \in Nat /\ 1 + n <= Len(input)
      BY <3>1
    <3>3. n # 0 => input[2] \in Char
      BY <3>2
    <3>4. LF \in Char
      BY DEF Char
    <3>5. /\ <<LF>> \in Seq(Char) /\ Len(<<LF>>) = 1
          /\ <<>> \in Seq(Char) /\ Len(<<>>) = 0
          /\ n # 0 => <<input[2]>> \in Seq(Char) /\ Len(<<input[2]>>) = 1
      BY <3>3, <3>4
    <3> DEFINE x == IF n = 0 \/ input[2] = LF THEN <<>> ELSE <<input[2]>>
    <3>6. x \in Seq(Char) /\ Len(x) <= 1 /\ Len(x) \in Nat
      BY <3>5
    <3> HIDE DEF x
    <3>7. <<LF>> \o x \in Seq(Char) /\ Len(<<LF>> \o x) = 1 + Len(x)
      BY <3>5, <3>6
    <3>8. buffer' = <<LF>> \o x
      BY <3>1 DEF x
    <3>. QED
      BY <3>1, <3>2, <3>6, <3>7, <3>8
  <2>. QED
    BY <2>1, <2>2, <2>3
<1>3. 2 <= InitialSize
  BY SizesAssumption
<1>4. /\ phase' = "open" /\ text' = buffer'
      /\ UNCHANGED <<input, buffer_size, text_start, tvalue_start, next_char, token, value>>
  BY DEF FirstChar, scan
<1>5. TypesOK' /\ InOrder'
  BY <1>1, <1>2, <1>3, <1>4, SizesAssumption
<1>6. InStep'
  BY <1>1, <1>2, <1>4 DEF InStep, InStepWith
<1>. QED
  BY <1>5, <1>6

\* What get_more_chars has made room with
LEMMA RoomMade ==
    ASSUME BufferInv, phase = "open", next_char = Len(buffer)
    PROVE  /\ Arranged.buffer \in Seq(Char) /\ Arranged.size \in Nat
           /\ InitialSize <= Arranged.size
           /\ Arranged.text_start \in Nat /\ Arranged.tvalue_start \in Nat
           /\ Arranged.text_start <= Arranged.tvalue_start
           /\ Arranged.tvalue_start <= Len(Arranged.buffer)
           /\ Arranged.tvalue_start - Arranged.text_start = value - token
           /\ Len(Arranged.buffer) + MinFill <= Arranged.size
           /\ InStepWith(Arranged.buffer, Arranged.text_start, text, token)
<1> USE DEF BufferInv, TypesOK, InOrder, InStep
<1> DEFINE as_is == [buffer |-> buffer, size |-> buffer_size,
                     text_start |-> text_start, tvalue_start |-> tvalue_start]
<1>1. MinFill \in Nat /\ InitialSize \in Nat /\ 2 * MinFill <= InitialSize
  BY SizesAssumption
<1>2. CASE text_start >= Len(buffer)
  <2>1. Arranged = [as_is EXCEPT !.buffer = <<>>, !.text_start = 0, !.tvalue_start = 0]
    BY <1>2 DEF Arranged
  <2>2. /\ Arranged.buffer = <<>> /\ Arranged.size = buffer_size
        /\ Arranged.text_start = 0 /\ Arranged.tvalue_start = 0
    BY <2>1
  <2>3. tvalue_start = text_start /\ Len(text) = token /\ value = token
    BY <1>2 DEF InStepWith
  <2>. QED
    BY <1>1, <2>2, <2>3 DEF InStepWith
<1>3. CASE text_start < Len(buffer) /\ buffer_size < Len(buffer) + MinFill
  <2> DEFINE b == SubSeq(buffer, text_start + 1, next_char)
             current == next_char - text_start
             size == IF FitsTwice(current) THEN buffer_size ELSE 2 * buffer_size
  <2>1. Arranged = [Moved(as_is) EXCEPT !.buffer = b, !.size = size]
    BY <1>3 DEF Arranged, Moved
  <2>2. /\ Arranged.buffer = b /\ Arranged.size = size
        /\ Arranged.text_start = 0 /\ Arranged.tvalue_start = tvalue_start - text_start
    BY <2>1 DEF Moved
  <2>3. /\ b \in Seq(Char) /\ Len(b) = current /\ current \in Nat
        /\ \A i \in 1 .. current : b[i] = buffer[text_start + i]
    BY <1>3
  <2>4. /\ size \in Nat /\ buffer_size <= size /\ current + MinFill <= size
    BY <1>1, <1>3 DEF FitsTwice
  <2>5. InStepWith(b, 0, text, token)
    <3>1. /\ token <= Len(text) /\ current = Len(text) - token
          /\ Len(b) - 0 = current
      BY <1>3, <2>3 DEF InStepWith
    <3>2. \A i \in 1 .. current : b[i] = text[token + i]
      BY <2>3 DEF InStepWith
    <3> HIDE DEF b, current
    <3>3. \A i \in 1 .. Len(b) - 0 : b[0 + i] = text[token + i]
      BY <2>3, <3>1, <3>2
    <3>. QED
      BY <3>1, <3>3 DEF InStepWith
  <2> HIDE DEF b, size, current
  <2>6. tvalue_start - text_start <= current /\ tvalue_start - text_start \in Nat
    BY DEF current
  <2>. QED
    BY <1>1, <2>2, <2>3, <2>4, <2>5, <2>6
<1>4. CASE text_start < Len(buffer) /\ ~ (buffer_size < Len(buffer) + MinFill)
  <2>1. Arranged = as_is
    BY <1>4 DEF Arranged
  <2>. QED
    BY <1>1, <1>4, <2>1
<1>. QED
  BY <1>2, <1>3, <1>4

\* Text that arrives in the buffer
LEMMA AppendedInStep ==
    ASSUME NEW b \in Seq(Char), NEW t \in Seq(Char), NEW x \in Seq(Char),
           NEW ts \in Nat, NEW tok \in Nat, ts <= Len(b), InStepWith(b, ts, t, tok)
    PROVE  InStepWith(b \o x, ts, t \o x, tok)
<1>1. /\ Len(b \o x) = Len(b) + Len(x) /\ Len(t \o x) = Len(t) + Len(x)
      /\ \A i \in 1 .. Len(b) + Len(x) : (b \o x)[i] = IF i <= Len(b) THEN b[i] ELSE x[i - Len(b)]
      /\ \A i \in 1 .. Len(t) + Len(x) : (t \o x)[i] = IF i <= Len(t) THEN t[i] ELSE x[i - Len(t)]
  BY ConcatProperties
<1>2. /\ Len(b) \in Nat /\ Len(t) \in Nat /\ Len(x) \in Nat
      /\ tok <= Len(t) /\ Len(b) - ts = Len(t) - tok
      /\ \A i \in 1 .. Len(b) - ts : b[ts + i] = t[tok + i]
  BY DEF InStepWith
<1>3. ASSUME NEW i \in 1 .. Len(b) + Len(x) - ts
      PROVE  (b \o x)[ts + i] = (t \o x)[tok + i]
  <2>1. CASE ts + i <= Len(b)
    <3>1. i \in 1 .. Len(b) - ts /\ tok + i <= Len(t)
      BY <1>2, <2>1
    <3>2. /\ ts + i \in 1 .. Len(b) + Len(x) /\ tok + i \in 1 .. Len(t) + Len(x)
      BY <1>2, <2>1, <3>1
    <3>3. (b \o x)[ts + i] = b[ts + i] /\ (t \o x)[tok + i] = t[tok + i]
      BY <1>1, <2>1, <3>1, <3>2
    <3>. QED
      BY <1>2, <3>1, <3>3
  <2>2. CASE ~ (ts + i <= Len(b))
    <3> DEFINE lb == Len(b)
               lt == Len(t)
    <3>1. lb \in Nat /\ lt \in Nat /\ lb - ts = lt - tok /\ ~ (ts + i <= lb) /\ i \in Int
      BY <1>2, <2>2
    <3> HIDE DEF lb, lt
    <3>2. ~ (tok + i <= lt) /\ (ts + i) - lb = (tok + i) - lt
      BY <3>1
    <3>3. ~ (tok + i <= Len(t)) /\ (ts + i) - Len(b) = (tok + i) - Len(t)
      BY <3>2 DEF lb, lt
    <3>4. /\ ts + i \in 1 .. Len(b) + Len(x) /\ tok + i \in 1 .. Len(t) + Len(x)
      BY <1>2, <2>2, <3>3
    <3>5. (b \o x)[ts + i] = x[(ts + i) - Len(b)] /\ (t \o x)[tok + i] = x[(tok + i) - Len(t)]
      BY <1>1, <2>2, <3>3, <3>4
    <3>. QED
      BY <3>3, <3>5
  <2>. QED
    BY <2>1, <2>2
<1>4. /\ tok <= Len(t \o x)
      /\ Len(b \o x) - ts = Len(t \o x) - tok
      /\ Len(b \o x) - ts = Len(b) + Len(x) - ts
  <2>1. Len(b \o x) = Len(b) + Len(x) /\ Len(t \o x) = Len(t) + Len(x)
    BY <1>1
  <2>. QED
    BY <1>2, <2>1
<1>5. \A i \in 1 .. Len(b \o x) - ts : (b \o x)[ts + i] = (t \o x)[tok + i]
  BY <1>3, <1>4
<1>. QED
  BY <1>4, <1>5 DEF InStepWith

\* get_more_chars
LEMMA MoreCharsStep == BufferInv /\ MoreChars => BufferInv'
<1> SUFFICES ASSUME BufferInv, MoreChars PROVE BufferInv'
  OBVIOUS
<1> DEFINE a == Arranged
<1>1. phase = "open" /\ next_char = Len(buffer)
  BY DEF MoreChars
<1>2. /\ a.buffer \in Seq(Char) /\ a.size \in Nat
      /\ InitialSize <= a.size
      /\ a.text_start \in Nat /\ a.tvalue_start \in Nat
      /\ a.text_start <= a.tvalue_start
      /\ a.tvalue_start <= Len(a.buffer)
      /\ a.tvalue_start - a.text_start = value - token
      /\ Len(a.buffer) + MinFill <= a.size
      /\ InStepWith(a.buffer, a.text_start, text, token)
  BY <1>1, RoomMade
<1>3. PICK n \in IF at_eof THEN {0} ELSE Counts(a.size - Len(a.buffer)) :
           /\ pos' = pos + n
           /\ buffer' = a.buffer \o Converted(Read(n))
           /\ text' = text \o Converted(Read(n))
  BY DEF MoreChars
<1>4. /\ text_start' = a.text_start /\ tvalue_start' = a.tvalue_start
      /\ next_char' = Len(a.buffer) /\ buffer_size' = a.size
      /\ UNCHANGED <<phase, input, token, value>>
  BY DEF MoreChars
<1> HIDE DEF a
<1>5. MinFill \in Nat
  BY SizesAssumption
<1>6. n \in Nat /\ n <= a.size - Len(a.buffer) /\ pos + n <= Len(input)
  <2>1. a.size - Len(a.buffer) \in Nat /\ pos \in Nat /\ pos <= Len(input)
    <3> DEFINE l == Len(a.buffer)
    <3>1. l \in Nat /\ a.size \in Nat /\ l + MinFill <= a.size
      BY <1>2
    <3> HIDE DEF l
    <3>2. a.size - l \in Nat
      BY <3>1, <1>5
    <3>. QED
      BY <3>2 DEF l, BufferInv, TypesOK
  <2>2. CASE at_eof
    BY <1>3, <2>1, <2>2 DEF BufferInv, TypesOK
  <2>3. CASE ~ at_eof
    <3>1. n \in Counts(a.size - Len(a.buffer))
      BY <1>3, <2>3
    <3>. QED
      BY <2>1, <3>1 DEF Counts, BufferInv, TypesOK
  <2>. QED
    BY <2>2, <2>3
<1> DEFINE x == Converted(Read(n))
<1>7. x \in Seq(Char) /\ Len(x) <= n
  <2>1. Read(n) \in Seq(Char) /\ Len(Read(n)) = n
    BY <1>6 DEF Read, BufferInv, TypesOK
  <2>. QED
    BY <2>1, ConversionFits
<1> HIDE DEF x
<1>8. text \in Seq(Char) /\ token \in Nat /\ value \in Nat /\ pos \in Nat /\ token <= value
  BY DEF BufferInv, TypesOK, InStep
<1>9. /\ a.buffer \o x \in Seq(Char) /\ text \o x \in Seq(Char)
      /\ Len(a.buffer \o x) = Len(a.buffer) + Len(x)
  BY <1>2, <1>7, <1>8
<1>10. InStepWith(a.buffer \o x, a.text_start, text \o x, token)
  BY <1>2, <1>7, <1>8, AppendedInStep
<1>11. TypesOK'
  BY <1>2, <1>3, <1>4, <1>6, <1>8, <1>9 DEF x, BufferInv, TypesOK
<1>12. InOrder'
  BY <1>1, <1>2, <1>3, <1>4, <1>6, <1>7, <1>9 DEF x, InOrder
<1>13. InStep'
  BY <1>2, <1>3, <1>4, <1>8, <1>10 DEF x, InStep
<1>. QED
  BY <1>11, <1>12, <1>13 DEF BufferInv

\* The macros of the scanner, and the failure of a read
LEMMA ScanStep ==
    BufferInv /\ (NextChar \/ BackUp \/ SkipDelimiter \/ ConsumeToken
                     \/ ReadFails \/ UNCHANGED vars) => BufferInv'
<1> SUFFICES ASSUME BufferInv PROVE
        /\ NextChar => BufferInv'
        /\ BackUp => BufferInv'
        /\ SkipDelimiter => BufferInv'
        /\ ConsumeToken => BufferInv'
        /\ ReadFails => BufferInv'
        /\ UNCHANGED vars => BufferInv'
  OBVIOUS
<1> USE DEF BufferInv, TypesOK, InOrder, InStep
<1>1. ASSUME NextChar
      PROVE  BufferInv'
  <2>1. TypesOK' /\ InOrder'
    BY <1>1 DEF NextChar, ghosts
  <2>2. InStep'
    BY <1>1 DEF NextChar, ghosts, InStepWith
  <2>. QED
    BY <2>1, <2>2
<1>2. ASSUME BackUp
      PROVE  BufferInv'
  <2>1. next_char' \in Nat /\ tvalue_start <= next_char' /\ next_char' <= Len(buffer)
    BY <1>2 DEF BackUp, ghosts
  <2>2. TypesOK' /\ InOrder'
    BY <1>2, <2>1 DEF BackUp, ghosts
  <2>3. InStep'
    BY <1>2 DEF BackUp, ghosts, InStepWith
  <2>. QED
    BY <2>2, <2>3
<1>3. SkipDelimiter => BufferInv'
  BY DEF SkipDelimiter, InStepWith
<1>4. ASSUME ConsumeToken
      PROVE  BufferInv'
  <2>1. TypesOK' /\ InOrder'
    BY <1>4 DEF ConsumeToken
  <2>2. InStepWith(buffer, next_char, text, token + (next_char - text_start))
    <3> DEFINE d == next_char - text_start
    <3>1. d \in Nat /\ next_char = text_start + d /\ d <= Len(buffer) - text_start
      BY <1>4 DEF ConsumeToken
    <3>2. \A i \in 1 .. Len(buffer) - next_char : d + i \in 1 .. Len(buffer) - text_start
      BY <3>1
    <3> HIDE DEF d
    <3>3. \A i \in 1 .. Len(buffer) - next_char :
             buffer[text_start + (d + i)] = text[token + (d + i)]
      BY <3>2 DEF InStepWith
    <3>4. ASSUME NEW i \in 1 .. Len(buffer) - next_char
          PROVE  buffer[next_char + i] = text[(token + d) + i]
      <4>1. i \in Nat
        BY <3>1
      <4>2. text_start + (d + i) = next_char + i /\ token + (d + i) = (token + d) + i
        BY <3>1, <4>1
      <4>. QED
        BY <3>3, <4>2
    <3>5. token + d <= Len(text) /\ Len(buffer) - next_char = Len(text) - (token + d)
      BY <3>1 DEF InStepWith
    <3>6. InStepWith(buffer, next_char, text, token + d)
      BY <3>4, <3>5 DEF InStepWith
    <3>. QED
      BY <3>6 DEF d
  <2>3. InStep'
    BY <1>4, <2>2 DEF ConsumeToken
  <2>. QED
    BY <2>1, <2>3
<1>5. ReadFails => BufferInv'
  BY DEF ReadFails, scan, ghosts, InStepWith
<1>6. UNCHANGED vars => BufferInv'
  BY DEF vars, scan, ghosts, InStepWith
<1>. QED
  BY <1>1, <1>2, <1>3, <1>4, <1>5, <1>6

-----------------------------------------------------------------------------
(* The theorems. *)

LEMMA BufferInvariant == Spec => []BufferInv
<1>1. Init => BufferInv
  <2> SUFFICES ASSUME Init PROVE BufferInv
    OBVIOUS
  <2>1. input \in Seq(Char)
    BY DEF Init
  <2>. QED
    BY <2>1, SizesAssumption DEF Init, BufferInv, TypesOK, InOrder, InStep, InStepWith
<1>2. BufferInv /\ [Next]_vars => BufferInv'
  BY FirstCharStep, MoreCharsStep, ScanStep DEF Next, Ended
<1>. QED
  BY <1>1, <1>2, PTL DEF Spec

\* However a token is cut into pieces by reads, moved to the front of the buffer
\* and taken to a larger one while the scanner is in it, the buffer holds it and
\* what was read after it, and its value starts where the scanner has said.
THEOREM TokenIsKept == Spec => []TokenKept
<1>1. BufferInv => TokenKept
  <2> SUFFICES ASSUME BufferInv PROVE TokenKept
    OBVIOUS
  <2> USE DEF BufferInv, TypesOK, InOrder, InStep, InStepWith
  <2> DEFINE b == SubSeq(buffer, text_start + 1, Len(buffer))
             t == SubSeq(text, token + 1, Len(text))
             n == Len(buffer) - text_start
  <2>1. /\ b \in Seq(Char) /\ Len(b) = n /\ n \in Nat
        /\ \A i \in 1 .. n : b[i] = buffer[text_start + i]
    OBVIOUS
  <2>2. /\ t \in Seq(Char) /\ Len(t) = n
        /\ \A i \in 1 .. n : t[i] = text[token + i]
    OBVIOUS
  <2>3. \A i \in 1 .. n : b[i] = t[i]
    BY <2>1, <2>2
  <2> HIDE DEF b, t, n
  <2>4. b = t
    BY <2>1, <2>2, <2>3, SeqEqual
  <2>. QED
    BY <2>4 DEF TokenKept, b, t
<1>. QED
  BY <1>1, BufferInvariant, PTL

\* When get_more_chars reads, at least BUF_MIN_FILL characters fit: it never asks
\* for none, which it could not tell from the end of the file.
THEOREM ThereIsRoomToRead == Spec => []RoomToRead
<1>1. BufferInv => RoomToRead
  BY RoomMade, SizesAssumption DEF RoomToRead
<1>. QED
  BY <1>1, BufferInvariant, PTL

\* What a fill adds is what was read, every line terminator converted, and at
\* most one character more: the count that is too high for the first CR LF of a
\* fill is so by one, whatever the fill holds.
THEOREM FillsAreConverted == Spec => FillsConverted
<1> DEFINE Converts == pos' # pos /\ phase = "open" =>
             \E surplus \in {<<>>} \cup {<<c>> : c \in Char} :
               text' = text \o LineEndsOf(SubSeq(input, pos + 1, pos')) \o surplus
<1>1. ASSUME BufferInv, Next, pos' # pos, phase = "open"
      PROVE  Converts
  <2>1. MoreChars
    BY <1>1 DEF Next, FirstChar, ReadFails, NextChar, BackUp, SkipDelimiter, ConsumeToken,
                Ended, vars
  <2>2. PICK n \in IF at_eof THEN {0} ELSE Counts(Arranged.size - Len(Arranged.buffer)) :
           pos' = pos + n /\ text' = text \o Converted(Read(n))
    BY <2>1 DEF MoreChars
  <2>3. /\ text \in Seq(Char) /\ input \in Seq(Char)
        /\ pos \in Nat /\ pos' = pos + n /\ pos' \in Nat /\ pos' <= Len(input)
    <3>1. BufferInv'
      BY <1>1, <2>1, MoreCharsStep
    <3>2. input' = input
      BY <2>1 DEF MoreChars
    <3>. QED
      BY <1>1, <2>2, <3>1, <3>2 DEF BufferInv, TypesOK
  <2> DEFINE r == SubSeq(input, pos + 1, pos')
  <2>4. r \in Seq(Char) /\ Read(n) = r
    BY <2>3 DEF Read
  <2> HIDE DEF r
  <2>5. LineEndsOf(r) \in Seq(Char)
    BY <2>4, ConversionConverts
  <2>6. PICK surplus \in {<<>>} \cup {<<c>> : c \in Char} : Converted(r) = LineEndsOf(r) \o surplus
    BY <2>4, ConversionConverts
  <2>7. surplus \in Seq(Char)
    <3>1. \A c \in Char : <<c>> \in Seq(Char)
      OBVIOUS
    <3>2. <<>> \in Seq(Char)
      OBVIOUS
    <3>. QED
      BY <2>6, <3>1, <3>2
  <2>8. text' = text \o (LineEndsOf(r) \o surplus)
    BY <2>2, <2>4, <2>6
  <2>9. text' = text \o LineEndsOf(r) \o surplus
    <3> DEFINE w == LineEndsOf(r)
    <3>1. text \in Seq(Char) /\ w \in Seq(Char)
      BY <2>3, <2>5
    <3> HIDE DEF w
    <3>2. (text \o w) \o surplus = text \o (w \o surplus)
      BY <2>7, <3>1, ConcatAssociative
    <3>. QED
      BY <2>8, <3>2 DEF w
  <2>. QED
    BY <2>6, <2>9 DEF r
<1>2. BufferInv /\ [Next]_vars => [Converts]_vars
  BY <1>1 DEF vars
<1>. QED
  BY <1>2, BufferInvariant, PTL DEF Spec, FillsConverted
=============================================================================
