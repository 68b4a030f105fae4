---------------------------- MODULE CifParseProofs ----------------------------
(***************************************************************************)
(* What is proved of the productions of parser.c, for every input, every   *)
(* limit and every answer of the handlers but one: skip_depth is exact     *)
(* only if no handler of an item answers SKIP_SIBLINGS in a loop that is   *)
(* skipped (~ SkippedSkips), as the code sets skip_depth to 1 then.        *)
(*                                                                         *)
(* The inductive invariant is ParseInv.  That skip_depth is exact says     *)
(* nothing of the next step unless the levels are as many as the stack of  *)
(* productions has them (StackShape, LevelsMatch) and skip_depth is not 1  *)
(* where a production has counted an element whose start handler is still  *)
(* to be asked (SkipPhase).  Which end handlers may be called follows from *)
(* Beginning.  That loops are pruned needs EmptyIsOpen: their container is *)
(* not one whose contents are passed over, as it would be left without     *)
(* being pruned.  That packets are current needs what the cells of a loop  *)
(* are between any two of its values (CellsCurrent).                       *)
(***************************************************************************)
EXTENDS CifParse, SequenceTheorems, FiniteSetTheorems, TLAPS

(* The activations of the productions, and the stack of them *)

Path == Seq(Code \cup {Anonymous}) \cup {NoPath}

Column == Name \cup {NoName}

CellStates == {"dropped", "unknown", "new", "old"}

CifFrame == [fn : {"cif"}, pc : {"start", "body"}]

ContainerFrame == [fn : {"container"}, pc : {"start", "body", "end"}, path : Path]

ItemFrame == [fn : {"item"}, pc : {"body", "handle"}, path : Path, name : Column]

HeaderFrame == [fn : {"header"}, pc : {"body"}, path : Path, columns : Seq(Column)]

\* In a packet the next column, or the last one, is one of the header's; a
\* loop without names is ended at once.
LoopFrame ==
    {f \in [fn : {"loop"}, pc : {"start", "body", "packet_end", "end"}, path : Path,
            columns : Seq(Column), names : SUBSET Name, col : Nat, any : BOOLEAN,
            cells : Seq(CellStates)] :
        /\ DOMAIN f.cells = DOMAIN f.columns
        /\ f.pc \in {"start", "end"} => f.col = 0
        /\ f.pc = "packet_end" => f.col > 0
        /\ f.col \in 0..Len(f.columns)
        /\ f.pc # "end" => f.columns # <<>>}

InContainer == ItemFrame \cup HeaderFrame \cup LoopFrame

Frame == CifFrame \cup ContainerFrame \cup InContainer

\* What is under way: the CIF, containers in it and each other, and in the
\* innermost container at most an item or a loop of it
StackShape ==
    /\ stack \in Seq(Frame)
    /\ stack # <<>> => stack[1] \in CifFrame
    /\ Depth > 1 => stack[1].pc = "body"
    /\ \A i \in 2..Depth-1 : stack[i] \in ContainerFrame /\ stack[i].pc = "body"
    /\ Depth > 1 => Top \in ContainerFrame \cup InContainer
    /\ (Depth > 1 /\ Top \in InContainer) => Depth > 2 /\ Top.path = stack[Depth-1].path

\* What may have been stored
Stored == [containers : SUBSET Path, items : SUBSET (Path \X Column),
           empty : SUBSET (Path \X Column)]

\* The parse has returned when no production is active.
TypesOK ==
    /\ token \in Token \cup {End, NoToken}
    /\ cif \in Stored
    /\ result = "none" <=> stack # <<>>

\* The levels that a frame on top of the stack adds to those of the frames below
Own(f) == CASE f.fn = "cif" -> IF f.pc = "start" THEN 0 ELSE 1
            [] f.fn = "container" -> IF f.pc = "start" THEN 0 ELSE 1
            [] f.fn = "item" -> 0
            [] f.fn = "header" -> 1
            [] f.fn = "loop" -> IF f.col > 0 THEN 2 ELSE 1

\* Each production below the top is in its body, and has one level.
LevelsMatch == stack # <<>> => Len(levels) = Depth - 1 + Own(Top)

LevelRec == [begun : BOOLEAN, quiet : BOOLEAN]

\* Of the elements under way the innermost n are passed over, and no others.
Exact(lv, n) ==
    /\ lv \in Seq(LevelRec)
    /\ n \in 0..Len(lv)
    /\ \A k \in 1..Len(lv) : lv[k].quiet <=> k > Len(lv) - n

\* A loop has been counted whose start handler has not been asked.
Starting(f) == f.fn = "header" \/ (f.fn = "loop" /\ (f.pc = "start" \/ f.columns = <<>>))

\* skip_depth where the start handler is still to be asked, and in an item
\* whose handler is: an item has a name only where it is not passed over.
Settled(f, d) == /\ Starting(f) => d # 1
                 /\ (f.fn = "item" /\ f.name # NoName) => d = 0
                 /\ (f.fn = "item" /\ f.pc = "handle") => f.name # NoName

SkipPhase == stack # <<>> => Settled(Top, skip_depth)

\* The elements up to n have been begun, or they were in one passed over
Begins(lv, n) == \A k \in 1..n : lv[k].begun \/ (k > 1 /\ lv[k-1].quiet)

Beginning ==
   stack # <<>> => Begins(levels, IF Starting(Top) THEN Len(levels) - 1 ELSE Len(levels))

\* A loop without packets is in a container under way that is not passed over.
EmptyIsOpen ==
    stack # <<>> =>
    \A e \in cif.empty : \E i \in 2..Depth :
        /\ stack[i].fn = "container" /\ stack[i].pc # "start"
        /\ stack[i].path = e[1]
        /\ ~ levels[i-1].quiet

\* No column of the header was dropped.
Whole(cells) == \A k \in DOMAIN cells : cells[k] # "dropped"

\* The values before column n have been read, and those after it have not.
CellsUpTo(cells, n, old) ==
   \A k \in DOMAIN cells : cells[k] = IF k < n THEN "new" ELSE old

\* What the cells are while a packet is read, and when it ends: with token t
\* before its last column, or with a value for each
CellsCurrentIn(f, t) ==
    /\ \A k \in DOMAIN f.columns : f.columns[k] = NoName <=> f.cells[k] = "dropped"
    /\ (Whole(f.cells) /\ f.pc \in {"start", "body"})
         => \E c \in {"unknown", "old"} : CellsUpTo(f.cells, f.col, c)
    /\ (Whole(f.cells) /\ f.pc = "packet_end")
         => \/ \E n \in Nat : t # NoToken /\ CellsUpTo(f.cells, n, "unknown")
            \/ \A k \in DOMAIN f.cells : f.cells[k] = "new"

CellsCurrent == (stack # <<>> /\ Top.fn = "loop") => CellsCurrentIn(Top, token)

\* What is inductive: the parts are explained above.
ParseInv == /\ TypesOK
            /\ StackShape
            /\ LevelsMatch
            /\ Exact(levels, skip_depth)
            /\ SkipPhase
            /\ Beginning
            /\ EmptyIsOpen
            /\ CellsCurrent
            /\ PacketsAreCurrent

-----------------------------------------------------------------------------
(* Sequences. *)

\* A sequence without its last element
LEMMA FrontOfSeq ==
    ASSUME NEW S, NEW s \in Seq(S), Len(s) \in Nat \ {0}
    PROVE  /\ SubSeq(s, 1, Len(s) - 1) \in Seq(S)
           /\ Len(SubSeq(s, 1, Len(s) - 1)) = Len(s) - 1
           /\ \A i \in 1..(Len(s) - 1) : SubSeq(s, 1, Len(s) - 1)[i] = s[i]
<1> DEFINE n == Len(s) - 1
<1>1. n \in Nat /\ n < Len(s)
  OBVIOUS
<1>2. \A i \in 1..n : s[i] \in S
  BY <1>1, ElementOfSeq
<1> HIDE DEF n
<1>3. /\ SubSeq(s, 1, n) \in Seq(S)
      /\ Len(SubSeq(s, 1, n)) = IF 1 <= n THEN n - 1 + 1 ELSE 0
      /\ \A i \in 1..(n - 1 + 1) : SubSeq(s, 1, n)[i] = s[1 + i - 1]
  BY <1>1, <1>2, SubSeqProperties
<1>4. n - 1 + 1 = n /\ (IF 1 <= n THEN n - 1 + 1 ELSE 0) = n
  BY <1>1
<1>5. \A i \in 1..n : 1 + i - 1 = i
  BY <1>1
<1>6. /\ SubSeq(s, 1, n) \in Seq(S)
      /\ Len(SubSeq(s, 1, n)) = n
      /\ \A i \in 1..n : SubSeq(s, 1, n)[i] = s[i]
  BY <1>3, <1>4, <1>5, Zenon
<1>. QED
  BY <1>6 DEF n

-----------------------------------------------------------------------------
(* The levels, and skip_depth. *)

\* An element of the levels
LEMMA LevelFields ==
    ASSUME NEW b \in BOOLEAN, NEW q \in BOOLEAN
    PROVE  /\ Level(b, q) \in LevelRec
           /\ Level(b, q).begun = b
           /\ Level(b, q).quiet = q
BY DEF Level, LevelRec

\* What is passed over without being asked for is one level more.
LEMMA EnterQuietly ==
    ASSUME Exact(levels, skip_depth), skip_depth > 0
    PROVE  /\ Exact(Inner, Deeper)
           /\ Len(Inner) = Len(levels) + 1
           /\ \A k \in 1..Len(levels) : Inner[k] = levels[k]
           /\ levels[Len(levels)].quiet /\ Deeper > 1 /\ Len(levels) > 0
<1>1. /\ levels \in Seq(LevelRec) /\ Len(levels) \in Nat
      /\ skip_depth \in 0..Len(levels)
      /\ \A k \in 1..Len(levels) : levels[k].quiet <=> k > Len(levels) - skip_depth
  BY LenProperties DEF Exact
<1>2. Len(levels) \in 1..Len(levels) /\ levels[Len(levels)].quiet /\ Innermost \in LevelRec
  BY <1>1, ElementOfSeq DEF Innermost
<1>3. Level(FALSE, Innermost.quiet) \in LevelRec /\ Level(FALSE, Innermost.quiet).quiet
  BY <1>2 DEF Innermost, Level, LevelRec
<1>4. /\ Inner \in Seq(LevelRec)
      /\ Len(Inner) = Len(levels) + 1
      /\ \A k \in 1..Len(levels) : Inner[k] = levels[k]
      /\ Inner[Len(levels) + 1].quiet
  BY <1>1, <1>3, AppendProperties DEF Inner
<1>5. Deeper = skip_depth + 1 /\ Deeper \in 0..Len(Inner)
  BY <1>1, <1>4 DEF Deeper
<1>6. ASSUME NEW k \in 1..Len(Inner)
      PROVE  Inner[k].quiet <=> k > Len(Inner) - Deeper
  <2>1. CASE k = Len(levels) + 1
    BY <2>1, <1>1, <1>4, <1>5
  <2>2. CASE k \in 1..Len(levels)
    BY <2>2, <1>1, <1>4, <1>5
  <2>. QED
    BY <2>1, <2>2, <1>1, <1>4
<1>. QED
  BY <1>1, <1>2, <1>4, <1>5, <1>6 DEF Exact

\* A start handler is asked: the levels of an element under way
LEMMA BegunExact ==
    ASSUME NEW lv, Exact(lv, 0), Len(lv) > 1, NEW a \in Answers
    PROVE  /\ Exact(Begun(lv, a), SkipAfter(a))
           /\ Len(Begun(lv, a)) = Len(lv)
           /\ Begun(lv, a)[Len(lv)].begun
           /\ \A k \in 1..Len(lv)-1 : Begun(lv, a)[k].begun = lv[k].begun
           /\ \A k \in 1..Len(lv)-2 : Begun(lv, a)[k] = lv[k]
           /\ a = "CONTINUE" => \A k \in 1..Len(lv) : ~ Begun(lv, a)[k].quiet
<1> DEFINE n == Len(lv)
           last == Level(TRUE, lv[n].quiet \/ Skips(a))
           lv1 == [lv EXCEPT ![n] = last]
           outer == [lv1[n-1] EXCEPT !.quiet = @ \/ a = "SKIP_SIBLINGS"]
           lv2 == Begun(lv, a)
<1>1. /\ lv \in Seq(LevelRec) /\ n \in Nat /\ n > 1
      /\ \A k \in 1..n : ~ lv[k].quiet
      /\ \A k \in 1..n : lv[k] \in LevelRec
  BY LenProperties, ElementOfSeq DEF Exact
<1>2. n \in 1..n /\ n - 1 \in 1..n /\ n - 1 # n /\ lv[n] \in LevelRec /\ lv[n-1] \in LevelRec
  BY <1>1
<1>3. last \in LevelRec /\ last.begun /\ (last.quiet <=> Skips(a))
  BY <1>1, <1>2 DEF Level, LevelRec, Skips
<1>4. lv2 = [lv1 EXCEPT ![n-1] = outer]
  BY <1>2 DEF Begun
<1> HIDE DEF last, lv2
<1>5. /\ lv1 \in Seq(LevelRec) /\ Len(lv1) = n
      /\ \A k \in 1..n : lv1[k] = IF k = n THEN last ELSE lv[k]
  BY <1>1, <1>2, <1>3, ExceptSeq
<1>6. lv1[n-1] = lv[n-1]
  BY <1>2, <1>5
<1>7. /\ outer \in LevelRec /\ outer.begun = lv[n-1].begun
      /\ outer.quiet <=> a = "SKIP_SIBLINGS"
  BY <1>1, <1>2, <1>6 DEF LevelRec
<1> HIDE DEF lv1, outer
<1>8. /\ lv2 \in Seq(LevelRec) /\ Len(lv2) = n
      /\ \A k \in 1..n : lv2[k] = IF k = n-1 THEN outer ELSE lv1[k]
  <2>1. n - 1 \in 1..Len(lv1)
    BY <1>2, <1>5
  <2>. QED
    BY <2>1, <1>2, <1>4, <1>5, <1>7, ExceptSeq
<1>9. /\ lv2[n] = last
      /\ lv2[n-1] = outer
      /\ \A k \in 1..n-2 : lv2[k] = lv[k]
  <2>1. lv2[n] = last /\ lv2[n-1] = outer
    BY <1>2, <1>5, <1>8
  <2>2. \A k \in 1..n-2 : k \in 1..n /\ k # n /\ k # n-1
    BY <1>1
  <2> HIDE DEF n
  <2>3. \A k \in 1..n-2 : lv2[k] = lv[k]
    BY <2>2, <1>5, <1>8
  <2>. QED
    BY <2>1, <2>3
<1>10. \A k \in 1..n-1 : k = n-1 \/ k \in 1..n-2
  BY <1>1
<1>11. \A k \in 1..n-1 : lv2[k].begun = lv[k].begun
  BY <1>7, <1>9, <1>10, Zenon
<1>12. SkipAfter(a) \in 0..2 /\ (Skips(a) <=> SkipAfter(a) > 0)
       /\ (a = "SKIP_SIBLINGS" <=> SkipAfter(a) > 1)
       /\ (a = "CONTINUE" => SkipAfter(a) = 0)
  BY DEF SkipAfter, Skips, Stops, Answers, Directions
<1>13. ASSUME NEW k \in 1..n
       PROVE  lv2[k].quiet <=> k > n - SkipAfter(a)
  <2>1. CASE k = n
    BY <2>1, <1>1, <1>3, <1>9, <1>12
  <2>2. CASE k = n - 1
    BY <2>2, <1>1, <1>7, <1>9, <1>12
  <2>3. CASE k \in 1..n-2
    BY <2>3, <1>1, <1>9, <1>12
  <2>. QED
    BY <2>1, <2>2, <2>3, <1>1
<1>14. Exact(lv2, SkipAfter(a))
  BY <1>1, <1>8, <1>12, <1>13 DEF Exact
<1>15. a = "CONTINUE" => \A k \in 1..n : ~ lv2[k].quiet
  BY <1>1, <1>12, <1>13
<1>16. lv2[n].begun
  BY <1>3, <1>9
<1>17. \A k \in 1..n-2 : lv2[k] = lv[k]
  BY <1>9
<1> HIDE DEF n
<1>18. /\ Exact(lv2, SkipAfter(a)) /\ Len(lv2) = n /\ lv2[n].begun
       /\ \A k \in 1..n-1 : lv2[k].begun = lv[k].begun
       /\ \A k \in 1..n-2 : lv2[k] = lv[k]
       /\ a = "CONTINUE" => \A k \in 1..n : ~ lv2[k].quiet
  BY <1>8, <1>11, <1>14, <1>15, <1>16, <1>17
<1>. QED
  BY <1>18 DEF n, lv2

\* An element is left: the levels of those it is in
LEMMA LeaveExact ==
    ASSUME Exact(levels, skip_depth), Len(levels) > 0
    PROVE  /\ Exact(Outer, Shallower)
           /\ Len(Outer) = Len(levels) - 1
           /\ \A k \in 1..Len(levels)-1 : Outer[k] = levels[k]
<1>1. /\ levels \in Seq(LevelRec) /\ Len(levels) \in Nat \ {0}
      /\ skip_depth \in 0..Len(levels)
      /\ \A k \in 1..Len(levels) : levels[k].quiet <=> k > Len(levels) - skip_depth
  BY LenProperties DEF Exact
<1>2. /\ Outer \in Seq(LevelRec)
      /\ Len(Outer) = Len(levels) - 1
      /\ \A k \in 1..Len(levels)-1 : Outer[k] = levels[k]
  BY <1>1, FrontOfSeq DEF Outer
<1>3. Shallower \in 0..Len(Outer)
  BY <1>1, <1>2 DEF Shallower
<1>4. ASSUME NEW k \in 1..Len(Outer)
      PROVE  Outer[k].quiet <=> k > Len(Outer) - Shallower
  BY <1>1, <1>2 DEF Shallower
<1>. QED
  BY <1>1, <1>2, <1>3, <1>4 DEF Exact

\* An end handler, or that of an item, is asked: the levels of what it is in
LEMMA EndedExact ==
    ASSUME NEW lv, NEW n, Exact(lv, n), Len(lv) > 0, NEW a \in Answers, ~ Stops(a),
           a = "SKIP_SIBLINGS" => n \in {0, 1}
    PROVE  /\ Exact(Ended(lv, a), IF a = "SKIP_SIBLINGS" THEN 1 ELSE n)
           /\ Len(Ended(lv, a)) = Len(lv)
           /\ \A k \in 1..Len(lv) : Ended(lv, a)[k].begun = lv[k].begun
           /\ \A k \in 1..Len(lv)-1 : Ended(lv, a)[k] = lv[k]
           /\ a = "SKIP_SIBLINGS" => Ended(lv, a)[Len(lv)].quiet
<1> DEFINE m == Len(lv)
           last == [lv[m] EXCEPT !.quiet = @ \/ a = "SKIP_SIBLINGS"]
           lv1 == [lv EXCEPT ![m] = last]
<1>1. /\ lv \in Seq(LevelRec) /\ m \in Nat /\ m > 0 /\ n \in 0..m
      /\ \A k \in 1..m : lv[k].quiet <=> k > m - n
      /\ m \in 1..m /\ lv[m] \in LevelRec
  BY LenProperties, ElementOfSeq DEF Exact
<1>2. /\ last \in LevelRec /\ last.begun = lv[m].begun
      /\ last.quiet <=> (lv[m].quiet \/ a = "SKIP_SIBLINGS")
  BY <1>1 DEF LevelRec
<1>3. Ended(lv, a) = lv1
  BY DEF Ended
<1> HIDE DEF last
<1>4. /\ lv1 \in Seq(LevelRec) /\ Len(lv1) = m
      /\ \A k \in 1..m : lv1[k] = IF k = m THEN last ELSE lv[k]
  BY <1>1, <1>2, ExceptSeq
<1> HIDE DEF lv1
<1> DEFINE d == IF a = "SKIP_SIBLINGS" THEN 1 ELSE n
<1>5. d \in 0..m
  BY <1>1
<1>6. ASSUME NEW k \in 1..m
      PROVE  lv1[k].quiet <=> k > m - d
  <2>1. CASE k = m
    BY <2>1, <1>1, <1>2, <1>4
  <2>2. CASE k \in 1..m-1
    <3>1. lv1[k] = lv[k]
      BY <2>2, <1>1, <1>4
    <3>2. CASE a = "SKIP_SIBLINGS"
      <4>1. n \in {0, 1} /\ d = 1
        BY <3>2
      <4>2. ~ lv[k].quiet
        BY <4>1, <1>1, <2>2
      <4>. QED
        BY <4>1, <4>2, <3>1, <2>2, <1>1
    <3>3. CASE a # "SKIP_SIBLINGS"
      BY <3>1, <3>3, <1>1, <2>2
    <3>. QED
      BY <3>2, <3>3
  <2>. QED
    BY <2>1, <2>2, <1>1
<1>7. Exact(lv1, d)
  BY <1>4, <1>5, <1>6 DEF Exact
<1>8. /\ \A k \in 1..m : lv1[k].begun = lv[k].begun
      /\ \A k \in 1..m-1 : lv1[k] = lv[k]
      /\ a = "SKIP_SIBLINGS" => lv1[m].quiet
  BY <1>1, <1>2, <1>4
<1> HIDE DEF m
<1>. QED
  BY <1>3, <1>4, <1>7, <1>8, Zenon DEF m, d

-----------------------------------------------------------------------------
(* The stack. *)

\* Under way are the CIF, containers and at most something in a container.
LEMMA TopFrame ==
    ASSUME StackShape, Depth > 0
    PROVE  /\ Depth \in Nat \ {0} /\ stack # <<>>
           /\ Top \in Frame
           /\ \A i \in 1..Depth : stack[i] \in Frame
           /\ Depth = 1 <=> Top \in CifFrame
           /\ Depth > 1 => Top \in ContainerFrame \cup InContainer
           /\ Top \in InContainer => Depth > 2
<1>1. stack \in Seq(Frame) /\ Len(stack) \in Nat \ {0} /\ stack # <<>>
  BY EmptySeq, LenProperties DEF StackShape, Depth
<1>2. \A i \in 1..Len(stack) : stack[i] \in Frame
  BY <1>1, ElementOfSeq
<1>3. Depth = 1 => Top \in CifFrame
  BY <1>1 DEF StackShape, Depth, Top
<1>4. Depth > 1 => Top \in ContainerFrame \cup InContainer
  BY DEF StackShape
<1>5. \A f \in ContainerFrame \cup InContainer : f \notin CifFrame
  BY DEF ContainerFrame, InContainer, ItemFrame, HeaderFrame, LoopFrame, CifFrame
<1>6. Depth \in Nat \ {0} /\ Top = stack[Depth]
  BY <1>1 DEF Depth, Top
<1>7. Top \in InContainer => Depth # 1
  BY <1>3, <1>5
<1>8. Top \in InContainer => Depth > 2
  BY <1>6, <1>7 DEF StackShape
<1>9. Top \in CifFrame => Depth = 1
  BY <1>4, <1>5, <1>6
<1>10. \A i \in 1..Depth : stack[i] \in Frame
  BY <1>2 DEF Depth
<1>11. Top \in Frame
  BY <1>6, <1>10
<1>. QED
  BY <1>1, <1>3, <1>4, <1>6, <1>8, <1>9, <1>10, <1>11

\* What a frame is, by its function
LEMMA FrameKinds ==
    ASSUME NEW f \in Frame
    PROVE  /\ f.fn \in {"cif", "container", "item", "header", "loop"}
           /\ f.fn = "cif" <=> f \in CifFrame
           /\ f.fn = "container" <=> f \in ContainerFrame
           /\ f.fn = "item" <=> f \in ItemFrame
           /\ f.fn = "header" <=> f \in HeaderFrame
           /\ f.fn = "loop" <=> f \in LoopFrame
           /\ f.fn \in {"item", "header", "loop"} <=> f \in InContainer
BY DEF Frame, CifFrame, ContainerFrame, InContainer, ItemFrame, HeaderFrame, LoopFrame

\* A production goes on.
LEMMA SwapTop ==
    ASSUME StackShape, Depth > 0, NEW f, stack' = [stack EXCEPT ![Depth] = f],
           \/ Top \in CifFrame /\ f \in CifFrame
           \/ Top \in ContainerFrame /\ f \in ContainerFrame
           \/ Top \in InContainer /\ f \in InContainer /\ f.path = Top.path
    PROVE  /\ StackShape'
           /\ Depth' = Depth /\ Top' = f /\ stack' # <<>>
           /\ \A i \in 1..Depth-1 : stack'[i] = stack[i]
<1>1. /\ stack \in Seq(Frame) /\ Len(stack) \in Nat \ {0} /\ f \in Frame
      /\ Depth = Len(stack) /\ Top = stack[Len(stack)]
  BY TopFrame DEF StackShape, Depth, Top, Frame
<1>2. /\ stack' \in Seq(Frame)
      /\ Len(stack') = Len(stack)
      /\ \A i \in 1..Len(stack) : stack'[i] = IF i = Len(stack) THEN f ELSE stack[i]
  BY <1>1, ExceptSeq
<1>3. stack' # <<>>
  BY <1>1, <1>2, EmptySeq
<1>4. stack'[Len(stack)] = f /\ \A i \in 1..Len(stack)-1 : stack'[i] = stack[i]
  BY <1>1, <1>2
<1>5. Depth' = Depth /\ Top' = f
  BY <1>1, <1>2, <1>4 DEF Depth, Top
<1>6. ASSUME Depth = 1 PROVE StackShape'
  <2>1. f \in CifFrame
    BY <1>6, TopFrame, FrameKinds DEF InContainer
  <2>2. stack'[1] = f
    BY <1>6, <1>1, <1>4
  <2>. QED
    <3>1. ~ (Depth' > 1) /\ \A i \in 2..Depth'-1 : FALSE
      BY <1>5, <1>6
    <3>. QED
      BY <2>1, <2>2, <3>1, <1>2 DEF StackShape
<1>7. ASSUME Depth > 1 PROVE StackShape'
  <2>1. f \in ContainerFrame \cup InContainer /\ Top \notin CifFrame
    BY <1>7, TopFrame
  <2>2. stack'[1] = stack[1] /\ stack'[Depth-1] = stack[Depth-1]
    BY <1>7, <1>1, <1>4
  <2>3. \A i \in 2..Depth-1 : stack'[i] \in ContainerFrame /\ stack'[i].pc = "body"
    BY <1>1, <1>4 DEF StackShape
  <2>4. stack'[1] \in CifFrame /\ stack'[1].pc = "body"
    BY <2>2, <1>7, TopFrame DEF StackShape
  <2>5. f \in InContainer => Depth > 2 /\ f.path = stack'[Depth-1].path
    <3>1. f \in InContainer => Top \in InContainer /\ f.path = Top.path
      BY <1>1, FrameKinds DEF CifFrame, ContainerFrame, InContainer, ItemFrame, HeaderFrame, LoopFrame
    <3>. QED
      BY <3>1, <2>2, <1>7 DEF StackShape
  <2>. QED
    BY <2>1, <2>3, <2>4, <2>5, <1>2, <1>5 DEF StackShape
<1>. QED
  BY <1>1, <1>3, <1>4, <1>5, <1>6, <1>7

\* A production calls another.
LEMMA PushTop ==
    ASSUME StackShape, Depth > 0, NEW f, stack' = Append(stack, f), Top.pc = "body",
           \/ Top \in CifFrame \cup ContainerFrame /\ f \in ContainerFrame
           \/ Top \in ContainerFrame /\ f \in InContainer /\ f.path = Top.path
    PROVE  /\ StackShape'
           /\ Depth' = Depth + 1 /\ Top' = f /\ stack' # <<>>
           /\ \A i \in 1..Depth : stack'[i] = stack[i]
<1>1. /\ stack \in Seq(Frame) /\ Len(stack) \in Nat \ {0} /\ f \in Frame
      /\ Depth = Len(stack) /\ Top = stack[Len(stack)]
  BY TopFrame DEF StackShape, Depth, Top, Frame
<1>2. /\ stack' \in Seq(Frame)
      /\ stack' # <<>>
      /\ Len(stack') = Len(stack) + 1
      /\ \A i \in 1..Len(stack) : stack'[i] = stack[i]
      /\ stack'[Len(stack) + 1] = f
  BY <1>1, AppendProperties
<1>3. Depth' = Depth + 1 /\ Top' = f
  BY <1>1, <1>2 DEF Depth, Top
<1>4. stack'[1] \in CifFrame /\ stack'[1].pc = "body"
  <2>1. stack[1] \in CifFrame /\ stack[1].pc = "body"
    BY <1>1, TopFrame DEF StackShape
  <2>. QED
    BY <2>1, <1>1, <1>2
<1>5. \A i \in 2..Depth : stack'[i] \in ContainerFrame /\ stack'[i].pc = "body"
  <2>1. \A i \in 2..Depth-1 : stack[i] \in ContainerFrame /\ stack[i].pc = "body"
    BY DEF StackShape
  <2>2. Depth > 1 => stack[Depth] \in ContainerFrame /\ stack[Depth].pc = "body"
    <3>1. Depth > 1 => Top \notin CifFrame
      BY TopFrame
    <3>. QED
      BY <3>1, <1>1
  <2>3. \A i \in 2..Depth : stack'[i] = stack[i] /\ (i = Depth \/ i \in 2..Depth-1)
    BY <1>1, <1>2
  <2>. QED
    BY <2>1, <2>2, <2>3, <1>1
<1>6. f \in InContainer => Depth + 1 > 2 /\ f.path = stack'[Depth].path
  <2>1. f \in InContainer => Top \in ContainerFrame /\ f.path = Top.path
    BY <1>1, FrameKinds DEF CifFrame, ContainerFrame, InContainer, ItemFrame, HeaderFrame, LoopFrame
  <2>2. Top \in ContainerFrame => Depth # 1
    BY TopFrame, FrameKinds DEF CifFrame, ContainerFrame
  <2>3. stack'[Depth] = Top
    BY <1>1, <1>2
  <2>. QED
    BY <2>1, <2>2, <2>3, <1>1
<1>. QED
  BY <1>1, <1>2, <1>3, <1>4, <1>5, <1>6 DEF StackShape

\* A production returns.
LEMMA PopTop ==
    ASSUME StackShape, Depth > 1, Return
    PROVE  /\ StackShape'
           /\ Depth' = Depth - 1 /\ Top' = stack[Depth - 1] /\ stack' # <<>>
           /\ Top'.pc = "body"
           /\ Top' \in CifFrame \/ Top' \in ContainerFrame
           /\ Top \in InContainer => Top' \in ContainerFrame
           /\ \A i \in 1..Depth-1 : stack'[i] = stack[i]
<1>1. /\ stack \in Seq(Frame) /\ Len(stack) \in Nat \ {0}
      /\ Depth = Len(stack)
  BY TopFrame DEF StackShape, Depth, Top, Frame
<1>2. /\ stack' \in Seq(Frame)
      /\ Len(stack') = Len(stack) - 1
      /\ \A i \in 1..Len(stack)-1 : stack'[i] = stack[i]
  BY <1>1, FrontOfSeq DEF Return, Depth
<1>3. stack' # <<>>
  BY <1>1, <1>2, EmptySeq
<1>4. Depth' = Depth - 1 /\ Top' = stack[Depth - 1]
  BY <1>1, <1>2 DEF Depth, Top
<1>5. stack[1] \in CifFrame /\ stack[1].pc = "body" /\ stack'[1] = stack[1]
  BY <1>1, <1>2, TopFrame DEF StackShape
<1>6. \A i \in 2..Depth-1 : /\ stack[i] \in ContainerFrame /\ stack[i].pc = "body"
                            /\ stack'[i] = stack[i]
  BY <1>1, <1>2 DEF StackShape
<1>7. Top' \in CifFrame \cup ContainerFrame /\ Top'.pc = "body"
      /\ (Depth > 2 => Top' \in ContainerFrame)
  <2>1. CASE Depth = 2
    BY <2>1, <1>4, <1>5
  <2>2. CASE Depth > 2
    BY <2>2, <1>1, <1>4, <1>6
  <2>. QED
    BY <2>1, <2>2, <1>1
<1>8. Top' \notin InContainer
  BY <1>7, FrameKinds DEF CifFrame, ContainerFrame, InContainer, ItemFrame, HeaderFrame, LoopFrame
<1>9. StackShape'
  <2>1. \A i \in 2..Depth'-1 : stack'[i] \in ContainerFrame /\ stack'[i].pc = "body"
    BY <1>1, <1>4, <1>6
  <2>2. Depth' > 1 => Top' \in ContainerFrame
    BY <1>1, <1>4, <1>7
  <2>. QED
    BY <2>1, <2>2, <1>2, <1>5, <1>8 DEF StackShape
<1>. QED
  BY <1>1, <1>2, <1>3, <1>4, <1>7, <1>9, TopFrame

-----------------------------------------------------------------------------
(* What the invariant says of a step *)

\* A token has a text if its kind has one.
LEMMA TokenTexts ==
    ASSUME TypesOK
    PROVE  /\ token.kind \in {"BLOCK_HEAD", "FRAME_HEAD"} => token.text \in Code
           /\ token.kind = "NAME" => token.text \in Name
           /\ token = NoToken <=> token.kind = "none"
<1>1. ASSUME NEW c \in Code, token = [kind |-> "BLOCK_HEAD", text |-> c]
      PROVE  token.kind = "BLOCK_HEAD" /\ token.text \in Code
  BY <1>1
<1>2. ASSUME NEW c \in Code, token = [kind |-> "FRAME_HEAD", text |-> c]
      PROVE  token.kind = "FRAME_HEAD" /\ token.text \in Code
  BY <1>2
<1>3. ASSUME NEW n \in Name, token = [kind |-> "NAME", text |-> n]
      PROVE  token.kind = "NAME" /\ token.text \in Name
  BY <1>3
<1>4. ASSUME NEW k \in {"LOOPKW", "VALUE", "CLOSE", "FRAME_TERM"},
             token = [kind |-> k, text |-> ""]
      PROVE  token.kind \in {"LOOPKW", "VALUE", "CLOSE", "FRAME_TERM"}
  BY <1>4
<1>5. End.kind = "END"
  BY DEF End
<1>6. NoToken.kind = "none"
  BY DEF NoToken
<1>7. \/ token.kind \in {"BLOCK_HEAD", "FRAME_HEAD"} /\ token.text \in Code
      \/ token.kind = "NAME" /\ token.text \in Name
      \/ token.kind \in {"LOOPKW", "VALUE", "CLOSE", "FRAME_TERM", "END"}
      \/ token = NoToken /\ token.kind = "none"
  <2>1. \/ \E c \in Code : token = [kind |-> "BLOCK_HEAD", text |-> c]
        \/ \E c \in Code : token = [kind |-> "FRAME_HEAD", text |-> c]
        \/ \E n \in Name : token = [kind |-> "NAME", text |-> n]
        \/ \E k \in {"LOOPKW", "VALUE", "CLOSE", "FRAME_TERM"} : token = [kind |-> k, text |-> ""]
        \/ token = End
        \/ token = NoToken
    BY DEF TypesOK, Token, Tokens
  <2>. QED
    BY <2>1, <1>1, <1>2, <1>3, <1>4, <1>5, <1>6
<1>. QED
  BY <1>6, <1>7

\* A step that stores no packet
LEMMA NoPacketStored ==
    ASSUME event'.packet = <<>>
    PROVE  PacketsAreCurrent'
BY EmptySeq, LenProperties DEF PacketsAreCurrent

\* The events that are no packet
LEMMA EventPackets ==
    /\ NoEvent.packet = <<>>
    /\ Refusal.packet = <<>>
    /\ \A c : Event(c).packet = <<>>
BY DEF NoEvent, Refusal, Event

\* The parse is left.
LEMMA AbortStep ==
    ASSUME ParseInv, NEW code, code # "none", NEW c \in Stored,
           AbortAfter(code, c), event'.packet = <<>>
    PROVE  ParseInv'
<1>1. /\ stack' = <<>> /\ result' # "none" /\ cif' = c
      /\ token' = token /\ skip_depth' = skip_depth /\ levels' = levels
  BY DEF AbortAfter, Directions
<1>2. TypesOK'
  BY <1>1 DEF ParseInv, TypesOK
<1>3. StackShape'
  <2>1. stack' \in Seq(Frame) /\ Depth' = 0
    BY <1>1, EmptySeq DEF Depth
  <2>. QED
    BY <2>1, <1>1 DEF StackShape
<1>4. Exact(levels, skip_depth)'
  BY <1>1 DEF ParseInv, Exact
<1>. QED
  BY <1>1, <1>2, <1>3, <1>4, NoPacketStored
     DEF ParseInv, LevelsMatch, SkipPhase, Beginning, EmptyIsOpen, CellsCurrent

\* The error callback, or the scanner, ends the parse.
LEMMA GivesUpStep ==
    ASSUME ParseInv, GivesUp
    PROVE  ParseInv'
BY AbortStep, EventPackets DEF GivesUp, Abort, ParseInv, TypesOK

\* A handler ends the parse.
LEMMA HandlerStops ==
    ASSUME ParseInv, NEW a \in Answers, NEW h, Asks(h, a), Abort(a)
    PROVE  ParseInv'
<1>1. a # "none" /\ event'.packet = <<>>
  BY EventPackets DEF Answers, Directions, Asks
<1>. QED
  BY <1>1, AbortStep DEF Abort, ParseInv, TypesOK

\* The loops that have no packet keep their container.
LEMMA EmptyKept ==
    ASSUME EmptyIsOpen, stack # <<>>, cif'.empty \subseteq cif.empty,
           \A i \in 2..Depth :
              (/\ stack[i].fn = "container" /\ stack[i].pc # "start"
               /\ ~ levels[i-1].quiet
               /\ \E e \in cif'.empty : e[1] = stack[i].path)
              => /\ i \in 2..Depth'
                 /\ stack'[i].fn = "container" /\ stack'[i].pc # "start"
                 /\ stack'[i].path = stack[i].path
                 /\ ~ levels'[i-1].quiet
    PROVE  EmptyIsOpen'
<1>. SUFFICES ASSUME NEW e \in cif'.empty
             PROVE  \E i \in 2..Depth' :
                       /\ stack'[i].fn = "container" /\ stack'[i].pc # "start"
                       /\ stack'[i].path = e[1]
                       /\ ~ levels'[i-1].quiet
  BY DEF EmptyIsOpen
<1>1. PICK i \in 2..Depth :
         /\ stack[i].fn = "container" /\ stack[i].pc # "start"
         /\ stack[i].path = e[1]
         /\ ~ levels[i-1].quiet
  BY DEF EmptyIsOpen
<1>. QED
  BY <1>1

\* A production goes on, and nothing else happens to what is stored.
LEMMA EmptyKeptOnSwap ==
    ASSUME ParseInv, Depth > 0, Depth' = Depth, stack' # <<>>,
           \A i \in 1..Depth-1 : stack'[i] = stack[i],
           Top'.fn = Top.fn,
           Top.fn = "container" => Top'.path = Top.path /\ Top'.pc # "start",
           cif'.empty \subseteq cif.empty,
           \A i \in 1..Depth-1 : ~ levels[i].quiet => ~ levels'[i].quiet
                                  \/ (i = Depth - 1 /\ (Top.fn # "container" \/ Top.pc = "start"))
    PROVE  EmptyIsOpen'
<1>1. Depth \in Nat \ {0} /\ stack # <<>>
  BY TopFrame DEF ParseInv
<1>2. Top = stack[Depth] /\ Top' = stack'[Depth]
  BY DEF Top
<1>3. ASSUME NEW i \in 2..Depth, stack[i].fn = "container", stack[i].pc # "start",
             ~ levels[i-1].quiet
      PROVE  /\ i \in 2..Depth'
             /\ stack'[i].fn = "container" /\ stack'[i].pc # "start"
             /\ stack'[i].path = stack[i].path
             /\ ~ levels'[i-1].quiet
  <2>1. i - 1 \in 1..Depth-1
    BY <1>1
  <2>2. CASE i = Depth
    BY <2>1, <2>2, <1>2, <1>3
  <2>3. CASE i # Depth
    BY <2>1, <2>3, <1>1, <1>2, <1>3
  <2>. QED
    BY <2>2, <2>3
<1>. QED
  BY <1>1, <1>3, EmptyKept DEF ParseInv

\* A production goes on at another place.
LEMMA GotoTop ==
    ASSUME StackShape, Depth > 0, NEW p, Goto(p),
           \/ Top \in CifFrame /\ p = "body"
           \/ Top \in ContainerFrame /\ p \in {"body", "end"}
           \/ Top \in ItemFrame /\ p = "handle"
           \/ Top \in LoopFrame /\ p = "end" /\ Top.col = 0
    PROVE  /\ StackShape'
           /\ Depth' = Depth /\ stack' # <<>>
           /\ \A i \in 1..Depth-1 : stack'[i] = stack[i]
           /\ Top' = [Top EXCEPT !.pc = p]
           /\ Top'.fn = Top.fn /\ Top'.pc = p
           /\ Top.fn # "cif" => Top'.path = Top.path
<1> DEFINE f == [Top EXCEPT !.pc = p]
<1>1. \/ Top \in CifFrame /\ f \in CifFrame
      \/ Top \in ContainerFrame /\ f \in ContainerFrame
      \/ Top \in InContainer /\ f \in InContainer /\ f.path = Top.path
  <2>1. CASE Top \in CifFrame /\ p = "body"
    BY <2>1 DEF CifFrame
  <2>2. CASE Top \in ContainerFrame /\ p \in {"body", "end"}
    BY <2>2 DEF ContainerFrame
  <2>3. CASE Top \in ItemFrame /\ p = "handle"
    BY <2>3 DEF ItemFrame, InContainer
  <2>4. CASE Top \in LoopFrame /\ p = "end" /\ Top.col = 0
    BY <2>4 DEF LoopFrame, InContainer
  <2>. QED
    BY <2>1, <2>2, <2>3, <2>4
<1>2. f.fn = Top.fn /\ f.pc = p /\ (Top.fn # "cif" => f.path = Top.path)
  BY <1>1 DEF CifFrame, ContainerFrame, InContainer, ItemFrame, HeaderFrame, LoopFrame
<1>3. stack' = [stack EXCEPT ![Depth] = f]
  BY DEF Goto, Top
<1> HIDE DEF f
<1>4. /\ StackShape'
      /\ Depth' = Depth /\ Top' = f /\ stack' # <<>>
      /\ \A i \in 1..Depth-1 : stack'[i] = stack[i]
  BY <1>1, <1>3, SwapTop
<1>. QED
  BY <1>2, <1>4 DEF f

\* An element is entered whose handler is to be asked.
LEMMA EnterAsking ==
    ASSUME Exact(levels, 0), Len(levels) > 0
    PROVE  /\ Exact(Inner, 0)
           /\ Len(Inner) = Len(levels) + 1
           /\ \A k \in 1..Len(levels) : Inner[k] = levels[k]
<1>1. /\ levels \in Seq(LevelRec) /\ Len(levels) \in Nat
      /\ \A k \in 1..Len(levels) : ~ levels[k].quiet
  BY LenProperties DEF Exact
<1>2. Len(levels) \in 1..Len(levels) /\ ~ levels[Len(levels)].quiet /\ Innermost \in LevelRec
  BY <1>1, ElementOfSeq DEF Innermost
<1> DEFINE e == Level(FALSE, Innermost.quiet)
<1>3. e \in LevelRec /\ ~ e.quiet /\ Inner = Append(levels, e)
  BY <1>2 DEF Innermost, Level, LevelRec, Inner
<1> HIDE DEF e
<1>4. /\ Inner \in Seq(LevelRec)
      /\ Len(Inner) = Len(levels) + 1
      /\ \A k \in 1..Len(levels) : Inner[k] = levels[k]
      /\ ~ Inner[Len(levels) + 1].quiet
  BY <1>1, <1>3, AppendProperties
<1>5. \A k \in 1..Len(Inner) : ~ Inner[k].quiet
  BY <1>1, <1>4
<1>. QED
  BY <1>1, <1>4, <1>5 DEF Exact

\* Which elements have been begun, when one is entered that is passed over,
LEMMA BeginsInner ==
    ASSUME Exact(levels, skip_depth), skip_depth > 0, Begins(levels, Len(levels))
    PROVE  Begins(Inner, Len(levels) + 1)
<1>1. /\ Len(levels) \in Nat /\ Len(levels) > 0
      /\ \A k \in 1..Len(levels) : Inner[k] = levels[k]
      /\ levels[Len(levels)].quiet
  BY EnterQuietly, LenProperties DEF Exact
<1>2. ASSUME NEW k \in 1..Len(levels) + 1
      PROVE  Inner[k].begun \/ (k > 1 /\ Inner[k-1].quiet)
  <2>1. CASE k = Len(levels) + 1
    BY <2>1, <1>1
  <2>2. CASE k \in 1..Len(levels)
    <3>1. levels[k].begun \/ (k > 1 /\ levels[k-1].quiet)
      BY <2>2 DEF Begins
    <3>2. k > 1 => k - 1 \in 1..Len(levels)
      BY <2>2, <1>1
    <3>. QED
      BY <3>1, <3>2, <2>2, <1>1
  <2>. QED
    BY <2>1, <2>2, <1>1
<1>. QED
  BY <1>2 DEF Begins

\* when a start handler has been asked,
LEMMA BeginsBegun ==
    ASSUME NEW lv, Exact(lv, 0), Len(lv) > 1, NEW a \in Answers,
           Begins(lv, Len(lv) - 1)
    PROVE  Begins(Begun(lv, a), Len(lv))
<1> DEFINE lv1 == Begun(lv, a)
           n == Len(lv)
<1>1. /\ n \in Nat /\ lv1[n].begun
      /\ \A k \in 1..n-1 : lv1[k].begun = lv[k].begun
      /\ \A k \in 1..n : ~ lv[k].quiet
      /\ Exact(lv1, SkipAfter(a)) /\ Len(lv1) = n
  BY BegunExact, LenProperties DEF Exact
<1>2. \A k \in 1..n : lv1[k] \in LevelRec
  BY <1>1, ElementOfSeq DEF Exact
<1> HIDE DEF lv1
<1>3. ASSUME NEW k \in 1..n-1
      PROVE  lv1[k].begun
  <2>1. lv[k].begun
    <3>1. k \in 1..n /\ (k > 1 => k - 1 \in 1..n)
      BY <1>1
    <3>2. lv[k].begun \/ (k > 1 /\ lv[k-1].quiet)
      BY <1>3 DEF Begins
    <3>. QED
      BY <3>1, <3>2, <1>1
  <2>. QED
    BY <2>1, <1>1
<1>4. \A k \in 1..n : lv1[k].begun
  BY <1>1, <1>3
<1>. QED
  BY <1>4 DEF Begins, lv1

\* when an element is left,
LEMMA BeginsOuter ==
    ASSUME Exact(levels, skip_depth), Len(levels) > 0, Begins(levels, Len(levels) - 1)
    PROVE  Begins(Outer, Len(levels) - 1)
<1>1. /\ Len(levels) \in Nat
      /\ \A k \in 1..Len(levels)-1 : Outer[k] = levels[k]
  BY LeaveExact, LenProperties DEF Exact
<1>2. \A k \in 1..Len(levels)-1 : k > 1 => k - 1 \in 1..Len(levels)-1
  BY <1>1
<1>. QED
  BY <1>1, <1>2 DEF Begins

\* and when the handler that is asked at the end has answered
LEMMA BeginsEnded ==
    ASSUME NEW lv, NEW n, Exact(lv, n), Len(lv) > 0, NEW a \in Answers, ~ Stops(a),
           a = "SKIP_SIBLINGS" => n \in {0, 1}, Begins(lv, Len(lv))
    PROVE  Begins(Ended(lv, a), Len(lv))
<1> DEFINE lv1 == Ended(lv, a)
           m == Len(lv)
<1>1. /\ m \in Nat
      /\ \A k \in 1..m : lv1[k].begun = lv[k].begun
      /\ \A k \in 1..m-1 : lv1[k] = lv[k]
  BY EndedExact, LenProperties DEF Exact
<1> HIDE DEF lv1
<1>2. ASSUME NEW k \in 1..m
      PROVE  lv1[k].begun \/ (k > 1 /\ lv1[k-1].quiet)
  <2>1. lv[k].begun \/ (k > 1 /\ lv[k-1].quiet)
    BY DEF Begins
  <2>2. CASE lv[k].begun
    BY <2>2, <1>1
  <2>3. CASE k > 1 /\ lv[k-1].quiet
    <3>1. k - 1 \in 1..m-1
      BY <2>3, <1>1
    <3>. QED
      BY <3>1, <2>3, <1>1
  <2>. QED
    BY <2>1, <2>2, <2>3
<1>. QED
  BY <1>2 DEF Begins, lv1

-----------------------------------------------------------------------------
(* The steps of the scanner, of parse_cif and of parse_container. *)

\* What holds where something is under way
LEMMA UnderWay ==
    ASSUME ParseInv, Depth > 0
    PROVE  /\ Depth \in Nat \ {0} /\ stack # <<>> /\ result = "none"
           /\ Top \in Frame
           /\ Len(levels) \in Nat
           /\ Len(levels) = Depth - 1 + Own(Top)
           /\ skip_depth \in 0..Len(levels)
           /\ Top.fn = "cif" => Depth = 1 /\ Top \in CifFrame
           /\ Top.fn = "container" => Depth > 1 /\ Top \in ContainerFrame
           /\ Top.fn \in {"item", "header", "loop"} => Depth > 2 /\ Top \in InContainer
BY TopFrame, FrameKinds, LenProperties
   DEF ParseInv, TypesOK, LevelsMatch, Exact, InContainer

\* A token is scanned.
LEMMA ScanStep ==
    ASSUME ParseInv, Scan
    PROVE  ParseInv'
<1>1. /\ Depth > 0 /\ token' \in Token \cup {End, NoToken}
      /\ event'.packet = <<>> /\ Top.pc = "body"
      /\ UNCHANGED <<stack, skip_depth, cif, levels, result>>
  BY EventPackets DEF Scan
<1>2. CellsCurrent'
  BY <1>1 DEF ParseInv, CellsCurrent, CellsCurrentIn, Depth, Top
<1>. QED
  BY <1>1, <1>2, NoPacketStored
     DEF ParseInv, TypesOK, StackShape, LevelsMatch, Exact, SkipPhase, Beginning,
         EmptyIsOpen, Depth, Top

\* A token is dropped where it does not belong.
LEMMA StrayTokenStep ==
    ASSUME ParseInv, StrayToken
    PROVE  ParseInv'
<1>1. CASE GivesUp
  BY <1>1, GivesUpStep
<1>2. CASE ~ GivesUp
  <2>1. /\ token' = NoToken /\ event'.packet = <<>> /\ Depth > 0 /\ Top.pc = "body"
        /\ UNCHANGED <<stack, skip_depth, cif, levels, result>>
    BY <1>2, EventPackets DEF StrayToken, Consume, Silently, At
  <2>2. CellsCurrent'
    BY <2>1 DEF ParseInv, CellsCurrent, CellsCurrentIn, Depth, Top
  <2>. QED
    BY <2>1, <2>2, NoPacketStored
       DEF ParseInv, TypesOK, StackShape, LevelsMatch, Exact, SkipPhase, Beginning,
           EmptyIsOpen, Depth, Top
<1>. QED
  BY <1>1, <1>2

\* The CIF begins.
LEMMA CifStartStep ==
    ASSUME ParseInv, CifStart
    PROVE  ParseInv'
<1>1. PICK a \in Answers :
         /\ Asks(<<"cif", "start">>, a)
         /\ \/ Stops(a) /\ Abort(a)
            \/ /\ ~ Stops(a)
               /\ skip_depth' = IF Skips(a) THEN 1 ELSE 0
               /\ levels' = <<Level(TRUE, Skips(a))>>
               /\ Goto("body")
               /\ UNCHANGED <<options, token, cif, result>>
  BY DEF CifStart
<1>2. CASE Abort(a)
  BY <1>1, <1>2, HandlerStops
<1>3. CASE ~ Abort(a)
  <2>1. /\ Depth > 0 /\ Top.fn = "cif" /\ Top.pc = "start"
        /\ Depth = 1 /\ Top \in CifFrame
    BY UnderWay DEF CifStart
  <2>2. /\ skip_depth' = IF Skips(a) THEN 1 ELSE 0
        /\ levels' = <<Level(TRUE, Skips(a))>>
        /\ Goto("body")
        /\ UNCHANGED <<token, cif, result>>
        /\ event'.packet = <<>>
    BY <1>1, <1>3, EventPackets DEF Asks
  <2>3. /\ StackShape'
        /\ Depth' = 1 /\ stack' # <<>>
        /\ Top'.fn = "cif" /\ Top'.pc = "body"
    BY <2>1, <2>2, GotoTop DEF ParseInv
  <2>4. Exact(levels, skip_depth)' /\ Len(levels') = 1 /\ levels'[1].begun
    <3> DEFINE e == Level(TRUE, Skips(a))
    <3>1. Skips(a) \in BOOLEAN
      BY DEF Skips
    <3>2. e \in LevelRec /\ e.begun /\ e.quiet = Skips(a)
      BY <3>1, LevelFields
    <3>3. <<>> \in Seq(LevelRec) /\ Len(<<>>) = 0 /\ levels' = Append(<<>>, e)
      BY <2>2, EmptySeq
    <3> HIDE DEF e
    <3>4. levels' \in Seq(LevelRec) /\ Len(levels') = 1 /\ levels'[1] = e
      BY <3>2, <3>3, AppendProperties
    <3>5. skip_depth' \in 0..1 /\ (Skips(a) <=> 1 > 1 - skip_depth')
      BY <2>2
    <3>6. levels'[1].quiet <=> 1 > Len(levels') - skip_depth'
      BY <3>2, <3>4, <3>5
    <3>7. \A k \in 1..Len(levels') : k = 1
      BY <3>4
    <3>8. \A k \in 1..Len(levels') : levels'[k].quiet <=> k > Len(levels') - skip_depth'
      BY <3>6, <3>7
    <3>. QED
      BY <3>2, <3>4, <3>5, <3>8 DEF Exact
  <2>5. Len(levels') = 1 /\ levels'[1].begun
    BY <2>4
  <2>6. TypesOK' /\ LevelsMatch' /\ SkipPhase' /\ CellsCurrent'
    BY <2>2, <2>3, <2>5, UnderWay, <2>1
       DEF ParseInv, TypesOK, LevelsMatch, Own, SkipPhase, Settled, Starting, CellsCurrent
  <2>7. Beginning'
    BY <2>3, <2>5 DEF Beginning, Begins, Starting
  <2>8. EmptyIsOpen'
    BY <2>1, <2>2, <2>3, UnderWay DEF ParseInv, EmptyIsOpen
  <2>. QED
    BY <2>2, <2>3, <2>4, <2>6, <2>7, <2>8, NoPacketStored DEF ParseInv
<1>. QED
  BY <1>2, <1>3

\* The CIF ends.
LEMMA CifEndStep ==
    ASSUME ParseInv, CifEnd
    PROVE  ParseInv'
<1>1. PICK a \in Answers :
         /\ Asks(<<"cif", "end">>, a)
         /\ result' = IF a \in Directions THEN "CIF_OK" ELSE a
  BY DEF CifEnd
<1>2. /\ Depth > 0 /\ Top.fn = "cif" /\ Top.pc = "body"
      /\ skip_depth' = Shallower /\ stack' = <<>> /\ levels' = <<>>
      /\ UNCHANGED <<token, cif>>
  BY DEF CifEnd, At
<1>3. result' # "none" /\ event'.packet = <<>>
  BY <1>1, EventPackets DEF Answers, Directions, Asks
<1>4. Exact(levels, skip_depth)'
  <2>1. skip_depth \in {0, 1}
    BY <1>2, UnderWay DEF Own
  <2>2. skip_depth' = 0
    BY <1>2, <2>1 DEF Shallower
  <2>3. levels' \in Seq(LevelRec) /\ Len(levels') = 0
    BY <1>2, EmptySeq
  <2>. QED
    BY <2>2, <2>3 DEF Exact
<1>5. StackShape'
  <2>1. stack' \in Seq(Frame) /\ Depth' = 0
    BY <1>2, EmptySeq DEF Depth
  <2>. QED
    BY <2>1, <1>2 DEF StackShape
<1>6. TypesOK'
  BY <1>2, <1>3 DEF ParseInv, TypesOK
<1>. QED
  BY <1>2, <1>3, <1>4, <1>5, <1>6, NoPacketStored
     DEF ParseInv, LevelsMatch, SkipPhase, Beginning, EmptyIsOpen, CellsCurrent

\* Something is entered, or left: the loops that have no packet keep their
\* container.
LEMMA EmptyKeptOnPush ==
    ASSUME ParseInv, Depth > 0, Depth' = Depth + 1,
           \A i \in 1..Depth : stack'[i] = stack[i],
           cif'.empty \subseteq cif.empty,
           \A i \in 1..Depth-1 : levels'[i] = levels[i]
    PROVE  EmptyIsOpen'
<1>1. Depth \in Nat \ {0} /\ stack # <<>>
  BY TopFrame DEF ParseInv
<1>2. \A i \in 2..Depth : i \in 2..Depth' /\ i \in 1..Depth /\ i - 1 \in 1..Depth-1
  BY <1>1
<1>. QED
  BY <1>1, <1>2, EmptyKept DEF ParseInv

\* The same when an element is left, if it is no container or is pruned
LEMMA EmptyKeptOnPop ==
    ASSUME ParseInv, Depth > 1, Depth' = Depth - 1,
           \A i \in 1..Depth-1 : stack'[i] = stack[i],
           cif'.empty \subseteq cif.empty,
           \A i \in 1..Depth-2 : levels'[i] = levels[i],
           \/ Top.fn # "container"
           \/ levels[Depth-1].quiet
           \/ \A e \in cif'.empty : e[1] # Top.path
    PROVE  EmptyIsOpen'
<1>0. Depth \in Nat
  BY LenProperties DEF ParseInv, StackShape, Depth
<1>1. Depth \in Nat \ {0} /\ stack # <<>> /\ Top = stack[Depth]
  BY <1>0, TopFrame DEF ParseInv, Top
<1>2. ASSUME NEW i \in 2..Depth, stack[i].fn = "container", stack[i].pc # "start",
             ~ levels[i-1].quiet, \E e \in cif'.empty : e[1] = stack[i].path
      PROVE  /\ i \in 2..Depth'
             /\ stack'[i].fn = "container" /\ stack'[i].pc # "start"
             /\ stack'[i].path = stack[i].path
             /\ ~ levels'[i-1].quiet
  <2>1. i # Depth
    BY <1>1, <1>2
  <2>2. i \in 2..Depth' /\ i \in 1..Depth-1 /\ i - 1 \in 1..Depth-2
    BY <1>1, <2>1
  <2>. QED
    BY <2>2, <1>2
<1>. QED
  BY <1>1, <1>2, EmptyKept DEF ParseInv

\* A container is entered.
LEMMA PushContainerStep ==
    ASSUME ParseInv, Depth > 0, Top.fn \in {"cif", "container"}, Top.pc = "body",
           NEW p \in Path, stack' = Append(stack, Container(p)),
           token' \in Token \cup {End, NoToken},
           cif' \in Stored, cif'.empty = cif.empty,
           UNCHANGED <<skip_depth, levels, result>>, event'.packet = <<>>
    PROVE  ParseInv'
<1> DEFINE f == Container(p)
<1>1. f \in ContainerFrame /\ f.fn = "container" /\ f.pc = "start"
  BY DEF Container, ContainerFrame
<1> HIDE DEF f
<1>2. Top \in CifFrame \cup ContainerFrame
  BY UnderWay
<1>3. /\ StackShape'
      /\ Depth' = Depth + 1 /\ Top' = f /\ stack' # <<>>
      /\ \A i \in 1..Depth : stack'[i] = stack[i]
  BY <1>1, <1>2, PushTop DEF ParseInv, f
<1>4. Len(levels) = Depth /\ Depth \in Nat /\ stack # <<>>
  BY UnderWay DEF Own
<1>5. cif'.empty \subseteq cif.empty
  OBVIOUS
<1>6. TypesOK'
  BY <1>3, <1>4, <1>5 DEF ParseInv, TypesOK
<1>7. LevelsMatch'
  BY <1>1, <1>3, <1>4 DEF LevelsMatch, Own
<1>8. Exact(levels, skip_depth)'
  BY DEF ParseInv, Exact
<1>9. SkipPhase' /\ CellsCurrent'
  BY <1>1, <1>3 DEF SkipPhase, Settled, Starting, CellsCurrent
<1>10. Beginning'
  BY <1>1, <1>3, <1>4 DEF ParseInv, Beginning, Starting, Begins
<1>11. EmptyIsOpen'
  BY <1>3, <1>4, <1>5, EmptyKeptOnPush
<1>. QED
  BY <1>3, <1>6, <1>7, <1>8, <1>9, <1>10, <1>11, NoPacketStored DEF ParseInv

\* A container, or the end of one, is found where it ends another.
LEMMA GotoEndStep ==
    ASSUME ParseInv, Depth > 0, Top.fn = "container", Top.pc = "body", Goto("end"),
           token' \in Token \cup {End, NoToken},
           UNCHANGED <<skip_depth, cif, levels, result>>, event'.packet = <<>>
    PROVE  ParseInv'
<1>1. Top \in ContainerFrame /\ Len(levels) = Depth /\ Depth \in Nat \ {0} /\ stack # <<>>
  BY UnderWay DEF Own
<1>2. /\ StackShape'
      /\ Depth' = Depth /\ stack' # <<>>
      /\ \A i \in 1..Depth-1 : stack'[i] = stack[i]
      /\ Top'.fn = "container" /\ Top'.pc = "end" /\ Top'.path = Top.path
  BY <1>1, GotoTop DEF ParseInv
<1>3. TypesOK'
  BY <1>1, <1>2 DEF ParseInv, TypesOK
<1>4. LevelsMatch'
  BY <1>1, <1>2 DEF LevelsMatch, Own
<1>5. Exact(levels, skip_depth)'
  BY DEF ParseInv, Exact
<1>6. SkipPhase' /\ CellsCurrent'
  BY <1>2 DEF SkipPhase, Settled, Starting, CellsCurrent
<1>7. Beginning'
  BY <1>1, <1>2 DEF ParseInv, Beginning, Starting, Begins
<1>8. EmptyIsOpen'
  <2>1. cif'.empty \subseteq cif.empty
    OBVIOUS
  <2>2. /\ Top'.fn = Top.fn
        /\ Top.fn = "container" => Top'.path = Top.path /\ Top'.pc # "start"
    BY <1>2
  <2>3. \A i \in 1..Depth-1 : ~ levels[i].quiet => ~ levels'[i].quiet
                                \/ (i = Depth - 1 /\ (Top.fn # "container" \/ Top.pc = "start"))
    OBVIOUS
  <2>. QED
    BY <1>1, <1>2, <2>1, <2>2, <2>3, EmptyKeptOnSwap
<1>. QED
  BY <1>2, <1>3, <1>4, <1>5, <1>6, <1>7, <1>8, NoPacketStored DEF ParseInv

\* A block or frame is at its end: its levels and what is stored stay.
LEMMA ContainerBodyEndsStep ==
    ASSUME ParseInv, ContainerBodyEnds
    PROVE  ParseInv'
<1>1. CASE GivesUp
  BY <1>1, GivesUpStep
<1>2. CASE ~ GivesUp
  <2>1. /\ Depth > 0 /\ Top.fn = "container" /\ Top.pc = "body" /\ Goto("end")
        /\ token' = token \/ token' = NoToken
        /\ UNCHANGED <<skip_depth, cif, levels, result>> /\ event'.packet = <<>>
    BY <1>2, EventPackets DEF ContainerBodyEnds, At, Silently, Consume
  <2>2. token' \in Token \cup {End, NoToken}
    BY <2>1 DEF ParseInv, TypesOK
  <2>. QED
    BY <2>1, <2>2, GotoEndStep
<1>. QED
  BY <1>1, <1>2

\* The recovery that ends a frame at the head of another is such an end.
LEMMA FrameEndsFrameStep ==
    ASSUME ParseInv, FrameEndsFrame
    PROVE  ParseInv'
<1>1. CASE GivesUp
  BY <1>1, GivesUpStep
<1>2. CASE ~ GivesUp
  <2>1. /\ Depth > 0 /\ Top.fn = "container" /\ Top.pc = "body" /\ Goto("end")
        /\ token' = token
        /\ UNCHANGED <<skip_depth, cif, levels, result>> /\ event'.packet = <<>>
    BY <1>2, EventPackets DEF FrameEndsFrame, At, Silently
  <2>2. token' \in Token \cup {End, NoToken}
    BY <2>1 DEF ParseInv, TypesOK
  <2>. QED
    BY <2>1, <2>2, GotoEndStep
<1>. QED
  BY <1>1, <1>2

\* A block is pushed with a path that is its own, or that of the anonymous
\* block.
LEMMA BlockStep ==
    ASSUME ParseInv, BlockHead \/ NoBlockHeader
    PROVE  ParseInv'
<1>1. CASE GivesUp
  BY <1>1, GivesUpStep
<1>2. CASE ~ GivesUp
  <2>1. PICK path \in Seq(Code \cup {Anonymous}), make \in BOOLEAN :
           /\ EnterContainer(path, make)
           /\ token' = token \/ token' = NoToken
           /\ Depth > 0 /\ Top.fn = "cif" /\ Top.pc = "body"
    <3>1. CASE BlockHead
      <4>1. token.text \in Code
        BY <3>1, TokenTexts DEF BlockHead, At, ParseInv
      <4>2. <<token.text>> \in Seq(Code \cup {Anonymous})
        BY <4>1
      <4>3. (options.storing /\ skip_depth = 0) \in BOOLEAN
        OBVIOUS
      <4>. QED
        BY <4>2, <4>3, <3>1, <1>2 DEF BlockHead, Consume, At
    <3>2. CASE NoBlockHeader
      <4>1. <<Anonymous>> \in Seq(Code \cup {Anonymous})
        OBVIOUS
      <4>2. (options.storing /\ skip_depth = 0) \in BOOLEAN
        OBVIOUS
      <4>. QED
        BY <4>1, <4>2, <3>2, <1>2 DEF NoBlockHeader, At
    <3>. QED
      BY <3>1, <3>2
  <2>2. token' \in Token \cup {End, NoToken}
    BY <2>1 DEF ParseInv, TypesOK
  <2> DEFINE p == IF make THEN path ELSE NoPath
  <2>3. p \in Path
    BY <2>1 DEF Path
  <2>4. /\ stack' = Append(stack, Container(p))
        /\ cif' \in Stored /\ cif'.empty = cif.empty
        /\ UNCHANGED <<skip_depth, levels, result>> /\ event'.packet = <<>>
    <3>1. cif \in Stored /\ path \in Path
      BY <2>1 DEF ParseInv, TypesOK, Path
    <3>2. /\ [cif EXCEPT !.containers = @ \cup {path}] \in Stored
          /\ [cif EXCEPT !.containers = @ \cup {path}].empty = cif.empty
      BY <3>1 DEF Stored
    <3>. QED
      BY <2>1, <3>1, <3>2, EventPackets DEF EnterContainer, Silently
  <2> HIDE DEF p
  <2>. QED
    BY <2>1, <2>2, <2>3, <2>4, PushContainerStep
<1>. QED
  BY <1>1, <1>2

\* A frame is pushed whose path extends that of the container it is in.
LEMMA FrameHeadStep ==
    ASSUME ParseInv, FrameHead
    PROVE  ParseInv'
<1>1. CASE GivesUp
  BY <1>1, GivesUpStep
<1>2. CASE ~ GivesUp
  <2>1. /\ Depth > 0 /\ Top.fn = "container" /\ Top.pc = "body"
        /\ token.text \in Code
    BY TokenTexts DEF FrameHead, At, ParseInv
  <2> DEFINE p == IF Limited THEN Append(Top.path, token.text) ELSE NoPath
  <2>2. Limited => Top.path \in Seq(Code \cup {Anonymous})
    BY <2>1, UnderWay DEF ContainerFrame, Path, Limited
  <2>3. p \in Path
    BY <2>1, <2>2, AppendProperties DEF Path
  <2>4. /\ stack' = Append(stack, Container(p))
        /\ cif' \in Stored /\ cif'.empty = cif.empty
        /\ UNCHANGED <<skip_depth, levels, result>> /\ event'.packet = <<>>
        /\ token' = NoToken
    <3>1. cif \in Stored
      BY DEF ParseInv, TypesOK
    <3>2. /\ [cif EXCEPT !.containers = @ \cup {p}] \in Stored
          /\ [cif EXCEPT !.containers = @ \cup {p}].empty = cif.empty
      BY <2>3, <3>1 DEF Stored
    <3>. QED
      BY <1>2, <3>1, <3>2, EventPackets DEF FrameHead, Silently, Consume
  <2> HIDE DEF p
  <2>. QED
    BY <2>1, <2>3, <2>4, PushContainerStep
<1>. QED
  BY <1>1, <1>2

\* parse_container asks the start handler unless the container is passed over,
\* and counts it in either case.
LEMMA ContainerStartStep ==
    ASSUME ParseInv, ContainerStart
    PROVE  ParseInv'
<1>1. /\ Depth > 0 /\ Top.fn = "container" /\ Top.pc = "start"
      /\ Top \in ContainerFrame /\ Depth > 1 /\ Depth \in Nat \ {0} /\ stack # <<>>
      /\ Len(levels) = Depth - 1 /\ Len(levels) > 0 /\ Len(levels) \in Nat
  BY UnderWay DEF ContainerStart, Own
<1>2. Exact(levels, skip_depth) /\ Begins(levels, Len(levels))
  BY <1>1 DEF ParseInv, Beginning, Starting
<1>3. ASSUME Goto("body"), UNCHANGED <<token, cif, result>>, event'.packet = <<>>,
             Exact(levels, skip_depth)', Len(levels') = Depth, Begins(levels', Depth),
             \A i \in 1..Depth-2 : levels'[i] = levels[i]
      PROVE  ParseInv'
  <2>1. /\ StackShape'
        /\ Depth' = Depth /\ stack' # <<>>
        /\ \A i \in 1..Depth-1 : stack'[i] = stack[i]
        /\ Top'.fn = "container" /\ Top'.pc = "body" /\ Top'.path = Top.path
    BY <1>1, <1>3, GotoTop DEF ParseInv
  <2>2. TypesOK'
    BY <1>1, <1>3, <2>1 DEF ParseInv, TypesOK
  <2>3. LevelsMatch'
    BY <1>1, <1>3, <2>1 DEF LevelsMatch, Own
  <2>4. SkipPhase' /\ CellsCurrent'
    BY <2>1 DEF SkipPhase, Settled, Starting, CellsCurrent
  <2>5. Beginning'
    BY <1>3, <2>1 DEF Beginning, Starting
  <2>6. EmptyIsOpen'
    <3>1. cif'.empty \subseteq cif.empty
      BY <1>3
    <3>2. /\ Top'.fn = Top.fn
          /\ Top.fn = "container" => Top'.path = Top.path /\ Top'.pc # "start"
      BY <1>1, <2>1
    <3>3. \A i \in 1..Depth-1 : ~ levels[i].quiet => ~ levels'[i].quiet
                                  \/ (i = Depth - 1 /\ (Top.fn # "container" \/ Top.pc = "start"))
      <4>1. \A i \in 1..Depth-1 : i = Depth - 1 \/ i \in 1..Depth-2
        BY <1>1
      <4>. QED
        BY <4>1, <1>1, <1>3
    <3>. QED
      BY <1>1, <2>1, <3>1, <3>2, <3>3, EmptyKeptOnSwap
  <2>. QED
    BY <1>3, <2>1, <2>2, <2>3, <2>4, <2>5, <2>6, NoPacketStored DEF ParseInv
<1>4. CASE skip_depth > 0
  <2>1. /\ skip_depth' = Deeper /\ levels' = Inner /\ Goto("body")
        /\ event'.packet = <<>> /\ UNCHANGED <<token, cif, result>>
    BY <1>4, EventPackets DEF ContainerStart, Silently
  <2>2. /\ Exact(Inner, Deeper) /\ Len(Inner) = Depth /\ Begins(Inner, Depth)
        /\ \A i \in 1..Depth-2 : Inner[i] = levels[i]
    BY <1>1, <1>2, <1>4, EnterQuietly, BeginsInner
  <2>. QED
    BY <2>1, <2>2, <1>3 DEF Exact
<1>5. CASE skip_depth = 0
  <2>1. PICK a \in Answers :
           /\ Asks(<<Kind, "start">>, a)
           /\ \/ Stops(a) /\ Abort(a)
              \/ /\ ~ Stops(a)
                 /\ skip_depth' = SkipAfter(a)
                 /\ levels' = Begun(Inner, a)
                 /\ Goto("body")
                 /\ UNCHANGED <<options, token, cif, result>>
    BY <1>5 DEF ContainerStart
  <2>2. CASE Abort(a)
    BY <2>1, <2>2, HandlerStops
  <2>3. CASE ~ Abort(a)
    <3>1. /\ ~ Stops(a) /\ skip_depth' = SkipAfter(a) /\ levels' = Begun(Inner, a)
          /\ Goto("body") /\ UNCHANGED <<token, cif, result>>
          /\ event'.packet = <<>>
      BY <2>1, <2>3, EventPackets DEF Asks
    <3>2. /\ Exact(Inner, 0) /\ Len(Inner) = Depth
          /\ \A k \in 1..Depth-1 : Inner[k] = levels[k]
      BY <1>1, <1>2, <1>5, EnterAsking
    <3>3. Begins(Inner, Depth - 1)
      <4>1. \A k \in 1..Depth-1 : k > 1 => k - 1 \in 1..Depth-1
        BY <1>1
      <4>. QED
        BY <1>1, <1>2, <3>2, <4>1 DEF Begins
    <3>4. /\ Exact(Begun(Inner, a), SkipAfter(a)) /\ Len(Begun(Inner, a)) = Depth
          /\ \A k \in 1..Depth-2 : Begun(Inner, a)[k] = Inner[k]
      BY <1>1, <3>1, <3>2, BegunExact
    <3>5. Begins(Begun(Inner, a), Depth)
      BY <1>1, <3>1, <3>2, <3>3, BeginsBegun
    <3>6. \A k \in 1..Depth-2 : levels'[k] = levels[k]
      <4>1. \A k \in 1..Depth-2 : k \in 1..Depth-1
        BY <1>1
      <4>. QED
        BY <4>1, <3>1, <3>2, <3>4
    <3>. QED
      BY <3>1, <3>4, <3>5, <3>6, <1>3 DEF Exact
  <2>. QED
    BY <2>2, <2>3
<1>. QED
  BY <1>4, <1>5 DEF ContainerStart

\* parse_container takes the container off skip_depth and prunes it, so that no
\* empty loop is left without its container.
LEMMA ContainerEndStep ==
    ASSUME ParseInv, ContainerEnd
    PROVE  ParseInv'
<1>1. /\ Depth > 0 /\ Top.fn = "container" /\ Top.pc = "end"
      /\ Top \in ContainerFrame /\ Depth > 1 /\ Depth \in Nat \ {0} /\ stack # <<>>
      /\ Len(levels) = Depth /\ skip_depth \in 0..Depth
  BY UnderWay DEF ContainerEnd, Own
<1>2. Exact(levels, skip_depth) /\ Begins(levels, Len(levels))
  BY <1>1 DEF ParseInv, Beginning, Starting
<1>3. /\ Exact(Outer, Shallower) /\ Len(Outer) = Depth - 1
      /\ \A k \in 1..Depth-1 : Outer[k] = levels[k]
  BY <1>1, <1>2, LeaveExact
<1>4. Begins(Outer, Depth - 1)
  <2>1. Begins(levels, Len(levels) - 1)
    BY <1>1, <1>2 DEF Begins
  <2>. QED
    BY <2>1, <1>1, <1>2, BeginsOuter
<1>5. ASSUME Return, UNCHANGED <<token, result>>, event'.packet = <<>>,
             cif' \in Stored, cif'.empty \subseteq cif.empty,
             Exact(levels, skip_depth)', Len(levels') = Depth - 1,
             Begins(levels', Depth - 1),
             \A i \in 1..Depth-2 : levels'[i] = levels[i],
             levels[Depth-1].quiet \/ \A e \in cif'.empty : e[1] # Top.path
      PROVE  ParseInv'
  <2>1. /\ StackShape'
        /\ Depth' = Depth - 1 /\ stack' # <<>>
        /\ \A i \in 1..Depth-1 : stack'[i] = stack[i]
        /\ Top'.fn \in {"cif", "container"} /\ Top'.pc = "body"
    <3>1. Top' \in CifFrame \/ Top' \in ContainerFrame
      BY <1>1, <1>5, PopTop DEF ParseInv
    <3>2. Top'.fn \in {"cif", "container"}
      BY <3>1 DEF CifFrame, ContainerFrame
    <3>. QED
      BY <3>2, <1>1, <1>5, PopTop DEF ParseInv
  <2>2. TypesOK'
    BY <1>1, <1>5, <2>1 DEF ParseInv, TypesOK
  <2>3. LevelsMatch'
    BY <1>1, <1>5, <2>1 DEF LevelsMatch, Own
  <2>4. SkipPhase' /\ CellsCurrent'
    BY <2>1 DEF SkipPhase, Settled, Starting, CellsCurrent
  <2>5. Beginning'
    BY <1>5, <2>1 DEF Beginning, Starting
  <2>6. EmptyIsOpen'
    BY <1>1, <1>5, <2>1, EmptyKeptOnPop
  <2>. QED
    BY <1>5, <2>1, <2>2, <2>3, <2>4, <2>5, <2>6, NoPacketStored DEF ParseInv
<1>6. CASE Shallower > 0
  <2>1. /\ skip_depth' = Shallower /\ levels' = Outer /\ Return
        /\ event'.packet = <<>> /\ UNCHANGED <<token, cif, result>>
    BY <1>6, EventPackets DEF ContainerEnd, Silently
  <2>2. skip_depth > 1 /\ levels[Depth-1].quiet
    <3>1. skip_depth > 1
      BY <1>6, <1>1 DEF Shallower
    <3>2. Depth - 1 \in 1..Len(levels) /\ Depth - 1 > Len(levels) - skip_depth
      BY <3>1, <1>1
    <3>. QED
      BY <3>1, <3>2, <1>2 DEF Exact
  <2>3. \A i \in 1..Depth-2 : levels'[i] = levels[i]
    <3>1. \A i \in 1..Depth-2 : i \in 1..Depth-1
      BY <1>1
    <3>. QED
      BY <3>1, <2>1, <1>3
  <2>4. cif' \in Stored /\ cif'.empty \subseteq cif.empty
    BY <2>1 DEF ParseInv, TypesOK
  <2>. QED
    BY <2>1, <2>2, <2>3, <2>4, <1>3, <1>4, <1>5 DEF Exact
<1>7. CASE Shallower = 0
  <2> DEFINE c == Pruned(cif, Top.path)
  <2>1. PICK a \in Answers :
           /\ Asks(<<Kind, "end">>, a)
           /\ \/ Stops(a) /\ AbortAfter(a, c)
              \/ /\ ~ Stops(a)
                 /\ cif' = c
                 /\ skip_depth' = SkipRest(a)
                 /\ levels' = Ended(Outer, a)
                 /\ Return
                 /\ UNCHANGED <<options, token, result>>
    BY <1>7 DEF ContainerEnd
  <2>2. c \in Stored /\ c.empty \subseteq cif.empty /\ \A e \in c.empty : e[1] # Top.path
    BY DEF Pruned, ParseInv, TypesOK, Stored
  <2> HIDE DEF c
  <2>3. a # "none" /\ event'.packet = <<>>
    BY <2>1, EventPackets DEF Answers, Directions, Asks
  <2>4. CASE AbortAfter(a, c)
    BY <2>2, <2>3, <2>4, AbortStep
  <2>5. CASE ~ AbortAfter(a, c)
    <3>1. /\ ~ Stops(a) /\ skip_depth' = SkipRest(a) /\ levels' = Ended(Outer, a)
          /\ Return /\ UNCHANGED <<token, result>> /\ cif' = c
      BY <2>1, <2>5
    <3>2. Exact(Outer, 0) /\ Len(Outer) > 0 /\ Begins(Outer, Len(Outer))
      BY <1>1, <1>3, <1>4, <1>7
    <3>3. SkipRest(a) = IF a = "SKIP_SIBLINGS" THEN 1 ELSE 0
      BY DEF SkipRest
    <3>4. /\ Exact(Ended(Outer, a), SkipRest(a)) /\ Len(Ended(Outer, a)) = Depth - 1
          /\ \A k \in 1..Depth-1-1 : Ended(Outer, a)[k] = Outer[k]
      BY <3>1, <3>2, <3>3, <1>3, EndedExact
    <3>5. Begins(Ended(Outer, a), Depth - 1)
      BY <3>1, <3>2, <1>3, BeginsEnded
    <3>6. \A i \in 1..Depth-2 : levels'[i] = levels[i]
      <4>1. \A i \in 1..Depth-2 : i \in 1..Depth-1 /\ i \in 1..Depth-1-1
        BY <1>1
      <4>. QED
        BY <4>1, <3>1, <3>4, <1>3
    <3>. QED
      BY <3>1, <3>4, <3>5, <3>6, <2>2, <2>3, <1>5 DEF Exact
  <2>. QED
    BY <2>4, <2>5
<1>. QED
  BY <1>6, <1>7 DEF ContainerEnd

-----------------------------------------------------------------------------
(* The steps of parse_item and parse_loop_header. *)

\* An item or a loop is entered.
LEMMA PushInContainer ==
    ASSUME ParseInv, Depth > 0, Top.fn = "container", Top.pc = "body",
           NEW f \in ItemFrame \cup HeaderFrame, f.path = Top.path, stack' = Append(stack, f),
           token' \in Token \cup {End, NoToken}, cif' = cif, result' = result,
           event'.packet = <<>>, Settled(f, skip_depth'),
           Exact(levels, skip_depth)', Len(levels') = Depth + Own(f),
           Begins(levels', Depth),
           \A i \in 1..Depth-1 : levels'[i] = levels[i]
    PROVE  ParseInv'
<1>1. /\ f \in InContainer /\ f.fn \in {"item", "header"} /\ Own(f) \in {0, 1}
      /\ Own(f) = 0 => ~ Starting(f)
      /\ Own(f) = 1 => Starting(f)
  BY DEF InContainer, ItemFrame, HeaderFrame, Own, Starting
<1>2. Top \in ContainerFrame /\ Depth \in Nat \ {0} /\ Depth > 1
      /\ stack # <<>>
  BY UnderWay
<1>3. /\ StackShape'
      /\ Depth' = Depth + 1 /\ Top' = f /\ stack' # <<>>
      /\ \A i \in 1..Depth : stack'[i] = stack[i]
  BY <1>1, <1>2, PushTop DEF ParseInv
<1>4. TypesOK'
  BY <1>2, <1>3 DEF ParseInv, TypesOK
<1>5. LevelsMatch' /\ SkipPhase' /\ CellsCurrent'
  BY <1>1, <1>2, <1>3 DEF LevelsMatch, SkipPhase, CellsCurrent
<1>6. Beginning'
  <2>1. (IF Starting(f) THEN Len(levels') - 1 ELSE Len(levels')) = Depth
    BY <1>1, <1>2
  <2>. QED
    BY <2>1, <1>3 DEF Beginning
<1>7. EmptyIsOpen'
  BY <1>2, <1>3, EmptyKeptOnPush
<1>. QED
  BY <1>3, <1>4, <1>5, <1>6, <1>7, NoPacketStored DEF ParseInv

\* An item or a loop is left.
LEMMA PopInContainer ==
    ASSUME ParseInv, Depth > 0, Top.fn \in {"item", "header", "loop"}, Return,
           token' \in Token \cup {End, NoToken}, cif' \in Stored,
           cif'.empty \subseteq cif.empty, result' = result,
           event'.packet = <<>>,
           Exact(levels, skip_depth)', Len(levels') = Depth - 1,
           Begins(levels', Depth - 1),
           \A i \in 1..Depth-2 : levels'[i] = levels[i]
    PROVE  ParseInv'
<1>1. Top \in InContainer /\ Depth \in Nat \ {0} /\ Depth > 2 /\ stack # <<>>
  BY UnderWay
<1>2. /\ StackShape'
      /\ Depth' = Depth - 1 /\ stack' # <<>>
      /\ Top' \in ContainerFrame /\ Top'.pc = "body"
      /\ \A i \in 1..Depth-1 : stack'[i] = stack[i]
  BY <1>1, PopTop DEF ParseInv
<1>3. Top'.fn = "container" /\ Own(Top') = 1 /\ ~ Starting(Top')
  BY <1>2 DEF ContainerFrame, Own, Starting
<1>4. TypesOK'
  BY <1>1, <1>2 DEF ParseInv, TypesOK
<1>5. LevelsMatch'
  BY <1>1, <1>2, <1>3 DEF LevelsMatch
<1>6. SkipPhase' /\ CellsCurrent'
  BY <1>3 DEF SkipPhase, Settled, CellsCurrent
<1>7. Beginning'
  BY <1>1, <1>2, <1>3 DEF Beginning
<1>8. EmptyIsOpen'
  BY <1>1, <1>2, EmptyKeptOnPop
<1>. QED
  BY <1>2, <1>4, <1>5, <1>6, <1>7, <1>8, NoPacketStored DEF ParseInv

\* An item or a loop goes on.
LEMMA SwapInContainer ==
    ASSUME ParseInv, Depth > 0, Top.fn \in {"item", "header", "loop"},
           NEW f \in InContainer, f.path = Top.path, stack' = [stack EXCEPT ![Depth] = f],
           token' \in Token \cup {End, NoToken}, cif' \in Stored, result' = result,
           PacketsAreCurrent',
           Exact(levels, skip_depth)', Len(levels') = Depth - 1 + Own(f),
           Begins(levels', IF Starting(f) THEN Len(levels') - 1 ELSE Len(levels')),
           Settled(f, skip_depth'),
           f.fn = "loop" => CellsCurrentIn(f, token'),
           (StackShape' /\ Depth' = Depth /\ Top' = f
            /\ \A i \in 1..Depth-1 : stack'[i] = stack[i]) => EmptyIsOpen'
    PROVE  ParseInv'
<1>1. Top \in InContainer /\ Depth \in Nat \ {0} /\ Depth > 2 /\ stack # <<>>
  BY UnderWay
<1>2. /\ StackShape'
      /\ Depth' = Depth /\ Top' = f /\ stack' # <<>>
      /\ \A i \in 1..Depth-1 : stack'[i] = stack[i]
  BY <1>1, SwapTop DEF ParseInv
<1>3. TypesOK'
  BY <1>1, <1>2 DEF ParseInv, TypesOK
<1>4. LevelsMatch' /\ SkipPhase' /\ CellsCurrent'
  BY <1>2 DEF LevelsMatch, SkipPhase, CellsCurrent
<1>5. Beginning'
  BY <1>2 DEF Beginning
<1>. QED
  BY <1>2, <1>3, <1>4, <1>5 DEF ParseInv

\* and no container is passed over now that was not
LEMMA EmptyKeptInContainer ==
    ASSUME ParseInv, Depth > 0, Top.fn \in {"item", "header", "loop"},
           NEW f \in InContainer, Depth' = Depth, Top' = f, StackShape',
           \A i \in 1..Depth-1 : stack'[i] = stack[i],
           cif'.empty \subseteq cif.empty,
           \A i \in 1..Depth-2 : levels'[i] = levels[i]
    PROVE  EmptyIsOpen'
<1>1. Depth \in Nat \ {0} /\ Depth > 2 /\ stack # <<>> /\ Top = stack[Depth]
  BY UnderWay DEF Top
<1>2. ASSUME NEW i \in 2..Depth, stack[i].fn = "container", stack[i].pc # "start",
             ~ levels[i-1].quiet
      PROVE  /\ i \in 2..Depth'
             /\ stack'[i].fn = "container" /\ stack'[i].pc # "start"
             /\ stack'[i].path = stack[i].path
             /\ ~ levels'[i-1].quiet
  <2>1. i # Depth
    BY <1>1, <1>2
  <2>2. i \in 2..Depth' /\ i \in 1..Depth-1 /\ i - 1 \in 1..Depth-2
    BY <1>1, <2>1
  <2>. QED
    BY <2>2, <1>2
<1>. QED
  BY <1>1, <1>2, EmptyKept DEF ParseInv

\* An item is entered: one that is to be dropped, or nothing is passed over.
LEMMA EnterItemStep ==
    ASSUME ParseInv, Depth > 0, Top.fn = "container", Top.pc = "body",
           NEW name \in Column, name # NoName => skip_depth = 0, EnterItem(name),
           token' \in Token \cup {End, NoToken}
    PROVE  ParseInv'
<1> DEFINE f == Item(Top.path, name)
<1>1. Top \in ContainerFrame /\ Len(levels) = Depth
  BY UnderWay DEF Own
<1>2. /\ f \in ItemFrame /\ f.path = Top.path /\ f.fn = "item" /\ f.pc = "body"
      /\ f.name # NoName => name # NoName
  BY <1>1 DEF Item, ItemFrame, ContainerFrame, Column
<1>3. stack' = Append(stack, f) /\ event'.packet = <<>>
      /\ UNCHANGED <<skip_depth, cif, levels, result>>
  BY EventPackets DEF EnterItem, Silently
<1> HIDE DEF f
<1>4. Own(f) = 0 /\ Settled(f, skip_depth')
  BY <1>2, <1>3 DEF Own, Settled, Starting
<1>5. Exact(levels, skip_depth)' /\ Begins(levels', Depth)
  BY <1>1, <1>3, UnderWay DEF ParseInv, Exact, Beginning, Starting
<1>6. \A i \in 1..Depth-1 : levels'[i] = levels[i]
  BY <1>3
<1>7. Len(levels') = Depth + Own(f)
  BY <1>1, <1>3, <1>4, UnderWay
<1>. QED
  BY <1>2, <1>3, <1>4, <1>5, <1>6, <1>7, PushInContainer

\* An item passed over, or a duplicate, is read without a name.
LEMMA ItemNameStep ==
    ASSUME ParseInv, ItemName
    PROVE  ParseInv'
<1>1. CASE GivesUp
  BY <1>1, GivesUpStep
<1>2. CASE ~ GivesUp
  <2>1. /\ Depth > 0 /\ Top.fn = "container" /\ Top.pc = "body"
        /\ token.text \in Name
    BY TokenTexts DEF ItemName, At, ParseInv
  <2> DEFINE duplicate == skip_depth = 0 /\ Declared(Top.path, token.text)
             name == IF duplicate \/ skip_depth > 0 THEN NoName ELSE token.text
  <2>2. EnterItem(name) /\ token' = NoToken
    BY <1>2 DEF ItemName, Consume
  <2>3. name \in Column /\ (name # NoName => ~ (skip_depth > 0))
    BY <2>1 DEF Column
  <2>4. ~ (skip_depth > 0) => skip_depth = 0
    BY <2>1, UnderWay
  <2> HIDE DEF name
  <2>. QED
    BY <2>1, <2>2, <2>3, <2>4, EnterItemStep
<1>. QED
  BY <1>1, <1>2

\* A value without a name is read as that of such an item.
LEMMA StrayValueStep ==
    ASSUME ParseInv, StrayValue
    PROVE  ParseInv'
<1>1. CASE GivesUp
  BY <1>1, GivesUpStep
<1>2. CASE ~ GivesUp
  <2>1. /\ Depth > 0 /\ Top.fn = "container" /\ Top.pc = "body"
        /\ EnterItem(NoName) /\ token' = token /\ NoName \in Column
    BY <1>2 DEF StrayValue, At, Column
  <2>2. token' \in Token \cup {End, NoToken}
    BY <2>1 DEF ParseInv, TypesOK
  <2>. QED
    BY <2>1, <2>2, EnterItemStep
<1>. QED
  BY <1>1, <1>2

\* The handler of an item is asked if the item has a name.
LEMMA ItemValueStep ==
    ASSUME ParseInv, ItemValue
    PROVE  ParseInv'
<1>1. CASE GivesUp
  BY <1>1, GivesUpStep
<1>2. CASE ~ GivesUp
  <2>1. /\ Depth > 0 /\ Top.fn = "item" /\ Top.pc = "body"
        /\ token' = token \/ token' = NoToken
        /\ IF Top.name = NoName THEN Return ELSE Goto("handle")
        /\ UNCHANGED <<skip_depth, cif, levels, result>> /\ event'.packet = <<>>
    BY <1>2, EventPackets DEF ItemValue, Silently, Taking, Consume
  <2>2. token' \in Token \cup {End, NoToken} /\ cif' \in Stored
    BY <2>1 DEF ParseInv, TypesOK
  <2>3. /\ Top \in ItemFrame /\ Depth \in Nat /\ Depth > 2 /\ stack # <<>>
        /\ Len(levels) = Depth - 1
    BY <2>1, UnderWay, FrameKinds DEF Own
  <2>4. Exact(levels, skip_depth)' /\ Begins(levels', Len(levels'))
    BY <2>1, <2>3 DEF ParseInv, Exact, Beginning, Starting
  <2>5. CASE Top.name = NoName
    BY <2>1, <2>2, <2>3, <2>4, <2>5, PopInContainer
  <2>6. CASE Top.name # NoName
    <3> DEFINE f == [Top EXCEPT !.pc = "handle"]
    <3>1. /\ f \in ItemFrame /\ f.fn = "item" /\ f.name = Top.name /\ f.path = Top.path
          /\ f.pc = "handle"
      BY <2>3 DEF ItemFrame
    <3>2. stack' = [stack EXCEPT ![Depth] = f]
      BY <2>1, <2>6 DEF Goto, Top
    <3> HIDE DEF f
    <3>3. f \in InContainer /\ Own(f) = 0 /\ ~ Starting(f)
      BY <3>1 DEF InContainer, Own, Starting
    <3>4. Settled(f, skip_depth')
      BY <2>1, <2>3, <2>6, <3>1, <3>3 DEF ParseInv, SkipPhase, Settled
    <3>5. (StackShape' /\ Depth' = Depth /\ Top' = f
            /\ \A i \in 1..Depth-1 : stack'[i] = stack[i]) => EmptyIsOpen'
      BY <2>1, <3>3, EmptyKeptInContainer
    <3>6. Len(levels') = Depth - 1 + Own(f)
      BY <2>1, <2>3, <3>3
    <3>. QED
      BY <2>1, <2>2, <2>4, <3>1, <3>2, <3>3, <3>4, <3>5, <3>6, SwapInContainer, NoPacketStored
  <2>. QED
    BY <2>5, <2>6
<1>. QED
  BY <1>1, <1>2

\* An item's handler is asked where nothing is passed over; its answer counts for
\* what follows in the container.
LEMMA HandleItemStep ==
    ASSUME ParseInv, HandleItem
    PROVE  ParseInv'
<1>1. PICK a \in Answers :
          /\ Asks(<<"item">>, a)
          /\ \/ Stops(a) /\ Abort(a)
             \/ /\ a = "CONTINUE" /\ Top.name \notin ValidName
                /\ Abort("CIF_INVALID_ITEMNAME")
             \/ /\ a = "CONTINUE" /\ Top.name \in ValidName
                /\ cif' = [cif EXCEPT !.items = @ \cup {<<Top.path, Top.name>>}]
                /\ Return
                /\ UNCHANGED <<options, token, skip_depth, levels, result>>
             \/ /\ Skips(a)
                /\ skip_depth' = SkipRest(a)
                /\ levels' = Ended(levels, a)
                /\ Return
                /\ UNCHANGED <<options, token, cif, result>>
  BY DEF HandleItem
<1>2. event'.packet = <<>>
  BY <1>1, EventPackets DEF Asks
<1>3. CASE Stops(a) /\ Abort(a)
  BY <1>1, <1>3, HandlerStops
<1>4. CASE Abort("CIF_INVALID_ITEMNAME")
  BY <1>2, <1>4, AbortStep DEF Abort, ParseInv, TypesOK
<1>5. /\ Depth > 0 /\ Top.fn = "item" /\ Top.pc = "handle"
      /\ Top \in ItemFrame /\ Depth \in Nat /\ Depth > 2 /\ stack # <<>>
      /\ Len(levels) = Depth - 1
  BY UnderWay, FrameKinds DEF HandleItem, Own
<1>6. skip_depth = 0
  BY <1>5 DEF ParseInv, SkipPhase, Settled
<1>7. Exact(levels, skip_depth) /\ Begins(levels, Len(levels))
  BY <1>5 DEF ParseInv, Beginning, Starting
<1>8. token' = token => token' \in Token \cup {End, NoToken}
  BY DEF ParseInv, TypesOK
<1>9. cif \in Stored
  BY DEF ParseInv, TypesOK
<1>10. CASE /\ cif' = [cif EXCEPT !.items = @ \cup {<<Top.path, Top.name>>}]
            /\ Return
            /\ UNCHANGED <<options, token, skip_depth, levels, result>>
  <2>1. cif' \in Stored /\ cif'.empty \subseteq cif.empty
    BY <1>5, <1>9, <1>10 DEF Stored, ItemFrame
  <2>2. Exact(levels, skip_depth)' /\ Begins(levels', Len(levels'))
    BY <1>7, <1>10 DEF Exact
  <2>. QED
    BY <2>1, <2>2, <1>2, <1>5, <1>8, <1>10, PopInContainer
<1>11. CASE /\ Skips(a)
            /\ skip_depth' = SkipRest(a)
            /\ levels' = Ended(levels, a)
            /\ Return
            /\ UNCHANGED <<options, token, cif, result>>
  <2>1. ~ Stops(a) /\ SkipRest(a) = IF a = "SKIP_SIBLINGS" THEN 1 ELSE 0
    BY <1>11 DEF Skips, Stops, SkipRest
  <2>2. Exact(levels, 0) /\ Len(levels) > 0
    BY <1>5, <1>6, <1>7
  <2>3. /\ Exact(Ended(levels, a), SkipRest(a)) /\ Len(Ended(levels, a)) = Depth - 1
        /\ \A k \in 1..Depth-1-1 : Ended(levels, a)[k] = levels[k]
    BY <2>1, <2>2, <1>5, EndedExact
  <2>4. Begins(Ended(levels, a), Depth - 1)
    BY <2>1, <2>2, <1>5, <1>7, BeginsEnded
  <2>5. \A i \in 1..Depth-2 : levels'[i] = levels[i]
    <3>1. \A i \in 1..Depth-2 : i \in 1..Depth-1-1
      BY <1>5
    <3>. QED
      BY <3>1, <2>3, <1>11
  <2>6. Exact(levels, skip_depth)' /\ Len(levels') = Depth - 1 /\ Begins(levels', Depth - 1)
    BY <2>3, <2>4, <1>11 DEF Exact
  <2>7. cif' \in Stored /\ cif'.empty \subseteq cif.empty
    BY <1>9, <1>11
  <2>. QED
    BY <2>5, <2>6, <2>7, <1>2, <1>5, <1>8, <1>11, PopInContainer
<1>. QED
  BY <1>1, <1>3, <1>4, <1>10, <1>11

\* parse_loop counts the loop before its header is read.
LEMMA LoopKeywordStep ==
    ASSUME ParseInv, LoopKeyword
    PROVE  ParseInv'
<1> DEFINE f == [fn |-> "header", pc |-> "body", path |-> Top.path, columns |-> <<>>]
<1>1. /\ Depth > 0 /\ Top.fn = "container" /\ Top.pc = "body"
      /\ stack' = Append(stack, f) /\ skip_depth' = Deeper /\ levels' = Inner
      /\ token' = NoToken /\ event'.packet = <<>> /\ UNCHANGED <<cif, result>>
  BY EventPackets DEF LoopKeyword, At, Consume, Silently
<1>2. /\ Top \in ContainerFrame /\ Len(levels) = Depth /\ Depth \in Nat /\ Depth > 1
      /\ stack # <<>> /\ skip_depth \in 0..Depth
  BY <1>1, UnderWay DEF Own
<1>3. <<>> \in Seq(Column)
  BY EmptySeq
<1>4. f \in HeaderFrame /\ f.path = Top.path /\ f.fn = "header"
  BY <1>2, <1>3 DEF HeaderFrame, ContainerFrame
<1> HIDE DEF f
<1>5. Own(f) = 1 /\ Starting(f)
  BY <1>4 DEF Own, Starting
<1>6. Exact(levels, skip_depth) /\ Begins(levels, Depth)
  BY <1>1, <1>2 DEF ParseInv, Beginning, Starting
<1>7. /\ Exact(Inner, Deeper) /\ Len(Inner) = Depth + 1 /\ Deeper # 1
      /\ \A k \in 1..Depth : Inner[k] = levels[k]
  <2>1. CASE skip_depth > 0
    <3>1. Deeper # 1
      BY <2>1, <1>2 DEF Deeper
    <3>. QED
      BY <2>1, <3>1, <1>2, <1>6, EnterQuietly
  <2>2. CASE skip_depth = 0
    <3>1. Deeper = 0
      BY <2>2 DEF Deeper
    <3>. QED
      BY <2>2, <3>1, <1>2, <1>6, EnterAsking
  <2>. QED
    BY <2>1, <2>2, <1>2
<1>8. Begins(Inner, Depth)
  <2>1. \A k \in 1..Depth : k > 1 => k - 1 \in 1..Depth
    BY <1>2
  <2>. QED
    BY <2>1, <1>6, <1>7 DEF Begins
<1>9. Settled(f, skip_depth')
  BY <1>1, <1>4, <1>7 DEF Settled
<1>10. Exact(levels, skip_depth)' /\ Len(levels') = Depth + Own(f) /\ Begins(levels', Depth)
  BY <1>1, <1>5, <1>7, <1>8 DEF Exact
<1>11. \A i \in 1..Depth-1 : levels'[i] = levels[i]
  <2>1. \A i \in 1..Depth-1 : i \in 1..Depth
    BY <1>2
  <2>. QED
    BY <2>1, <1>1, <1>7
<1>. QED
  BY <1>1, <1>4, <1>9, <1>10, <1>11, PushInContainer

\* A name more in the header changes nothing that is counted.
LEMMA HeaderNameStep ==
    ASSUME ParseInv, HeaderName
    PROVE  ParseInv'
<1>1. CASE GivesUp
  BY <1>1, GivesUpStep
<1>2. CASE ~ GivesUp
  <2> DEFINE duplicate == Declared(Top.path, token.text)
             column == IF duplicate THEN NoName ELSE token.text
             columns == Append(Top.columns, column)
             f == [Top EXCEPT !.columns = columns]
  <2>1. /\ Depth > 0 /\ Top.fn = "header" /\ token.text \in Name
        /\ token' = NoToken /\ event'.packet = <<>>
        /\ UNCHANGED <<skip_depth, cif, levels, result>>
    BY <1>2, TokenTexts, EventPackets DEF HeaderName, At, Consume, Silently, ParseInv
  <2>2. stack' = [stack EXCEPT ![Depth] = f]
    BY <1>2 DEF HeaderName, Top
  <2>3. Top \in HeaderFrame /\ Depth \in Nat /\ Depth > 2 /\ Len(levels) = Depth /\ stack # <<>>
    BY <2>1, UnderWay, FrameKinds DEF Own
  <2>4. Top.columns \in Seq(Column) /\ column \in Column
    BY <2>1, <2>3 DEF HeaderFrame, Column
  <2> HIDE DEF column
  <2>5. columns \in Seq(Column)
    BY <2>4, AppendProperties
  <2> HIDE DEF columns
  <2>6. f \in HeaderFrame /\ f.fn = "header" /\ f.path = Top.path
    BY <2>3, <2>5 DEF HeaderFrame
  <2> HIDE DEF f
  <2>7. f \in InContainer /\ Own(f) = 1 /\ Starting(f) /\ Starting(Top)
    BY <2>1, <2>6 DEF InContainer, Own, Starting
  <2>8. Settled(f, skip_depth')
    BY <2>1, <2>3, <2>6, <2>7 DEF ParseInv, SkipPhase, Settled
  <2>9. Exact(levels, skip_depth)' /\ Begins(levels', Len(levels') - 1)
    BY <2>1, <2>3, <2>7 DEF ParseInv, Exact, Beginning
  <2>10. (StackShape' /\ Depth' = Depth /\ Top' = f
          /\ \A i \in 1..Depth-1 : stack'[i] = stack[i]) => EmptyIsOpen'
    BY <2>1, <2>7, EmptyKeptInContainer
  <2>11. Len(levels') = Depth - 1 + Own(f)
    BY <2>1, <2>3, <2>7
  <2>12. token' \in Token \cup {End, NoToken} /\ cif' \in Stored
    BY <2>1 DEF ParseInv, TypesOK
  <2>. QED
    BY <2>1, <2>2, <2>6, <2>7, <2>8, <2>9, <2>10, <2>11, <2>12, SwapInContainer, NoPacketStored
<1>. QED
  BY <1>1, <1>2

-----------------------------------------------------------------------------
(* The steps of parse_loop and parse_loop_packets. *)

\* What is kept of a loop that is being read
LEMMA LoopFields ==
    ASSUME NEW f \in LoopFrame
    PROVE  /\ f.fn = "loop" /\ f \in InContainer
           /\ f.columns \in Seq(Column) /\ Len(f.columns) \in Nat
           /\ DOMAIN f.columns = 1..Len(f.columns)
           /\ f.cells \in [1..Len(f.columns) -> CellStates]
           /\ f.col \in 0..Len(f.columns)
           /\ f.pc \in {"start", "end"} => f.col = 0
           /\ f.pc = "packet_end" => f.col > 0
           /\ f.pc # "end" => f.columns # <<>> /\ Len(f.columns) > 0
<1>1. /\ f.fn = "loop" /\ f \in InContainer
      /\ f.columns \in Seq(Column) /\ f.cells \in Seq(CellStates)
      /\ DOMAIN f.cells = DOMAIN f.columns
      /\ f.col \in 0..Len(f.columns)
      /\ f.pc \in {"start", "end"} => f.col = 0
      /\ f.pc = "packet_end" => f.col > 0
      /\ f.pc # "end" => f.columns # <<>>
  BY DEF LoopFrame, InContainer
<1>2. /\ Len(f.columns) \in Nat
      /\ DOMAIN f.columns = 1..Len(f.columns)
      /\ f.cells \in [1..Len(f.cells) -> CellStates]
      /\ DOMAIN f.cells = 1..Len(f.cells)
  BY <1>1, LenProperties
<1>3. f.cells \in [1..Len(f.columns) -> CellStates]
  BY <1>1, <1>2
<1>4. f.pc # "end" => Len(f.columns) > 0
  BY <1>1, EmptySeq
<1>. QED
  BY <1>1, <1>2, <1>3, <1>4

\* The cells of a loop as a sequence
LEMMA CellsSeq ==
    ASSUME NEW n \in Nat, NEW c \in [1..n -> CellStates]
    PROVE  c \in Seq(CellStates) /\ DOMAIN c = 1..n
BY SeqDef

\* The cells of a loop are at first those of no packet.
LEMMA HeaderEndsStep ==
    ASSUME ParseInv, HeaderEnds
    PROVE  ParseInv'
<1>1. CASE GivesUp
  BY <1>1, GivesUpStep
<1>2. CASE ~ GivesUp
  <2> DEFINE pc == IF Top.columns = <<>> THEN "end" ELSE "start"
             f == Loop(pc)
  <2>1. /\ Depth > 0 /\ Top.fn = "header" /\ event'.packet = <<>>
        /\ UNCHANGED <<token, skip_depth, cif, levels, result>>
        /\ stack' = [stack EXCEPT ![Depth] = f]
    BY <1>2, EventPackets DEF HeaderEnds, Silently
  <2>2. Top \in HeaderFrame /\ Depth \in Nat /\ Depth > 2 /\ Len(levels) = Depth /\ stack # <<>>
    BY <2>1, UnderWay, FrameKinds DEF Own
  <2>3. /\ Top.columns \in Seq(Column) /\ Top.path \in Path
        /\ Len(Top.columns) \in Nat /\ DOMAIN Top.columns = 1..Len(Top.columns)
    BY <2>2, LenProperties DEF HeaderFrame
  <2> DEFINE cells == [k \in DOMAIN Top.columns |->
                          IF Top.columns[k] = NoName THEN "dropped" ELSE "unknown"]
  <2>4. cells \in [1..Len(Top.columns) -> CellStates]
    BY <2>3 DEF CellStates
  <2>5. cells \in Seq(CellStates) /\ DOMAIN cells = DOMAIN Top.columns
    BY <2>3, <2>4, CellsSeq
  <2>6. \A k \in DOMAIN Top.columns :
           /\ Top.columns[k] = NoName <=> cells[k] = "dropped"
           /\ Top.columns[k] # NoName => cells[k] = "unknown"
    OBVIOUS
  <2>7. f = [fn |-> "loop", pc |-> pc, path |-> Top.path, columns |-> Top.columns,
             names |-> {}, col |-> 0, any |-> FALSE, cells |-> cells]
    BY DEF Loop
  <2> HIDE DEF cells
  <2>8. /\ f \in LoopFrame /\ f.fn = "loop" /\ f.path = Top.path /\ f.col = 0
        /\ f.columns = Top.columns /\ f.cells = cells
        /\ f.pc = pc
    <3>1. pc \in {"start", "end"} /\ (pc = "end" <=> Top.columns = <<>>)
      OBVIOUS
    <3> HIDE DEF pc, f
    <3>2. /\ f.fn = "loop" /\ f.path = Top.path /\ f.col = 0
          /\ f.columns = Top.columns /\ f.cells = cells
          /\ f.pc = pc
      BY <2>7
    <3>3. f \in [fn : {"loop"}, pc : {"start", "body", "packet_end", "end"}, path : Path,
                 columns : Seq(Column), names : SUBSET Name, col : Nat, any : BOOLEAN,
                 cells : Seq(CellStates)]
      BY <2>3, <2>5, <2>7, <3>1
    <3>4. 0 \in 0..Len(Top.columns)
      BY <2>3
    <3>5. f \in LoopFrame
      BY <3>1, <3>2, <3>3, <3>4, <2>5 DEF LoopFrame
    <3>. QED
      BY <3>2, <3>5
  <2>9. (f.pc = "start" \/ f.columns = <<>>) /\ f.pc # "packet_end"
    BY <2>8
  <2> HIDE DEF f, pc
  <2>10. f \in InContainer /\ Own(f) = 1 /\ Starting(f) /\ Starting(Top)
    BY <2>1, <2>8, <2>9 DEF InContainer, Own, Starting
  <2>11. Settled(f, skip_depth')
    BY <2>1, <2>2, <2>8, <2>10 DEF ParseInv, SkipPhase, Settled
  <2>12. Exact(levels, skip_depth)' /\ Begins(levels', Len(levels') - 1)
    BY <2>1, <2>2, <2>10 DEF ParseInv, Exact, Beginning
  <2>13. (StackShape' /\ Depth' = Depth /\ Top' = f
          /\ \A i \in 1..Depth-1 : stack'[i] = stack[i]) => EmptyIsOpen'
    BY <2>1, <2>10, EmptyKeptInContainer
  <2>14. CellsCurrentIn(f, token')
    <3>1. \A k \in DOMAIN f.columns : f.columns[k] = NoName <=> f.cells[k] = "dropped"
      BY <2>6, <2>8
    <3>2. Whole(f.cells) => CellsUpTo(f.cells, f.col, "unknown")
      <4>1. \A k \in DOMAIN cells : ~ (k < 0)
        BY <2>3, <2>5
      <4>2. Whole(cells) => \A k \in DOMAIN cells : cells[k] = "unknown"
        BY <2>5, <2>6 DEF Whole
      <4>. QED
        BY <4>1, <4>2, <2>8 DEF CellsUpTo
    <3>. QED
      BY <3>1, <3>2, <2>9 DEF CellsCurrentIn
  <2>15. Len(levels') = Depth - 1 + Own(f)
    BY <2>1, <2>2, <2>10
  <2>16. token' \in Token \cup {End, NoToken} /\ cif' \in Stored
    BY <2>1 DEF ParseInv, TypesOK
  <2>. QED
    BY <2>1, <2>8, <2>10, <2>11, <2>12, <2>13, <2>14, <2>15, <2>16, SwapInContainer, NoPacketStored
<1>. QED
  BY <1>1, <1>2

\* A loop that is being read
LEMMA InLoop ==
    ASSUME ParseInv, Depth > 0, Top.fn = "loop"
    PROVE  /\ Depth \in Nat /\ Depth > 2 /\ stack # <<>>
           /\ Top \in LoopFrame
           /\ Len(levels) = IF Top.col > 0 THEN Depth + 1 ELSE Depth
           /\ Len(levels) \in Nat /\ skip_depth \in 0..Len(levels)
           /\ Exact(levels, skip_depth)
           /\ Begins(levels, IF Starting(Top) THEN Len(levels) - 1 ELSE Len(levels))
           /\ Top.pc = "start" => skip_depth # 1
           /\ CellsCurrentIn(Top, token)
           /\ cif \in Stored /\ token \in Token \cup {End, NoToken}
<1>1. /\ Depth \in Nat /\ Depth > 2 /\ stack # <<>> /\ Top \in LoopFrame
      /\ Len(levels) \in Nat /\ skip_depth \in 0..Len(levels)
      /\ Len(levels) = Depth - 1 + Own(Top)
  BY UnderWay, FrameKinds
<1>2. Len(levels) = IF Top.col > 0 THEN Depth + 1 ELSE Depth
  BY <1>1 DEF Own
<1>3. Exact(levels, skip_depth) /\ cif \in Stored /\ token \in Token \cup {End, NoToken}
  BY DEF ParseInv, TypesOK
<1>4. Begins(levels, IF Starting(Top) THEN Len(levels) - 1 ELSE Len(levels))
  BY <1>1 DEF ParseInv, Beginning
<1>5. Top.pc = "start" => skip_depth # 1
  BY <1>1 DEF ParseInv, SkipPhase, Settled, Starting
<1>6. CellsCurrentIn(Top, token)
  BY <1>1 DEF ParseInv, CellsCurrent
<1>. QED
  BY <1>1, <1>2, <1>3, <1>4, <1>5, <1>6

\* A loop goes on with its packets, or is at its end.
LEMMA SwapLoop ==
    ASSUME ParseInv, Depth > 0, Top.fn = "loop",
           NEW f \in LoopFrame, f.path = Top.path, ~ Starting(f),
           stack' = [stack EXCEPT ![Depth] = f],
           token' \in Token \cup {End, NoToken}, cif' \in Stored, result' = result,
           PacketsAreCurrent',
           Exact(levels, skip_depth)',
           Len(levels') = IF f.col > 0 THEN Depth + 1 ELSE Depth,
           Begins(levels', Len(levels')),
           CellsCurrentIn(f, token'),
           \A i \in 1..Depth-2 : levels'[i] = levels[i],
           \A e \in cif'.empty : e \in cif.empty \/ (e[1] = Top.path /\ ~ levels[Depth-2].quiet)
    PROVE  ParseInv'
<1>1. Depth \in Nat /\ Depth > 2 /\ stack # <<>> /\ Top = stack[Depth]
  BY InLoop DEF Top
<1>2. f \in InContainer /\ f.fn = "loop"
  BY LoopFields
<1>3. Settled(f, skip_depth') /\ Len(levels') = Depth - 1 + Own(f)
  BY <1>1, <1>2 DEF Settled, Own
<1>4. ASSUME StackShape', Depth' = Depth, Top' = f,
             \A i \in 1..Depth-1 : stack'[i] = stack[i]
      PROVE  EmptyIsOpen'
  <2>. SUFFICES ASSUME NEW e \in cif'.empty
               PROVE  \E i \in 2..Depth' :
                         /\ stack'[i].fn = "container" /\ stack'[i].pc # "start"
                         /\ stack'[i].path = e[1]
                         /\ ~ levels'[i-1].quiet
    BY DEF EmptyIsOpen
  <2>1. CASE e \in cif.empty
    <3>1. PICK i \in 2..Depth :
             /\ stack[i].fn = "container" /\ stack[i].pc # "start"
             /\ stack[i].path = e[1]
             /\ ~ levels[i-1].quiet
      BY <2>1, <1>1 DEF ParseInv, EmptyIsOpen
    <3>2. i # Depth
      BY <3>1, <1>1
    <3>3. i \in 2..Depth' /\ i \in 1..Depth-1 /\ i - 1 \in 1..Depth-2
      BY <1>1, <1>4, <3>2
    <3>. QED
      BY <3>1, <3>3, <1>4
  <2>2. CASE e[1] = Top.path /\ ~ levels[Depth-2].quiet
    <3>1. /\ Depth - 1 \in 2..Depth' /\ Depth - 1 \in 2..Depth-1 /\ Depth - 1 \in 1..Depth-1
          /\ Depth - 1 - 1 = Depth - 2 /\ Depth - 2 \in 1..Depth-2
      BY <1>1, <1>4
    <3>2. /\ stack[Depth-1] \in ContainerFrame /\ stack[Depth-1].pc = "body"
          /\ stack[Depth-1].path = Top.path
      <4>1. Top \in InContainer
        BY <1>1, UnderWay
      <4>. QED
        BY <4>1, <3>1, <1>1 DEF ParseInv, StackShape
    <3>3. /\ stack'[Depth-1].fn = "container" /\ stack'[Depth-1].pc # "start"
          /\ stack'[Depth-1].path = e[1]
      BY <2>2, <3>1, <3>2, <1>4 DEF ContainerFrame
    <3>4. ~ levels'[Depth-1-1].quiet
      BY <2>2, <3>1
    <3>. QED
      BY <3>1, <3>3, <3>4
  <2>. QED
    BY <2>1, <2>2
<1>. QED
  BY <1>2, <1>3, <1>4, SwapInContainer

\* The end of the packets is that of the loop.
LEMMA PacketsEndStep ==
    ASSUME ParseInv, PacketsEnd
    PROVE  ParseInv'
<1>1. CASE GivesUp
  BY <1>1, GivesUpStep
<1>2. CASE ~ GivesUp
  <2> DEFINE f == [Top EXCEPT !.pc = "end"]
  <2>1. /\ Depth > 0 /\ Top.fn = "loop" /\ Top.pc = "body" /\ Top.col = 0
        /\ Goto("end") /\ event'.packet = <<>>
        /\ UNCHANGED <<token, skip_depth, cif, levels, result>>
    BY <1>2, EventPackets DEF PacketsEnd, Silently
  <2>2. Top \in LoopFrame /\ Top.columns # <<>> /\ ~ Starting(Top)
    BY <2>1, InLoop, LoopFields DEF Starting
  <2>3. stack' = [stack EXCEPT ![Depth] = f]
    BY <2>1 DEF Goto, Top
  <2>4. /\ f \in LoopFrame /\ f.path = Top.path /\ f.col = 0 /\ f.pc = "end" /\ f.fn = "loop"
        /\ f.columns = Top.columns /\ f.cells = Top.cells
    BY <2>1, <2>2 DEF LoopFrame
  <2> HIDE DEF f
  <2>5. ~ Starting(f)
    BY <2>2, <2>4 DEF Starting
  <2>6. CellsCurrentIn(f, token')
    BY <2>1, <2>4, InLoop DEF CellsCurrentIn
  <2>7. Exact(levels, skip_depth)' /\ Begins(levels', Len(levels'))
    BY <2>1, <2>2, InLoop DEF Exact
  <2>. QED
    BY <2>1, <2>3, <2>4, <2>5, <2>6, <2>7, InLoop, SwapLoop, NoPacketStored
<1>. QED
  BY <1>1, <1>2

\* parse_loop takes the loop off skip_depth, whether or not it was begun.
LEMMA LoopEndStep ==
    ASSUME ParseInv, LoopEnd
    PROVE  ParseInv'
<1>1. /\ Depth > 0 /\ Top.fn = "loop" /\ Top.pc = "end" /\ Top.col = 0
      /\ Depth \in Nat /\ Depth > 2 /\ Len(levels) = Depth /\ skip_depth \in 0..Depth
      /\ Exact(levels, skip_depth)
      /\ token \in Token \cup {End, NoToken} /\ cif \in Stored
  BY InLoop, LoopFields DEF LoopEnd
<1>2. Begins(levels, Len(levels) - 1)
  BY <1>1, InLoop DEF Begins
<1>3. /\ Exact(Outer, Shallower) /\ Len(Outer) = Depth - 1
      /\ \A k \in 1..Depth-1 : Outer[k] = levels[k]
      /\ Begins(Outer, Depth - 1)
  BY <1>1, <1>2, LeaveExact, BeginsOuter
<1>4. \A i \in 1..Depth-2 : i \in 1..Depth-1 /\ i \in 1..Depth-1-1
  BY <1>1
<1>5. CASE skip_depth > 0
  <2>1. /\ skip_depth' = Shallower /\ levels' = Outer /\ Return
        /\ event'.packet = <<>> /\ UNCHANGED <<token, cif, result>>
    BY <1>5, EventPackets DEF LoopEnd, Silently
  <2>. QED
    BY <2>1, <1>1, <1>3, <1>4, PopInContainer DEF Exact
<1>6. CASE skip_depth = 0
  <2>1. PICK a \in Answers :
           /\ Asks(<<"loop", "end">>, a)
           /\ \/ Stops(a) /\ Abort(a)
              \/ /\ ~ Stops(a)
                 /\ skip_depth' = SkipRest(a)
                 /\ levels' = Ended(Outer, a)
                 /\ Return
                 /\ UNCHANGED <<options, token, cif, result>>
    BY <1>6 DEF LoopEnd
  <2>2. CASE Abort(a)
    BY <2>1, <2>2, HandlerStops
  <2>3. CASE ~ Abort(a)
    <3>1. /\ ~ Stops(a) /\ skip_depth' = SkipRest(a) /\ levels' = Ended(Outer, a)
          /\ Return /\ UNCHANGED <<token, result, cif>> /\ event'.packet = <<>>
      BY <2>1, <2>3, EventPackets DEF Asks
    <3>2. Exact(Outer, 0) /\ Len(Outer) > 0
      BY <1>1, <1>3, <1>6 DEF Shallower
    <3>3. SkipRest(a) = IF a = "SKIP_SIBLINGS" THEN 1 ELSE 0
      BY DEF SkipRest
    <3>4. /\ Exact(Ended(Outer, a), SkipRest(a)) /\ Len(Ended(Outer, a)) = Depth - 1
          /\ \A k \in 1..Depth-1-1 : Ended(Outer, a)[k] = Outer[k]
      BY <3>1, <3>2, <3>3, <1>3, EndedExact
    <3>5. Begins(Ended(Outer, a), Depth - 1)
      BY <3>1, <3>2, <1>3, BeginsEnded
    <3>6. \A i \in 1..Depth-2 : levels'[i] = levels[i]
      BY <3>1, <3>4, <1>3, <1>4
    <3>. QED
      BY <3>1, <3>4, <3>5, <3>6, <1>1, PopInContainer DEF Exact
  <2>. QED
    BY <2>2, <2>3
<1>. QED
  BY <1>5, <1>6 DEF LoopEnd

\* A loop whose packets come next, and the items that its names make
LEMMA EnterBodyFrame ==
    ASSUME ParseInv, Depth > 0, Top.fn = "loop", Top.pc = "start",
           NEW names \in SUBSET NamesOf(Top.columns), EnterBody(names),
           NEW f, f = [Top EXCEPT !.pc = "body", !.names = names]
    PROVE  /\ stack' = [stack EXCEPT ![Depth] = f]
           /\ f \in LoopFrame /\ f.path = Top.path /\ f.col = 0 /\ ~ Starting(f)
           /\ CellsCurrentIn(f, token')
           /\ cif' \in Stored /\ token' = token /\ result' = result
           /\ token' \in Token \cup {End, NoToken}
           /\ \A e \in cif'.empty : e \in cif.empty \/ (e[1] = Top.path /\ names # {})
<1>1. /\ Top \in LoopFrame /\ Depth \in Nat /\ Depth > 2
      /\ CellsCurrentIn(Top, token)
      /\ cif \in Stored /\ token \in Token \cup {End, NoToken}
  BY InLoop
<1>2. /\ Top.columns \in Seq(Column) /\ Top.columns # <<>> /\ Top.col = 0
      /\ Top.path \in Path
      /\ \A k \in DOMAIN Top.columns : Top.columns[k] \in Column
  <2>1. Top.path \in Path
    BY <1>1 DEF LoopFrame
  <2>2. \A k \in DOMAIN Top.columns : Top.columns[k] \in Column
    BY <1>1, LoopFields, ElementOfSeq
  <2>. QED
    BY <1>1, <2>1, <2>2, LoopFields
<1>3. names \subseteq Name
  BY <1>2 DEF NamesOf, Kept, Column
<1>4. f \in LoopFrame /\ f.path = Top.path /\ f.col = 0 /\ f.fn = "loop" /\ f.pc = "body"
      /\ f.columns = Top.columns /\ f.cells = Top.cells
  BY <1>1, <1>2, <1>3 DEF LoopFrame
<1>5. stack' = [stack EXCEPT ![Depth] = f]
  BY DEF EnterBody, Top
<1>6. ~ Starting(f)
  BY <1>2, <1>4 DEF Starting
<1>7. UNCHANGED <<token, result>>
  BY DEF EnterBody
<1>8. CellsCurrentIn(f, token')
  BY <1>1, <1>2, <1>4, <1>7 DEF CellsCurrentIn
<1>9. /\ Items(names) \subseteq Path \X Column
      /\ \A e \in Items(names) : e[1] = Top.path /\ names # {}
  BY <1>2, <1>3 DEF Items, Column
<1>10. cif' = [cif EXCEPT !.items = @ \cup Items(names), !.empty = @ \cup Items(names)]
  BY DEF EnterBody
<1>11. cif' \in Stored /\ cif'.empty = cif.empty \cup Items(names)
  BY <1>1, <1>9, <1>10 DEF Stored
<1>. QED
  BY <1>1, <1>4, <1>5, <1>6, <1>7, <1>8, <1>9, <1>11

\* A loop that is passed over is in something that is, too, as parse_loop has
\* counted it: the start handler is not asked.
LEMMA SkippedLoopStartStep ==
    ASSUME ParseInv, SkippedLoopStart
    PROVE  ParseInv'
<1>1. /\ Depth > 0 /\ Top.fn = "loop" /\ Top.pc = "start" /\ skip_depth > 0
      /\ event'.packet = <<>>
  BY EventPackets DEF SkippedLoopStart, Silently
<1>2. CASE ~ Valid(Top.columns)
  <2>1. AbortAfter("CIF_INVALID_ITEMNAME", cif)
    BY <1>2 DEF SkippedLoopStart, Abort
  <2>. QED
    BY <2>1, <1>1, InLoop, AbortStep
<1>3. CASE Valid(Top.columns)
  <2> DEFINE f == [Top EXCEPT !.pc = "body", !.names = {}]
  <2>1. EnterBody({}) /\ UNCHANGED <<skip_depth, levels>>
    BY <1>3 DEF SkippedLoopStart
  <2>2. {} \in SUBSET NamesOf(Top.columns)
    OBVIOUS
  <2>3. /\ stack' = [stack EXCEPT ![Depth] = f]
        /\ f \in LoopFrame /\ f.path = Top.path /\ f.col = 0 /\ ~ Starting(f)
        /\ CellsCurrentIn(f, token')
        /\ cif' \in Stored /\ token' = token /\ result' = result
        /\ token' \in Token \cup {End, NoToken}
        /\ \A e \in cif'.empty : e \in cif.empty \/ (e[1] = Top.path /\ {} # {})
    BY <1>1, <2>1, <2>2, EnterBodyFrame
  <2> HIDE DEF f
  <2>4. /\ Depth \in Nat /\ Depth > 2 /\ Len(levels) = Depth /\ Exact(levels, skip_depth)
        /\ skip_depth \in 0..Depth /\ skip_depth # 1
        /\ Starting(Top) /\ Begins(levels, Len(levels) - 1)
    <3>1. Top.col = 0
      BY <1>1, InLoop, LoopFields
    <3>. QED
      BY <3>1, <1>1, InLoop DEF Starting
  <2>5. levels[Depth-1].quiet
    BY <1>1, <2>4 DEF Exact
  <2>6. \A k \in 1..Depth : k = Depth \/ k \in 1..Depth-1
    BY <2>4
  <2>7. Begins(levels, Len(levels))
    BY <2>4, <2>5, <2>6 DEF Begins
  <2>8. Exact(levels, skip_depth)' /\ Begins(levels', Len(levels')) /\ Len(levels') = Depth
    BY <2>1, <2>4, <2>7 DEF Exact
  <2>9. /\ Len(levels') = IF f.col > 0 THEN Depth + 1 ELSE Depth
        /\ PacketsAreCurrent'
        /\ \A i \in 1..Depth-2 : levels'[i] = levels[i]
        /\ \A e \in cif'.empty : e \in cif.empty \/ (e[1] = Top.path /\ ~ levels[Depth-2].quiet)
    BY <1>1, <2>1, <2>3, <2>8, NoPacketStored
  <2>. QED
    BY <1>1, <2>3, <2>8, <2>9, SwapLoop
<1>. QED
  BY <1>2, <1>3

\* The loop that is made is empty until a packet of it is stored, and the
\* container it is in is not passed over.
LEMMA LoopStartStep ==
    ASSUME ParseInv, LoopStart
    PROVE  ParseInv'
<1> DEFINE columns == Top.columns
<1>1. /\ Depth > 0 /\ Top.fn = "loop" /\ Top.pc = "start" /\ skip_depth = 0
  BY DEF LoopStart
<1>2. PICK a \in Answers :
        LET make == a = "CONTINUE" /\ Top.path # NoPath
        IN /\ Asks(<<"loop", "start">>, a)
           /\ \/ a = "END" /\ Abort(a)
              \/ Abort("CIF_INTERNAL_ERROR")
              \/ Abort("CIF_INVALID_ITEMNAME")
              \/ /\ a # "END"
                 /\ EnterBody(IF make THEN NamesOf(columns) ELSE {})
                 /\ skip_depth' = SkipAfter(a)
                 /\ levels' = Begun(levels, a)
  BY DEF LoopStart
<1>3. cif \in Stored /\ event'.packet = <<>>
  BY <1>1, <1>2, InLoop, EventPackets DEF Asks
<1>4. CASE a = "END" /\ Abort(a)
  BY <1>2, <1>4, HandlerStops
<1>5. CASE Abort("CIF_INTERNAL_ERROR") \/ Abort("CIF_INVALID_ITEMNAME")
  BY <1>3, <1>5, AbortStep DEF Abort
<1>6. CASE ~ (\/ a = "END" /\ Abort(a)
              \/ Abort("CIF_INTERNAL_ERROR") \/ Abort("CIF_INVALID_ITEMNAME"))
  <2> DEFINE make == a = "CONTINUE" /\ Top.path # NoPath
             names == IF make THEN NamesOf(columns) ELSE {}
             f == [Top EXCEPT !.pc = "body", !.names = names]
  <2>1. EnterBody(names) /\ skip_depth' = SkipAfter(a) /\ levels' = Begun(levels, a)
    BY <1>2, <1>6
  <2>2. names \in SUBSET NamesOf(Top.columns)
    OBVIOUS
  <2> HIDE DEF names
  <2>3. /\ stack' = [stack EXCEPT ![Depth] = f]
        /\ f \in LoopFrame /\ f.path = Top.path /\ f.col = 0 /\ ~ Starting(f)
        /\ CellsCurrentIn(f, token')
        /\ cif' \in Stored /\ token' = token /\ result' = result
        /\ token' \in Token \cup {End, NoToken}
        /\ \A e \in cif'.empty : e \in cif.empty \/ (e[1] = Top.path /\ names # {})
    BY <1>1, <2>1, <2>2, EnterBodyFrame
  <2> HIDE DEF f
  <2>4. /\ Depth \in Nat /\ Depth > 2 /\ Len(levels) = Depth /\ Exact(levels, 0)
        /\ Begins(levels, Len(levels) - 1)
    <3>1. Top.col = 0
      BY <1>1, InLoop, LoopFields
    <3>. QED
      BY <3>1, <1>1, InLoop DEF Starting
  <2>5. /\ Exact(Begun(levels, a), SkipAfter(a)) /\ Len(Begun(levels, a)) = Depth
        /\ \A k \in 1..Depth-2 : Begun(levels, a)[k] = levels[k]
        /\ Begins(Begun(levels, a), Depth)
    BY <2>4, BegunExact, BeginsBegun
  <2>6. Exact(levels, skip_depth)' /\ Begins(levels', Len(levels')) /\ Len(levels') = Depth
    BY <2>1, <2>5 DEF Exact
  <2>7. ~ levels[Depth-2].quiet
    BY <2>4 DEF Exact
  <2>8. \A i \in 1..Depth-2 : levels'[i] = levels[i]
    BY <2>1, <2>5
  <2>9. \A e \in cif'.empty : e \in cif.empty \/ (e[1] = Top.path /\ ~ levels[Depth-2].quiet)
    BY <2>3, <2>7
  <2>10. PacketsAreCurrent'
    BY <1>3, NoPacketStored
  <2>11. Len(levels') = IF f.col > 0 THEN Depth + 1 ELSE Depth
    BY <2>3, <2>6
  <2>. QED
    BY <1>1, <2>3, <2>6, <2>8, <2>9, <2>10, <2>11, SwapLoop
<1>. QED
  BY <1>4, <1>5, <1>6

\* A packet is counted, and its first column is the next.
LEMMA PacketStartStep ==
    ASSUME ParseInv, PacketStart
    PROVE  ParseInv'
<1> DEFINE f == [Top EXCEPT !.col = 1]
<1>1. /\ Depth > 0 /\ Top.fn = "loop" /\ Top.pc = "body" /\ Top.col = 0
      /\ Depth \in Nat /\ Depth > 2 /\ Len(levels) = Depth /\ skip_depth \in 0..Depth
      /\ Top \in LoopFrame /\ Exact(levels, skip_depth)
      /\ token \in Token \cup {End, NoToken} /\ cif \in Stored
      /\ CellsCurrentIn(Top, token)
  BY InLoop DEF PacketStart, At
<1>2. /\ Top.columns # <<>> /\ Len(Top.columns) \in Nat /\ Len(Top.columns) > 0
      /\ Top.cells \in [1..Len(Top.columns) -> CellStates]
  BY <1>1, LoopFields
<1>3. Begins(levels, Len(levels))
  BY <1>1, <1>2, InLoop DEF Starting
<1>4. /\ f \in LoopFrame /\ f.path = Top.path /\ f.col = 1 /\ f.pc = "body" /\ f.fn = "loop"
      /\ f.columns = Top.columns /\ f.cells = Top.cells
  <2>1. 1 \in 0..Len(Top.columns)
    BY <1>2
  <2>. QED
    BY <2>1, <1>1, <1>2 DEF LoopFrame
<1>5. ~ Starting(f)
  BY <1>2, <1>4 DEF Starting
<1>6. CellsCurrentIn(f, token)
  <2>1. \A c : CellsUpTo(Top.cells, 0, c) => CellsUpTo(Top.cells, 1, c)
    BY <1>2 DEF CellsUpTo
  <2>. QED
    BY <2>1, <1>1, <1>4 DEF CellsCurrentIn
<1> HIDE DEF f
<1>7. \A i \in 1..Depth-2 : i \in 1..Depth /\ i \in 1..Depth+1-2
  BY <1>1
<1>8. CASE skip_depth > 0
  <2>1. /\ skip_depth' = Deeper /\ levels' = Inner /\ event'.packet = <<>>
        /\ UNCHANGED <<token, cif, result>> /\ stack' = [stack EXCEPT ![Depth] = f]
    BY <1>8, EventPackets DEF PacketStart, Silently, f, Top
  <2>2. /\ Exact(Inner, Deeper) /\ Len(Inner) = Depth + 1
        /\ \A k \in 1..Depth : Inner[k] = levels[k]
        /\ Begins(Inner, Depth + 1)
    BY <1>1, <1>3, <1>8, EnterQuietly, BeginsInner
  <2>3. /\ Exact(levels, skip_depth)' /\ Len(levels') = Depth + 1 /\ Begins(levels', Len(levels'))
        /\ \A i \in 1..Depth-2 : levels'[i] = levels[i]
        /\ CellsCurrentIn(f, token')
    BY <2>1, <2>2, <1>6, <1>7 DEF Exact
  <2>4. /\ Len(levels') = IF f.col > 0 THEN Depth + 1 ELSE Depth
        /\ PacketsAreCurrent' /\ token' \in Token \cup {End, NoToken} /\ cif' \in Stored
        /\ \A e \in cif'.empty : e \in cif.empty \/ (e[1] = Top.path /\ ~ levels[Depth-2].quiet)
    BY <2>1, <2>3, <1>1, <1>4, NoPacketStored
  <2>. QED
    BY <2>1, <2>3, <2>4, <1>1, <1>4, <1>5, SwapLoop
<1>9. CASE skip_depth = 0
  <2>1. PICK a \in Answers :
           /\ Asks(<<"packet", "start">>, a)
           /\ \/ a = "END" /\ Abort(a)
              \/ /\ a # "END"
                 /\ skip_depth' = SkipAfter(a)
                 /\ levels' = Begun(Inner, a)
                 /\ stack' = [stack EXCEPT ![Depth].col = 1]
                 /\ UNCHANGED <<options, token, cif, result>>
    BY <1>9 DEF PacketStart
  <2>2. CASE Abort(a)
    BY <2>1, <2>2, HandlerStops
  <2>3. CASE ~ Abort(a)
    <3>1. /\ skip_depth' = SkipAfter(a) /\ levels' = Begun(Inner, a) /\ event'.packet = <<>>
          /\ UNCHANGED <<token, cif, result>> /\ stack' = [stack EXCEPT ![Depth] = f]
      BY <2>1, <2>3, EventPackets DEF Asks, f, Top
    <3>2. /\ Exact(Inner, 0) /\ Len(Inner) = Depth + 1
          /\ \A k \in 1..Depth : Inner[k] = levels[k]
      BY <1>1, <1>9, EnterAsking
    <3>3. Begins(Inner, Len(Inner) - 1)
      <4>1. \A k \in 1..Depth : k > 1 => k - 1 \in 1..Depth
        BY <1>1
      <4>2. Len(Inner) - 1 = Depth
        BY <1>1, <3>2
      <4>. QED
        BY <4>1, <4>2, <3>2, <1>1, <1>3 DEF Begins
    <3>4. /\ Exact(Begun(Inner, a), SkipAfter(a)) /\ Len(Begun(Inner, a)) = Depth + 1
          /\ \A k \in 1..Depth+1-2 : Begun(Inner, a)[k] = Inner[k]
          /\ Begins(Begun(Inner, a), Depth + 1)
      BY <1>1, <3>2, <3>3, BegunExact, BeginsBegun
    <3>5. /\ Exact(levels, skip_depth)' /\ Len(levels') = Depth + 1 /\ Begins(levels', Len(levels'))
          /\ \A i \in 1..Depth-2 : levels'[i] = levels[i]
          /\ CellsCurrentIn(f, token')
      BY <3>1, <3>2, <3>4, <1>6, <1>7 DEF Exact
    <3>6. /\ Len(levels') = IF f.col > 0 THEN Depth + 1 ELSE Depth
          /\ PacketsAreCurrent' /\ token' \in Token \cup {End, NoToken} /\ cif' \in Stored
          /\ \A e \in cif'.empty : e \in cif.empty \/ (e[1] = Top.path /\ ~ levels[Depth-2].quiet)
      BY <3>1, <3>5, <1>1, <1>4, NoPacketStored
    <3>. QED
      BY <3>1, <3>5, <3>6, <1>1, <1>4, <1>5, SwapLoop
  <2>. QED
    BY <2>2, <2>3
<1>. QED
  BY <1>1, <1>8, <1>9

\* The answer SKIP_SIBLINGS of an item's handler where a packet is passed over
\* would make skip_depth less than it is.
LEMMA PacketItemStep ==
    ASSUME ~ SkippedSkips, ParseInv, PacketItem
    PROVE  ParseInv'
<1> DEFINE c    == Top.col
           cells == [Top.cells EXCEPT ![c] = IF @ = "dropped" THEN @ ELSE "new"]
           col  == IF c = Len(Top.columns) THEN c ELSE c + 1
           pc   == IF c = Len(Top.columns) THEN "packet_end" ELSE "body"
           f    == [Top EXCEPT !.cells = cells, !.col = col, !.pc = pc]
<1>1. /\ Depth > 0 /\ Top.fn = "loop" /\ Top.pc = "body" /\ c > 0
      /\ Depth \in Nat /\ Depth > 2 /\ Len(levels) = Depth + 1 /\ skip_depth \in 0..Depth+1
      /\ Top \in LoopFrame /\ Exact(levels, skip_depth)
      /\ cif \in Stored /\ CellsCurrentIn(Top, token)
  BY InLoop DEF PacketItem, At
<1>2. /\ Top.columns # <<>> /\ Len(Top.columns) \in Nat /\ c \in 1..Len(Top.columns)
      /\ Top.cells \in [1..Len(Top.columns) -> CellStates]
      /\ DOMAIN Top.columns = 1..Len(Top.columns)
  BY <1>1, LoopFields
<1>3. CASE GivesUp
  BY <1>3, GivesUpStep
<1>4. CASE ~ GivesUp
  <2>1. PICK a \in Answers :
          /\ (a = "SKIP_SIBLINGS" /\ skip_depth > 1) => SkippedSkips
          /\ Asks(<<"item">>, a)
          /\ \/ Stops(a) /\ Abort(a)
             \/ /\ ~ Stops(a)
                /\ Consume
                /\ skip_depth' = IF a = "SKIP_SIBLINGS" THEN 1 ELSE skip_depth
                /\ levels' = Ended(levels, a)
                /\ stack' = [stack EXCEPT
                     ![Depth].cells[Top.col] = IF @ = "dropped" THEN @ ELSE "new",
                     ![Depth].col = IF @ = Len(Top.columns) THEN @ ELSE @ + 1,
                     ![Depth].pc  = IF Top.col = Len(Top.columns) THEN "packet_end"
                                                                  ELSE "body"]
                /\ UNCHANGED <<options, cif, result>>
    BY <1>4 DEF PacketItem
  <2>2. CASE Abort(a)
    BY <2>1, <2>2, HandlerStops
  <2>3. CASE ~ Abort(a)
    <3>1. /\ ~ Stops(a) /\ token' = NoToken /\ UNCHANGED <<cif, result>>
          /\ skip_depth' = IF a = "SKIP_SIBLINGS" THEN 1 ELSE skip_depth
          /\ levels' = Ended(levels, a) /\ event'.packet = <<>>
          /\ a = "SKIP_SIBLINGS" => skip_depth \in {0, 1}
      BY <2>1, <2>3, <1>1, EventPackets DEF Asks, Consume
    <3>2. stack' = [stack EXCEPT ![Depth] = f]
      BY <2>1, <2>3 DEF Top
    <3>3. /\ cells \in [1..Len(Top.columns) -> CellStates]
          /\ \A k \in 1..Len(Top.columns) :
                cells[k] = IF k = c /\ Top.cells[k] # "dropped" THEN "new" ELSE Top.cells[k]
      BY <1>2 DEF CellStates
    <3> HIDE DEF cells
    <3>4. cells \in Seq(CellStates) /\ DOMAIN cells = 1..Len(Top.columns)
      BY <3>3, <1>2, CellsSeq
    <3>5. /\ col \in 1..Len(Top.columns) /\ pc \in {"body", "packet_end"}
          /\ pc = "packet_end" <=> c = Len(Top.columns)
          /\ pc = "body" => col = c + 1
      BY <1>2
    <3> HIDE DEF col, pc
    <3>6. /\ f \in LoopFrame /\ f.path = Top.path /\ f.fn = "loop"
          /\ f.col = col /\ f.pc = pc /\ f.columns = Top.columns /\ f.cells = cells
      <4>1. col \in 0..Len(Top.columns) /\ col \in Nat /\ col > 0 /\ pc # "start" /\ pc # "end"
        BY <3>5, <1>2
      <4>. QED
        BY <4>1, <1>1, <1>2, <3>4, <3>5 DEF LoopFrame
    <3> HIDE DEF f
    <3>7. ~ Starting(f)
      BY <1>2, <3>5, <3>6 DEF Starting
    <3>8. Whole(cells) => \E o \in {"unknown", "old"} : CellsUpTo(cells, c + 1, o)
      <4>. SUFFICES ASSUME Whole(cells)
                    PROVE  \E o \in {"unknown", "old"} : CellsUpTo(cells, c + 1, o)
        OBVIOUS
      <4>1. \A k \in 1..Len(Top.columns) : Top.cells[k] # "dropped"
        BY <3>3, <3>4 DEF Whole
      <4>2. Whole(Top.cells)
        BY <4>1, <1>2 DEF Whole
      <4>3. PICK o \in {"unknown", "old"} : CellsUpTo(Top.cells, c, o)
        BY <4>2, <1>1 DEF CellsCurrentIn
      <4>4. \A k \in 1..Len(Top.columns) :
               cells[k] = IF k < c + 1 THEN "new" ELSE o
        BY <4>1, <4>3, <3>3, <1>2 DEF CellsUpTo
      <4>. QED
        BY <4>4, <3>4 DEF CellsUpTo
    <3>9. CellsCurrentIn(f, token')
      <4>1. \A k \in DOMAIN f.columns : f.columns[k] = NoName <=> f.cells[k] = "dropped"
        BY <1>1, <1>2, <3>3, <3>6 DEF CellsCurrentIn
      <4>2. (Whole(f.cells) /\ f.pc \in {"start", "body"})
               => \E o \in {"unknown", "old"} : CellsUpTo(f.cells, f.col, o)
        BY <3>5, <3>6, <3>8
      <4>3. (Whole(f.cells) /\ f.pc = "packet_end")
               => \A k \in DOMAIN f.cells : f.cells[k] = "new"
        BY <1>2, <3>4, <3>5, <3>6, <3>8 DEF CellsUpTo
      <4>. QED
        BY <4>1, <4>2, <4>3 DEF CellsCurrentIn
    <3>10. Exact(levels, skip_depth) /\ Len(levels) > 0 /\ Begins(levels, Len(levels))
      BY <1>1, <1>2, InLoop DEF Starting
    <3>11. /\ Exact(Ended(levels, a), IF a = "SKIP_SIBLINGS" THEN 1 ELSE skip_depth)
           /\ Len(Ended(levels, a)) = Depth + 1
           /\ \A k \in 1..Depth+1-1 : Ended(levels, a)[k] = levels[k]
           /\ Begins(Ended(levels, a), Depth + 1)
      BY <1>1, <3>1, <3>10, EndedExact, BeginsEnded
    <3>12. \A i \in 1..Depth-2 : i \in 1..Depth+1-1
      BY <1>1
    <3>13. /\ Exact(levels, skip_depth)' /\ Len(levels') = Depth + 1
           /\ Begins(levels', Len(levels'))
           /\ \A i \in 1..Depth-2 : levels'[i] = levels[i]
           /\ f.col > 0
      BY <3>1, <3>5, <3>6, <3>11, <3>12 DEF Exact
    <3>14. token' \in Token \cup {End, NoToken} /\ cif' \in Stored
      BY <3>1, <1>1
    <3>. QED
      BY <3>1, <3>2, <3>6, <3>7, <3>9, <3>13, <3>14, <1>1, SwapLoop, NoPacketStored
  <2>. QED
    BY <2>2, <2>3
<1>. QED
  BY <1>3, <1>4

\* Where no column is dropped, the columns without a value are those from the
\* one to be read next, and the recovery sets just these.
LEMMA PartialPacketStep ==
    ASSUME ParseInv, PartialPacket
    PROVE  ParseInv'
<1>1. /\ Depth > 0 /\ Top.fn = "loop" /\ Top.pc = "body" /\ Top.col > 0
      /\ Depth \in Nat /\ Depth > 2 /\ Len(levels) = Depth + 1
      /\ Top \in LoopFrame /\ Exact(levels, skip_depth)
      /\ cif \in Stored /\ token \in Token \cup {End, NoToken}
      /\ CellsCurrentIn(Top, token)
  BY InLoop DEF PartialPacket
<1>2. /\ Top.columns # <<>> /\ Len(Top.columns) \in Nat /\ Top.col \in 1..Len(Top.columns)
      /\ Top.cells \in [1..Len(Top.columns) -> CellStates]
      /\ DOMAIN Top.columns = 1..Len(Top.columns)
  BY <1>1, LoopFields
<1>3. CASE GivesUp
  BY <1>3, GivesUpStep
<1>4. CASE ~ GivesUp
  <2>1. PICK also \in SUBSET {k \in DOMAIN Top.columns : MayReset(k)} :
          stack' = [stack EXCEPT
            ![Depth].pc = "packet_end",
            ![Depth].cells = [k \in DOMAIN @ |->
               IF @[k] # "dropped" /\ (Resets(k) \/ k \in also)
               THEN "unknown" ELSE @[k]]]
    BY <1>4 DEF PartialPacket
  <2>2. /\ event'.packet = <<>> /\ token # NoToken
        /\ UNCHANGED <<token, skip_depth, cif, levels, result>>
    <3>1. token.kind # "none"
      BY <1>4 DEF PartialPacket
    <3>2. token # NoToken
      BY <3>1, TokenTexts DEF ParseInv
    <3>. QED
      BY <3>2, <1>4, EventPackets DEF PartialPacket, Silently
  <2> DEFINE cells == [k \in DOMAIN Top.cells |->
                         IF Top.cells[k] # "dropped" /\ (Resets(k) \/ k \in also)
                         THEN "unknown" ELSE Top.cells[k]]
             f == [Top EXCEPT !.pc = "packet_end", !.cells = cells]
  <2>3. stack' = [stack EXCEPT ![Depth] = f]
    BY <2>1 DEF Top
  <2>4. /\ cells \in [1..Len(Top.columns) -> CellStates]
        /\ \A k \in 1..Len(Top.columns) :
              cells[k] = IF Top.cells[k] # "dropped" /\ (Resets(k) \/ k \in also)
                         THEN "unknown" ELSE Top.cells[k]
    <3>1. DOMAIN Top.cells = 1..Len(Top.columns)
      BY <1>2
    <3>. QED
      BY <3>1, <1>2 DEF CellStates
  <2> HIDE DEF cells
  <2>5. cells \in Seq(CellStates) /\ DOMAIN cells = 1..Len(Top.columns)
    BY <2>4, <1>2, CellsSeq
  <2>6. /\ f \in LoopFrame /\ f.path = Top.path /\ f.fn = "loop" /\ f.col = Top.col
        /\ f.pc = "packet_end" /\ f.columns = Top.columns /\ f.cells = cells
    BY <1>1, <1>2, <2>5 DEF LoopFrame
  <2> HIDE DEF f
  <2>7. ~ Starting(f)
    BY <1>2, <2>6 DEF Starting
  <2>8. Whole(cells) => CellsUpTo(cells, Top.col, "unknown")
    <3>. SUFFICES ASSUME Whole(cells)
                  PROVE  CellsUpTo(cells, Top.col, "unknown")
      OBVIOUS
    <3>1. \A k \in 1..Len(Top.columns) : Top.cells[k] # "dropped"
      BY <2>4, <2>5 DEF Whole
    <3>2. Kept(Top.columns) = 1..Len(Top.columns)
      BY <3>1, <1>1, <1>2 DEF Kept, CellsCurrentIn
    <3>3. Cardinality(Kept(Top.columns)) = Len(Top.columns)
      <4>1. 1 \in Int /\ Len(Top.columns) \in Int /\ Len(Top.columns) >= 1
        BY <1>2
      <4>2. Cardinality(1..Len(Top.columns)) = Len(Top.columns) - 1 + 1
        BY <4>1, FS_Interval
      <4>. QED
        BY <3>2, <4>2, <1>2
    <3>4. Whole(Top.cells)
      BY <3>1, <1>2 DEF Whole
    <3>5. PICK o \in {"unknown", "old"} : CellsUpTo(Top.cells, Top.col, o)
      BY <3>4, <1>1 DEF CellsCurrentIn
    <3>6. ASSUME NEW k \in 1..Len(Top.columns)
          PROVE  cells[k] = IF k < Top.col THEN "new" ELSE "unknown"
      <4>1. CASE k < Top.col
        <5>1. ~ Resets(k) /\ k \notin also
          BY <4>1, <1>2 DEF Resets, MayReset
        <5>. QED
          BY <4>1, <5>1, <2>4, <3>5, <1>2 DEF CellsUpTo
      <4>2. CASE k >= Top.col
        <5>1. Resets(k)
          BY <4>2, <3>3, <1>2 DEF Resets
        <5>2. ~ (k < Top.col)
          BY <4>2, <1>2
        <5>. QED
          BY <5>1, <5>2, <2>4, <3>1
      <4>. QED
        BY <4>1, <4>2, <1>2
    <3>. QED
      BY <3>6, <2>5 DEF CellsUpTo
  <2>9. CellsCurrentIn(f, token')
    <3>1. \A k \in DOMAIN f.columns : f.columns[k] = NoName <=> f.cells[k] = "dropped"
      BY <1>1, <1>2, <2>4, <2>6 DEF CellsCurrentIn
    <3>2. Top.col \in Nat
      BY <1>2
    <3>. QED
      BY <3>1, <3>2, <2>2, <2>6, <2>8 DEF CellsCurrentIn
  <2>10. Exact(levels, skip_depth)' /\ Begins(levels', Len(levels')) /\ Len(levels') = Depth + 1
    BY <1>1, <1>2, <2>2, InLoop DEF Exact, Starting
  <2>11. f.col > 0 /\ token' \in Token \cup {End, NoToken} /\ cif' \in Stored
    BY <1>1, <2>2, <2>6
  <2>. QED
    BY <2>2, <2>3, <2>6, <2>7, <2>9, <2>10, <2>11, <1>1, SwapLoop, NoPacketStored
<1>. QED
  BY <1>3, <1>4

\* What is stored is what the cells of a packet are when it is complete.
LEMMA PacketStored ==
    ASSUME NEW f \in LoopFrame, NEW t, f.pc = "packet_end", CellsCurrentIn(f, t),
           event'.packet = f.cells
    PROVE  PacketsAreCurrent'
<1> DEFINE p == f.cells
<1>1. DOMAIN p = 1..Len(f.columns) /\ Len(f.columns) \in Nat
  BY LoopFields
<1>2. ASSUME \A k \in DOMAIN p : p[k] # "dropped"
      PROVE  /\ \A k \in DOMAIN p : p[k] # "old"
             /\ \A j, k \in DOMAIN p : j < k /\ p[j] = "unknown" => p[k] = "unknown"
  <2>1. Whole(p)
    BY <1>2 DEF Whole
  <2>2. CASE \E n \in Nat : CellsUpTo(p, n, "unknown")
    <3>1. PICK n \in Nat : \A k \in DOMAIN p : p[k] = IF k < n THEN "new" ELSE "unknown"
      BY <2>2 DEF CellsUpTo
    <3> HIDE DEF p
    <3>2. \A k \in DOMAIN p : p[k] # "old"
      BY <3>1
    <3>3. ASSUME NEW j \in DOMAIN p, NEW k \in DOMAIN p, j < k, p[j] = "unknown"
          PROVE  p[k] = "unknown"
      <4>1. ~ (j < n)
        BY <3>1, <3>3
      <4>2. ~ (k < n)
        BY <4>1, <3>3, <1>1
      <4>. QED
        BY <4>2, <3>1
    <3>. QED
      BY <3>2, <3>3
  <2>3. CASE \A k \in DOMAIN p : p[k] = "new"
    BY <2>3
  <2>. QED
    BY <2>1, <2>2, <2>3 DEF CellsCurrentIn
<1>. QED
  BY <1>2 DEF PacketsAreCurrent

\* The cells that were read are those of an earlier packet from now on; if the
\* values of the packet were not all there, the loop ends.
LEMMA PacketEndStep ==
    ASSUME ParseInv, PacketEnd
    PROVE  ParseInv'
<1> DEFINE cells == [k \in DOMAIN Top.cells |->
                       IF Top.cells[k] = "new" THEN "old" ELSE Top.cells[k]]
           pc == IF token = NoToken THEN "body" ELSE "end"
           f == [Top EXCEPT !.pc = pc, !.col = 0, !.any = TRUE, !.cells = cells]
<1>1. /\ Depth > 0 /\ Top.fn = "loop" /\ Top.pc = "packet_end" /\ Top.col > 0
      /\ Depth \in Nat /\ Depth > 2 /\ Len(levels) = Depth + 1 /\ Len(levels) > 0
      /\ skip_depth \in 0..Depth+1
      /\ Top \in LoopFrame /\ Exact(levels, skip_depth)
      /\ cif \in Stored /\ token \in Token \cup {End, NoToken}
      /\ CellsCurrentIn(Top, token)
  BY InLoop, LoopFields DEF PacketEnd
<1>2. /\ Top.columns # <<>> /\ Len(Top.columns) \in Nat /\ Len(Top.columns) > 0
      /\ Top.cells \in [1..Len(Top.columns) -> CellStates]
      /\ DOMAIN Top.columns = 1..Len(Top.columns)
  BY <1>1, LoopFields
<1>3. Begins(levels, Len(levels) - 1)
  BY <1>1, <1>2, InLoop DEF Begins, Starting
<1>4. /\ cells \in [1..Len(Top.columns) -> CellStates]
      /\ \A k \in 1..Len(Top.columns) :
            cells[k] = IF Top.cells[k] = "new" THEN "old" ELSE Top.cells[k]
  <2>1. DOMAIN Top.cells = 1..Len(Top.columns)
    BY <1>2
  <2>. QED
    BY <2>1, <1>2 DEF CellStates
<1>5. AfterPacket => stack' = [stack EXCEPT ![Depth] = f]
  BY DEF AfterPacket, Top
<1> HIDE DEF cells
<1>6. cells \in Seq(CellStates) /\ DOMAIN cells = 1..Len(Top.columns)
  BY <1>4, <1>2, CellsSeq
<1>7. pc \in {"body", "end"} /\ (pc = "body" => token = NoToken)
  OBVIOUS
<1> HIDE DEF pc
<1>8. /\ f \in LoopFrame /\ f.path = Top.path /\ f.fn = "loop" /\ f.col = 0
      /\ f.pc = pc /\ f.columns = Top.columns /\ f.cells = cells
  <2>1. 0 \in 0..Len(Top.columns)
    BY <1>2
  <2>. QED
    BY <2>1, <1>1, <1>2, <1>6, <1>7 DEF LoopFrame
<1> HIDE DEF f
<1>9. ~ Starting(f)
  BY <1>2, <1>7, <1>8 DEF Starting
<1>10. CellsCurrentIn(f, token)
  <2>1. \A k \in DOMAIN f.columns : f.columns[k] = NoName <=> f.cells[k] = "dropped"
    BY <1>1, <1>2, <1>4, <1>8 DEF CellsCurrentIn
  <2>2. ASSUME Whole(f.cells), f.pc \in {"start", "body"}
        PROVE  CellsUpTo(f.cells, f.col, "old")
    <3>1. token = NoToken /\ Whole(cells)
      BY <2>2, <1>7, <1>8
    <3>2. \A k \in 1..Len(Top.columns) : Top.cells[k] # "dropped"
      BY <3>1, <1>4, <1>6 DEF Whole
    <3>3. Whole(Top.cells)
      BY <3>2, <1>2 DEF Whole
    <3>4. \A k \in 1..Len(Top.columns) : Top.cells[k] = "new"
      BY <3>1, <3>3, <1>1, <1>2 DEF CellsCurrentIn
    <3>5. \A k \in 1..Len(Top.columns) : cells[k] = "old" /\ ~ (k < 0)
      BY <3>4, <1>4
    <3>. QED
      BY <3>5, <1>6, <1>8 DEF CellsUpTo
  <2>3. f.pc # "packet_end"
    BY <1>7, <1>8
  <2>. QED
    BY <2>1, <2>2, <2>3 DEF CellsCurrentIn
<1>11. /\ Exact(Outer, Shallower) /\ Len(Outer) = Depth
       /\ \A k \in 1..Depth : Outer[k] = levels[k]
       /\ Begins(Outer, Depth)
  BY <1>1, <1>3, LeaveExact, BeginsOuter
<1>12. \A i \in 1..Depth-2 : i \in 1..Depth-1 /\ i \in 1..Depth
  BY <1>1
<1>13. CASE skip_depth > 0
  <2>1. /\ skip_depth' = Shallower /\ levels' = Outer /\ event'.packet = <<>>
        /\ UNCHANGED <<token, cif, result>> /\ stack' = [stack EXCEPT ![Depth] = f]
    BY <1>5, <1>13, EventPackets DEF PacketEnd, Silently
  <2>2. /\ Exact(levels, skip_depth)' /\ Len(levels') = Depth /\ Begins(levels', Len(levels'))
        /\ \A i \in 1..Depth-2 : levels'[i] = levels[i]
        /\ CellsCurrentIn(f, token') /\ ~ (f.col > 0)
    BY <2>1, <1>8, <1>10, <1>11, <1>12 DEF Exact
  <2>. QED
    BY <2>1, <2>2, <1>1, <1>8, <1>9, SwapLoop, NoPacketStored
<1>14. CASE skip_depth = 0
  <2>1. PICK a \in Answers :
          LET stores == a = "CONTINUE" /\ Top.names # {}
          IN  /\ Turns(a)
              /\ event' = [Event(<<"packet", "end">>) EXCEPT
                             !.packet = IF stores THEN Top.cells ELSE @]
              /\ \/ Stops(a) /\ Abort(a)
                 \/ /\ ~ Stops(a)
                    /\ cif' = IF stores THEN [cif EXCEPT !.empty = @ \ Items(Top.names)]
                                        ELSE cif
                    /\ skip_depth' = SkipRest(a)
                    /\ levels' = Ended(Outer, a)
                    /\ AfterPacket
                    /\ UNCHANGED <<options, token, result>>
    BY <1>14 DEF PacketEnd
  <2> DEFINE stores == a = "CONTINUE" /\ Top.names # {}
  <2>2. event'.packet = IF stores THEN Top.cells ELSE <<>>
    BY <2>1 DEF Event
  <2>3. CASE Stops(a) /\ Abort(a)
    <3>1. event'.packet = <<>> /\ a # "none"
      BY <2>2, <2>3 DEF Stops
    <3>2. AbortAfter(a, cif)
      BY <2>3 DEF Abort
    <3>. QED
      BY <3>1, <3>2, <1>1, AbortStep
  <2>4. CASE ~ (Stops(a) /\ Abort(a))
    <3>1. /\ ~ Stops(a) /\ skip_depth' = SkipRest(a) /\ levels' = Ended(Outer, a)
          /\ cif' = IF stores THEN [cif EXCEPT !.empty = @ \ Items(Top.names)] ELSE cif
          /\ UNCHANGED <<token, result>> /\ stack' = [stack EXCEPT ![Depth] = f]
      BY <2>1, <2>4, <1>5
    <3>2. cif' \in Stored /\ cif'.empty \subseteq cif.empty
      BY <3>1, <1>1 DEF Stored
    <3>3. Exact(Outer, 0) /\ Len(Outer) > 0
      BY <1>1, <1>11, <1>14 DEF Shallower
    <3>4. SkipRest(a) = IF a = "SKIP_SIBLINGS" THEN 1 ELSE 0
      BY DEF SkipRest
    <3>5. /\ Exact(Ended(Outer, a), SkipRest(a)) /\ Len(Ended(Outer, a)) = Depth
          /\ \A k \in 1..Depth-1 : Ended(Outer, a)[k] = Outer[k]
      BY <3>1, <3>3, <3>4, <1>11, EndedExact
    <3>6. Begins(Ended(Outer, a), Depth)
      BY <3>1, <3>3, <1>11, BeginsEnded
    <3>7. PacketsAreCurrent'
      <4>1. CASE stores
        BY <4>1, <2>2, <1>1, PacketStored
      <4>2. CASE ~ stores
        BY <4>2, <2>2, NoPacketStored
      <4>. QED
        BY <4>1, <4>2
    <3>8. /\ Exact(levels, skip_depth)' /\ Len(levels') = Depth /\ Begins(levels', Len(levels'))
          /\ \A i \in 1..Depth-2 : levels'[i] = levels[i]
          /\ CellsCurrentIn(f, token') /\ ~ (f.col > 0)
      BY <3>1, <3>5, <3>6, <1>8, <1>10, <1>11, <1>12 DEF Exact
    <3>9. \A e \in cif'.empty : e \in cif.empty
      BY <3>2
    <3>. QED
      BY <3>1, <3>2, <3>7, <3>8, <3>9, <1>1, <1>8, <1>9, SwapLoop
  <2>. QED
    BY <2>3, <2>4
<1>. QED
  BY <1>1, <1>13, <1>14

-----------------------------------------------------------------------------
(* The invariant. *)

\* Before the parse begins nothing is under way.
LEMMA ParseInit == Init => ParseInv
<1> SUFFICES ASSUME Init
             PROVE  ParseInv
  OBVIOUS
<1> DEFINE f == [fn |-> "cif", pc |-> "start"]
<1>1. f \in CifFrame /\ f.fn = "cif" /\ f.pc = "start"
  BY DEF CifFrame
<1>2. stack = <<f>>
  BY DEF Init
<1> HIDE DEF f
<1>3. /\ stack \in Seq(Frame) /\ stack # <<>> /\ Depth = 1 /\ Top = f /\ stack[1] = f
  BY <1>1, <1>2 DEF Frame, Depth, Top
<1>4. StackShape
  BY <1>1, <1>3 DEF StackShape
<1>5. TypesOK
  BY <1>3 DEF Init, TypesOK, Stored
<1>6. levels \in Seq(LevelRec) /\ Len(levels) = 0 /\ skip_depth = 0
  BY EmptySeq DEF Init
<1>7. LevelsMatch /\ ~ Starting(Top)
  BY <1>1, <1>3, <1>6 DEF LevelsMatch, Own, Starting
<1>8. Exact(levels, skip_depth)
  BY <1>6 DEF Exact
<1>9. SkipPhase /\ Beginning /\ CellsCurrent
  BY <1>1, <1>3, <1>6, <1>7 DEF SkipPhase, Settled, Beginning, Begins, CellsCurrent, Starting
<1>10. EmptyIsOpen
  BY DEF Init, EmptyIsOpen
<1>11. PacketsAreCurrent
  <2>1. DOMAIN event.packet = {}
    BY EventPackets, EmptySeq, LenProperties DEF Init
  <2>. QED
    BY <2>1 DEF PacketsAreCurrent
<1>. QED
  BY <1>4, <1>5, <1>7, <1>8, <1>9, <1>10, <1>11 DEF ParseInv

\* Every step of the parser keeps the invariant.
LEMMA ParseStep ==
    ASSUME ~ SkippedSkips, ParseInv, [Next]_vars
    PROVE  ParseInv'
<1>1. CASE Scan
  BY <1>1, ScanStep
<1>2. CASE ScanFails
  BY <1>2, GivesUpStep DEF ScanFails
<1>3. CASE CifStart
  BY <1>3, CifStartStep
<1>4. CASE BlockHead \/ NoBlockHeader
  BY <1>4, BlockStep
<1>5. CASE CifEnd
  BY <1>5, CifEndStep
<1>6. CASE ContainerStart
  BY <1>6, ContainerStartStep
<1>7. CASE ContainerBodyEnds
  BY <1>7, ContainerBodyEndsStep
<1>8. CASE StrayToken
  BY <1>8, StrayTokenStep
<1>9. CASE FrameEndsFrame
  BY <1>9, FrameEndsFrameStep
<1>10. CASE FrameHead
  BY <1>10, FrameHeadStep
<1>11. CASE ContainerEnd
  BY <1>11, ContainerEndStep
<1>12. CASE ItemName
  BY <1>12, ItemNameStep
<1>13. CASE StrayValue
  BY <1>13, StrayValueStep
<1>14. CASE ItemValue
  BY <1>14, ItemValueStep
<1>15. CASE HandleItem
  BY <1>15, HandleItemStep
<1>16. CASE LoopKeyword
  BY <1>16, LoopKeywordStep
<1>17. CASE HeaderName
  BY <1>17, HeaderNameStep
<1>18. CASE HeaderEnds
  BY <1>18, HeaderEndsStep
<1>19. CASE SkippedLoopStart
  BY <1>19, SkippedLoopStartStep
<1>20. CASE LoopStart
  BY <1>20, LoopStartStep
<1>21. CASE PacketStart
  BY <1>21, PacketStartStep
<1>22. CASE PacketItem
  BY <1>22, PacketItemStep
<1>23. CASE PartialPacket
  BY <1>23, PartialPacketStep
<1>24. CASE PacketEnd
  BY <1>24, PacketEndStep
<1>25. CASE PacketsEnd
  BY <1>25, PacketsEndStep
<1>26. CASE LoopEnd
  BY <1>26, LoopEndStep
<1>27. CASE UNCHANGED vars
  BY <1>27 DEF vars, ParseInv, TypesOK, StackShape, LevelsMatch, Exact, SkipPhase,
               Beginning, EmptyIsOpen, CellsCurrent, PacketsAreCurrent, Depth, Top
<1>. QED
  BY <1>1, <1>2, <1>3, <1>4, <1>5, <1>6, <1>7, <1>8, <1>9, <1>10, <1>11, <1>12, <1>13, <1>14,
     <1>15, <1>16, <1>17, <1>18, <1>19, <1>20, <1>21, <1>22, <1>23, <1>24, <1>25, <1>26, <1>27
     DEF Next, Returned

\* The parser's skip_depth, its levels, its stack and what it has stored belong
\* together in every state, whatever the constants: the handlers of items do not
\* answer SKIP_SIBLINGS in loops that are skipped.
THEOREM ParseInvariant ==
    ASSUME ~ SkippedSkips
    PROVE  Spec => []ParseInv
<1>1. ParseInv /\ [Next]_vars => ParseInv'
  BY ParseStep
<1>. QED
  BY <1>1, ParseInit, PTL DEF Spec

\* skip_depth, which parser.c counts up and down as elements are entered, left,
\* recovered from and skipped, says how many of those under way are passed over.
THEOREM SkipDepthIsExact ==
    ASSUME ~ SkippedSkips
    PROVE  Spec => []SkipDepthExact
<1>1. ParseInv => SkipDepthExact
  <2>1. ASSUME ParseInv
        PROVE  SkipDepthExact
    <3>1. levels \in Seq(LevelRec) /\ \A k \in 1..Len(levels) : levels[k].quiet <=> k > Len(levels) - skip_depth
      BY <2>1 DEF ParseInv, Exact
    <3>2. DOMAIN levels = 1..Len(levels)
      BY <3>1, LenProperties
    <3>. QED
      BY <3>1, <3>2 DEF SkipDepthExact
  <2>. QED
    BY <2>1
<1>. QED
  BY <1>1, ParseInvariant, PTL

\* A packet that parse_loop_packets stores has values of its own only, and none
\* after a missing one, as no column of its header was dropped.
THEOREM PacketsStayCurrent ==
    ASSUME ~ SkippedSkips
    PROVE  Spec => []PacketsAreCurrent
<1>1. ParseInv => PacketsAreCurrent
  BY DEF ParseInv
<1>. QED
  BY <1>1, ParseInvariant, PTL

\* A loop without a packet is in a container still being parsed: when
\* parse_container is through it has pruned them all.
THEOREM EmptyLoopsArePruned ==
    ASSUME ~ SkippedSkips
    PROVE  Spec => []EmptyLoopsPruned
<1>1. ASSUME ParseInv, result = "none", NEW e \in cif.empty
      PROVE  \E k \in DOMAIN stack : stack[k].fn = "container" /\ stack[k].path = e[1]
  <2>1. stack # <<>> /\ stack \in Seq(Frame)
    BY <1>1 DEF ParseInv, TypesOK, StackShape
  <2>2. PICK i \in 2..Depth : stack[i].fn = "container" /\ stack[i].path = e[1]
    BY <1>1, <2>1 DEF ParseInv, EmptyIsOpen
  <2>3. i \in DOMAIN stack
    BY <2>1, <2>2, LenProperties DEF Depth
  <2>. QED
    BY <2>2, <2>3
<1>2. ParseInv => EmptyLoopsPruned
  BY <1>1 DEF EmptyLoopsPruned
<1>. QED
  BY <1>2, ParseInvariant, PTL

-----------------------------------------------------------------------------
(* The steps that end an element, and those that store something. *)

\* The handlers called by a step
LEMMA CallOf ==
    ASSUME NEW h
    PROVE  Event(h).call = h
BY DEF Event

\* An element that is left, if what is in it is not passed over, was begun.
LEMMA InnermostBegun ==
    ASSUME ParseInv, stack # <<>>, Len(levels) > 0, ~ Starting(Top), Shallower = 0
    PROVE  Innermost.begun
<1>1. /\ Len(levels) \in Nat /\ skip_depth \in 0..Len(levels)
      /\ \A k \in 1..Len(levels) : levels[k].quiet <=> k > Len(levels) - skip_depth
      /\ Begins(levels, Len(levels))
  BY LenProperties DEF ParseInv, Exact, Beginning
<1>2. skip_depth \in {0, 1}
  BY <1>1 DEF Shallower
<1>3. Len(levels) > 1 => ~ levels[Len(levels) - 1].quiet
  BY <1>1, <1>2
<1>. QED
  BY <1>1, <1>3 DEF Begins, Innermost

\* What is left of the handlers' calls: those that end an element
IsEnd(call) == Len(call) = 2 /\ call[2] = "end"

\* The other steps call no end handler.
LEMMA OtherCalls ==
    /\ ~ IsEnd(NoEvent.call) /\ ~ IsEnd(Refusal.call)
    /\ \A x : ~ IsEnd(Event(<<x>>).call)
    /\ \A x : ~ IsEnd(Event(<<x, "start">>).call)
BY DEF NoEvent, Refusal, Event, IsEnd

\* The end handler of an element that is passed over is not called, as skip_depth
\* is exact; in what is not, every element was begun.
LEMMA EndsStep ==
    ASSUME ParseInv, Next, stack # <<>>, IsEnd(event'.call)
    PROVE  Innermost.begun \/ (Top.fn = "loop" /\ Top.columns = <<>>)
<1>0. Depth > 0
  BY EmptySeq, LenProperties DEF ParseInv, StackShape, Depth
<1>1. CASE CifEnd
  <2>1. Depth = 1 /\ Top \in CifFrame /\ Top.fn = "cif" /\ Len(levels) = 1 /\ ~ Starting(Top)
        /\ skip_depth \in 0..1
    BY <1>0, <1>1, UnderWay DEF CifEnd, At, Own, Starting
  <2>2. Shallower = 0
    BY <2>1 DEF Shallower
  <2>. QED
    BY <2>1, <2>2, InnermostBegun
<1>2. CASE ContainerEnd
  <2>1. Shallower = 0
    BY <1>2, OtherCalls DEF ContainerEnd, Silently
  <2>2. Top.fn = "container" /\ ~ Starting(Top) /\ Len(levels) > 0
    BY <1>0, <1>2, UnderWay DEF ContainerEnd, Own, Starting
  <2>. QED
    BY <2>1, <2>2, InnermostBegun
<1>3. CASE PacketEnd
  <2>1. skip_depth = 0
    BY <1>3, OtherCalls DEF PacketEnd, Silently
  <2>2. Top.fn = "loop" /\ ~ Starting(Top) /\ Len(levels) > 0
    BY <1>0, <1>3, InLoop, LoopFields DEF PacketEnd, Starting
  <2>. QED
    BY <2>1, <2>2, InnermostBegun DEF Shallower
<1>4. CASE LoopEnd /\ Top.columns # <<>>
  <2>1. skip_depth = 0
    BY <1>4, OtherCalls DEF LoopEnd, Silently
  <2>2. Top.fn = "loop" /\ ~ Starting(Top) /\ Len(levels) > 0
    BY <1>0, <1>4, InLoop, LoopFields DEF LoopEnd, Starting
  <2>. QED
    BY <2>1, <2>2, InnermostBegun DEF Shallower
<1>5. CASE LoopEnd /\ Top.columns = <<>>
  BY <1>5 DEF LoopEnd
<1>6. CASE GivesUp
  BY <1>6, OtherCalls DEF GivesUp
<1>7. CASE CifStart \/ ContainerStart \/ LoopStart \/ PacketStart
  BY <1>7, OtherCalls DEF CifStart, ContainerStart, LoopStart, PacketStart, Asks, Silently
<1>8. CASE PacketItem \/ HandleItem
  BY <1>6, <1>8, OtherCalls DEF PacketItem, HandleItem, Asks
<1>9. CASE Scan \/ ScanFails \/ BlockHead \/ NoBlockHeader
  BY <1>6, <1>9, OtherCalls DEF Scan, ScanFails, BlockHead, NoBlockHeader, EnterContainer, Silently
<1>10. CASE ContainerBodyEnds \/ StrayToken \/ FrameEndsFrame \/ FrameHead
  BY <1>6, <1>10, OtherCalls DEF ContainerBodyEnds, StrayToken, FrameEndsFrame, FrameHead, Silently
<1>11. CASE ItemName \/ StrayValue \/ ItemValue \/ LoopKeyword \/ HeaderName \/ HeaderEnds
  BY <1>6, <1>11, OtherCalls DEF ItemName, StrayValue, EnterItem, ItemValue, LoopKeyword,
     HeaderName, HeaderEnds, Silently
<1>12. CASE SkippedLoopStart \/ PartialPacket \/ PacketsEnd
  BY <1>6, <1>12, OtherCalls DEF SkippedLoopStart, PartialPacket, PacketsEnd, Silently
<1>. QED
  BY <1>1, <1>2, <1>3, <1>4, <1>5, <1>7, <1>8, <1>9, <1>10, <1>11, <1>12 DEF Next, Returned

\* No end handler of parser.c is called for an element whose start handler was
\* not, but that of a loop without names.
THEOREM EndsFollowStarts ==
    ASSUME ~ SkippedSkips
    PROVE  Spec => EndsWereStarted
<1> DEFINE ended == (stack # <<>> /\ Len(event'.call) = 2 /\ event'.call[2] = "end")
                      => \/ Innermost.begun
                         \/ Top.fn = "loop" /\ Top.columns = <<>>
<1>1. ParseInv /\ [Next]_vars => [ended]_vars
  BY EndsStep DEF IsEnd
<1>2. Spec => [][ended]_vars
  <2>1. Spec => []ParseInv /\ [][Next]_vars
    BY ParseInvariant, PTL DEF Spec
  <2> HIDE DEF ended
  <2>. QED
    BY <1>1, <2>1, PTL
<1>. QED
  BY <1>2 DEF EndsWereStarted

\* Something is stored.
Grows == cif'.items \ cif.items # {} \/ cif'.containers # cif.containers

\* Nothing is stored unless skip_depth is 0, or the start handler of the loop
\* that is made says to go on.
LEMMA StoresStep ==
    ASSUME ParseInv, Next, Grows
    PROVE  \A k \in DOMAIN levels : ~ levels'[k].quiet
<1>0. /\ levels \in Seq(LevelRec) /\ DOMAIN levels = 1..Len(levels) /\ Len(levels) \in Nat
      /\ skip_depth = 0 => \A k \in DOMAIN levels : ~ levels[k].quiet
  <2>1. levels \in Seq(LevelRec) /\ DOMAIN levels = 1..Len(levels) /\ Len(levels) \in Nat
    BY LenProperties DEF ParseInv, Exact
  <2>2. \A k \in 1..Len(levels) : levels[k].quiet <=> k > Len(levels) - skip_depth
    BY DEF ParseInv, Exact
  <2>. QED
    BY <2>1, <2>2
<1>1. cif \in Stored
  BY DEF ParseInv, TypesOK
<1>2. cif' # cif
  BY DEF Grows
<1>3. CASE GivesUp
  BY <1>2, <1>3 DEF GivesUp, Abort, AbortAfter
<1>4. CASE BlockHead \/ NoBlockHeader \/ FrameHead
  BY <1>0, <1>2, <1>3, <1>4 DEF BlockHead, NoBlockHeader, FrameHead, EnterContainer, Limited
<1>5. CASE HandleItem
  <2>1. skip_depth = 0
    BY <1>5 DEF HandleItem, ParseInv, SkipPhase, Settled, StackShape, Depth
  <2>2. levels' = levels
    BY <1>2, <1>5 DEF HandleItem, Abort, AbortAfter
  <2>. QED
    BY <2>1, <2>2, <1>0
<1>6. CASE LoopStart
  <2>1. Depth > 0 /\ Top.fn = "loop" /\ Top.pc = "start" /\ skip_depth = 0
    BY <1>6 DEF LoopStart
  <2>2. PICK a \in Answers :
           LET make == a = "CONTINUE" /\ Top.path # NoPath
           IN  \/ Abort(a) \/ Abort("CIF_INTERNAL_ERROR") \/ Abort("CIF_INVALID_ITEMNAME")
               \/ /\ EnterBody(IF make THEN NamesOf(Top.columns) ELSE {})
                  /\ levels' = Begun(levels, a)
    BY <1>6 DEF LoopStart
  <2>3. levels' = Begun(levels, a) /\ a = "CONTINUE"
    <3>1. ~ Abort(a) /\ ~ Abort("CIF_INTERNAL_ERROR") /\ ~ Abort("CIF_INVALID_ITEMNAME")
      BY <1>2 DEF Abort, AbortAfter
    <3>2. ~ EnterBody({})
      <4>1. ASSUME EnterBody({})
            PROVE  FALSE
        <5>1. Items({}) = {}
          BY DEF Items
        <5>2. cif' = [cif EXCEPT !.items = @ \cup {}, !.empty = @ \cup {}]
          BY <4>1, <5>1 DEF EnterBody
        <5>. QED
          BY <5>2, <1>1 DEF Grows, Stored
      <4>. QED
        BY <4>1
    <3>. QED
      BY <3>1, <3>2, <2>2
  <2>4. Exact(levels, 0) /\ Len(levels) > 1
    BY <2>1, InLoop, LoopFields
  <2>. QED
    BY <2>3, <2>4, <1>0, BegunExact
<1>7. CASE ContainerEnd
  <2>1. cif'.items \subseteq cif.items /\ cif'.containers = cif.containers
    <3>1. cif' = Pruned(cif, Top.path)
      BY <1>2, <1>7 DEF ContainerEnd, AbortAfter
    <3>. QED
      BY <3>1, <1>1 DEF Pruned, Stored
  <2>. QED
    BY <2>1 DEF Grows
<1>8. CASE PacketEnd
  <2>1. cif'.items = cif.items /\ cif'.containers = cif.containers
    <3>1. cif' = [cif EXCEPT !.empty = @ \ Items(Top.names)]
      BY <1>2, <1>8 DEF PacketEnd, Abort, AbortAfter
    <3>. QED
      BY <3>1, <1>1 DEF Stored
  <2>. QED
    BY <2>1 DEF Grows
<1>9. CASE SkippedLoopStart
  <2>1. EnterBody({})
    BY <1>2, <1>9 DEF SkippedLoopStart, Abort, AbortAfter
  <2>2. Items({}) = {}
    BY DEF Items
  <2>3. cif' = [cif EXCEPT !.items = @ \cup {}, !.empty = @ \cup {}]
    BY <2>1, <2>2 DEF EnterBody
  <2>. QED
    BY <2>3, <1>1 DEF Grows, Stored
<1>10. CASE CifStart \/ CifEnd \/ ContainerStart \/ PacketStart \/ PacketItem \/ LoopEnd
  BY <1>2, <1>3, <1>10 DEF CifStart, CifEnd, ContainerStart, PacketStart, PacketItem, LoopEnd,
     Abort, AbortAfter
<1>11. CASE Scan \/ ScanFails \/ ContainerBodyEnds \/ StrayToken \/ FrameEndsFrame
  BY <1>2, <1>3, <1>11 DEF Scan, ScanFails, ContainerBodyEnds, StrayToken, FrameEndsFrame
<1>12. CASE ItemName \/ StrayValue \/ ItemValue \/ LoopKeyword \/ HeaderName \/ HeaderEnds
  BY <1>2, <1>3, <1>12 DEF ItemName, StrayValue, EnterItem, ItemValue, LoopKeyword,
     HeaderName, HeaderEnds
<1>13. CASE PartialPacket \/ PacketsEnd \/ Returned
  BY <1>2, <1>3, <1>13 DEF PartialPacket, PacketsEnd, Returned, vars
<1>. QED
  BY <1>4, <1>5, <1>6, <1>7, <1>8, <1>9, <1>10, <1>11, <1>12, <1>13 DEF Next

\* parser.c stores no container and no item while an element under way is to be
\* passed over.
THEOREM SkippedIsNotStored ==
    ASSUME ~ SkippedSkips
    PROVE  Spec => SkippedNotStored
<1> DEFINE kept == (cif'.items \ cif.items # {} \/ cif'.containers # cif.containers)
                     => \A k \in DOMAIN levels : ~ levels'[k].quiet
<1>1. ParseInv /\ [Next]_vars => [kept]_vars
  BY StoresStep DEF Grows
<1>2. Spec => [][kept]_vars
  <2>1. Spec => []ParseInv /\ [][Next]_vars
    BY ParseInvariant, PTL DEF Spec
  <2> HIDE DEF kept
  <2>. QED
    BY <1>1, <2>1, PTL
<1>. QED
  BY <1>2 DEF SkippedNotStored
=============================================================================
