---------------------------- MODULE CifWalkProofs ----------------------------
(***************************************************************************)
(* The walker, for every CIF and all answers of its handlers.              *)
(*                                                                         *)
(* It closes its packet iterators (WalkInv): those open are of the loops   *)
(* on the stack, and of these there is one at most, as packets and items   *)
(* are all that is within a loop.  It returns what was answered            *)
(* (Answered): an END or an error is on its way out from when a handler    *)
(* says so.  It calls the handlers for what their answers leave            *)
(* (Directed): of each element off the stack it has done what it ever      *)
(* will, and of one on the stack what comes before the child it is at.     *)
(***************************************************************************)
EXTENDS CifWalk, FiniteSetTheorems, SequenceTheorems, TLAPS

Activation == [node : Node, next : Nat]

\* What is in a loop, at any depth
WithinLoop == {"packet", "item"}

\* The stack leads from the root down, and within a loop to no other.
StackNested(s) ==
    /\ s \in Seq(Activation)
    /\ \A i \in 1..Len(s) : s[i].node = Root => i = 1
    /\ Len(s) > 0 => s[1].node = Root
    /\ \A i, j \in 1..Len(s) :
          i < j /\ Kind[s[i].node] = "loop" => Kind[s[j].node] \in WithinLoop

\* The loops with an open iterator are on the stack.
OpenOnStack(o, s) ==
    \A l \in o : /\ Kind[l] = "loop"
                 /\ \E i \in 1..Len(s) : s[i].node = l

\* What is inductive
WalkInv == /\ StackNested(stack)
           /\ OpenOnStack(open, stack)
           /\ result # "none" => stack = <<>>

-----------------------------------------------------------------------------
(* The stack. *)

\* A sequence without its last element
LEMMA FrontOfSeq ==
    ASSUME NEW S, NEW s \in Seq(S), Len(s) \in Nat \ {0}
    PROVE  /\ SubSeq(s, 1, Len(s) - 1) \in Seq(S)
           /\ Len(SubSeq(s, 1, Len(s) - 1)) = Len(s) - 1
           /\ \A i \in 1..(Len(s) - 1) : SubSeq(s, 1, Len(s) - 1)[i] = s[i]
<1> DEFINE n == Len(s) - 1
<1>1. n \in Nat /\ n < Len(s)
  OBVIOUS
<1>2. \A i \in 1..n : s[i] \in S
  BY <1>1, ElementOfSeq
<1> HIDE DEF n
<1>3. /\ SubSeq(s, 1, n) \in Seq(S)
      /\ Len(SubSeq(s, 1, n)) = IF 1 <= n THEN n - 1 + 1 ELSE 0
      /\ \A i \in 1..(n - 1 + 1) : SubSeq(s, 1, n)[i] = s[1 + i - 1]
  BY <1>1, <1>2, SubSeqProperties
<1>4. n - 1 + 1 = n /\ (IF 1 <= n THEN n - 1 + 1 ELSE 0) = n
  BY <1>1
<1>5. \A i \in 1..n : 1 + i - 1 = i
  BY <1>1
<1>6. /\ SubSeq(s, 1, n) \in Seq(S)
      /\ Len(SubSeq(s, 1, n)) = n
      /\ \A i \in 1..n : SubSeq(s, 1, n)[i] = s[i]
  BY <1>3, <1>4, <1>5, Zenon
<1>. QED
  BY <1>6 DEF n

\* The innermost activation and its children
LEMMA TopIsActivation ==
    ASSUME StackNested(stack), stack # <<>>
    PROVE  /\ Len(stack) \in Nat \ {0}
           /\ Top \in Activation
           /\ Here \in Node
           /\ Top.next \in Nat
           /\ Children[Here] \in Seq(Node)
           /\ Last \in Nat
<1>1. stack \in Seq(Activation)
  BY DEF StackNested
<1>2. Len(stack) \in Nat \ {0}
  BY <1>1, EmptySeq
<1>3. Top \in Activation
  BY <1>1, <1>2, ElementOfSeq DEF Top
<1>4. Here \in Node /\ Top.next \in Nat
  BY <1>3 DEF Activation, Here
<1>5. Children[Here] \in Seq(Node)
  BY <1>4, TreeAssumption
<1>6. Last \in Nat
  BY <1>5, LenProperties DEF Last
<1>. QED
  BY <1>2, <1>3, <1>4, <1>5, <1>6

\* The place after the frames is a place.
LEMMA FirstLoopIsNat ==
    ASSUME StackNested(stack), stack # <<>>
    PROVE  FirstLoop \in Nat
<1> DEFINE F == {i \in 1..Last : Kind[Children[Here][i]] = "frame"}
<1>1. IsFiniteSet(1..Last)
  BY TopIsActivation, FS_Interval
<1>2. IsFiniteSet(F)
  BY <1>1, FS_Subset
<1>3. Cardinality(F) \in Nat
  BY <1>2, FS_CardinalityType
<1>. QED
  BY <1>3 DEF FirstLoop

\* Going on in the innermost element
LEMMA AtChildKeeps ==
    ASSUME WalkInv, stack # <<>>, NEW n \in Nat, AtChild(n),
           NEW o, OpenOnStack(o, stack)
    PROVE  StackNested(stack') /\ OpenOnStack(o, stack') /\ stack' # <<>>
<1> DEFINE e == [stack[Len(stack)] EXCEPT !.next = n]
<1>a. stack \in Seq(Activation) /\ Len(stack) \in Nat \ {0} /\ Top \in Activation
  BY TopIsActivation DEF WalkInv, StackNested
<1>b. e \in Activation /\ e.node = stack[Len(stack)].node
  BY <1>a DEF Top, Activation
<1>c. stack' = [stack EXCEPT ![Len(stack)] = e]
  BY DEF AtChild
<1> HIDE DEF e
<1>1. /\ stack' \in Seq(Activation)
      /\ Len(stack') = Len(stack)
      /\ \A i \in 1..Len(stack) : stack'[i].node = stack[i].node
  BY <1>a, <1>b, <1>c, ExceptSeq
<1>2. StackNested(stack')
  BY <1>1 DEF WalkInv, StackNested
<1>3. OpenOnStack(o, stack')
  BY <1>1 DEF OpenOnStack
<1>. QED
  BY <1>1, <1>2, <1>3, TopIsActivation DEF WalkInv

\* Leaving the innermost element takes its iterator along.
LEMMA ReturnKeeps ==
    ASSUME WalkInv, stack # <<>>, NEW code, Return(code)
    PROVE  WalkInv'
<1>1. stack \in Seq(Activation) /\ Len(stack) \in Nat \ {0}
  BY TopIsActivation DEF WalkInv, StackNested
<1>2. /\ stack' \in Seq(Activation)
      /\ Len(stack') = Len(stack) - 1
      /\ \A i \in 1..Len(stack') : stack'[i] = stack[i]
  BY <1>1, FrontOfSeq DEF Return, WalkInv, StackNested
<1>3. StackNested(stack')
  BY <1>1, <1>2 DEF WalkInv, StackNested
<1>4. OpenOnStack(open', stack')
  <2>1. SUFFICES ASSUME NEW l \in open, l # Here
                 PROVE  /\ Kind[l] = "loop"
                        /\ \E i \in 1..Len(stack') : stack'[i].node = l
    BY DEF OpenOnStack, Return
  <2>2. PICK i \in 1..Len(stack) : stack[i].node = l
    BY DEF WalkInv, OpenOnStack
  <2>3. i # Len(stack)
    BY <2>1, <2>2 DEF Here, Top
  <2>. QED
    BY <1>1, <1>2, <2>2, <2>3 DEF WalkInv, OpenOnStack
<1>5. result' # "none" => stack' = <<>>
  <2>1. CASE Here = Root
    BY <1>1, <1>2, <2>1 DEF WalkInv, StackNested, Here, Top
  <2>2. CASE Here # Root
    BY <2>2 DEF WalkInv, Return
  <2>. QED
    BY <2>1, <2>2
<1>. QED
  BY <1>3, <1>4, <1>5 DEF WalkInv

\* Entering a child: within a loop there is no other loop, and nowhere is the
\* root.
LEMMA WalkChildKeeps ==
    ASSUME WalkInv, WalkChild
    PROVE  WalkInv'
<1> DEFINE child == Children[Here][Top.next]
<1>1. /\ stack # <<>>
      /\ Top.next \in 1..Last
      /\ stack' = Append(stack, [node |-> child, next |-> 0])
      /\ UNCHANGED <<open, result>>
  BY DEF WalkChild, Walking
<1>2. /\ child \in Node
      /\ Here \in Node
      /\ Kind[child] \in Parts(Kind[Here])
      /\ Kind[Here] \in Kinds
  BY <1>1, TopIsActivation, TreeAssumption DEF WalkInv, Last
<1>3. /\ child # Root
      /\ Kind[Here] \in WithinLoop \cup {"loop"} => Kind[child] \in WithinLoop
  BY <1>2, TreeAssumption DEF Parts, Kinds, WithinLoop
<1>4. /\ Len(stack) \in Nat \ {0}
      /\ [node |-> child, next |-> 0] \in Activation
  BY <1>1, <1>2, TopIsActivation DEF WalkInv, Activation
<1> HIDE DEF child
<1>5. /\ stack' \in Seq(Activation)
      /\ Len(stack') = Len(stack) + 1
      /\ \A i \in 1..Len(stack) : stack'[i] = stack[i]
      /\ stack'[Len(stack) + 1].node = child
  BY <1>1, <1>4 DEF WalkInv, StackNested
<1>6. ASSUME NEW i \in 1..Len(stack'), NEW j \in 1..Len(stack'),
             i < j, Kind[stack'[i].node] = "loop"
      PROVE  Kind[stack'[j].node] \in WithinLoop
  <2>1. CASE j <= Len(stack)
    BY <1>4, <1>5, <1>6, <2>1 DEF WalkInv, StackNested
  <2>2. CASE j = Len(stack) + 1
    <3>1. Kind[stack[i].node] = "loop" /\ i \in 1..Len(stack)
      BY <1>4, <1>5, <1>6, <2>2
    <3>2. Kind[Here] \in WithinLoop \cup {"loop"}
      BY <1>4, <3>1 DEF WalkInv, StackNested, Here, Top
    <3>. QED
      BY <1>3, <1>5, <2>2, <3>2
  <2>. QED
    BY <1>4, <1>5, <2>1, <2>2
<1>7. StackNested(stack')
  BY <1>3, <1>4, <1>5, <1>6 DEF WalkInv, StackNested
<1>8. OpenOnStack(open', stack')
  BY <1>1, <1>4, <1>5 DEF WalkInv, OpenOnStack
<1>. QED
  BY <1>1, <1>7, <1>8 DEF WalkInv

-----------------------------------------------------------------------------
(* Steps. *)

\* The start handler leads in or out.
LEMMA CallStartKeeps ==
    ASSUME WalkInv, CallStart
    PROVE  WalkInv'
<1>1. PICK a \in Answers :
        IF a = "CONTINUE" /\ Kind[Here] # "item"
        THEN AtChild(1) /\ UNCHANGED <<returned, open, result>>
        ELSE Return(a)
  BY DEF CallStart
<1>2. stack # <<>>
  BY DEF CallStart, Walking
<1>3. CASE AtChild(1) /\ UNCHANGED <<returned, open, result>>
  BY <1>2, <1>3, AtChildKeeps DEF WalkInv
<1>4. CASE Return(a)
  BY <1>2, <1>4, ReturnKeeps
<1>. QED
  BY <1>1, <1>3, <1>4

\* An iterator is opened for the innermost element, a loop.
LEMMA GetPacketsKeeps ==
    ASSUME WalkInv, GetPackets
    PROVE  WalkInv'
<1>1. stack # <<>> /\ Kind[Here] = "loop"
  BY DEF GetPackets, Walking, NeedsPackets
<1>2. CASE Last = 0
  BY <1>1, <1>2, ReturnKeeps DEF GetPackets
<1>3. CASE Last # 0
  <2>1. open' = open \cup {Here} /\ UNCHANGED <<stack, result>>
    BY <1>3 DEF GetPackets
  <2>2. OpenOnStack(open', stack)
    BY <1>1, <2>1, TopIsActivation DEF WalkInv, OpenOnStack, Here, Top
  <2>. QED
    BY <2>1, <2>2 DEF WalkInv
<1>. QED
  BY <1>2, <1>3

\* A child's code leads on or out.
LEMMA ChildReturnedKeeps ==
    ASSUME WalkInv, ChildReturned
    PROVE  WalkInv'
<1>1. stack # <<>>
  BY DEF ChildReturned
<1>2. CASE \E n \in Nat : AtChild(n) /\ UNCHANGED <<open, result>>
  BY <1>1, <1>2, AtChildKeeps DEF WalkInv
<1>3. CASE \E code : Return(code)
  BY <1>1, <1>3, ReturnKeeps
<1>4. Top.next + 1 \in Nat /\ FirstLoop \in Nat
  BY <1>1, TopIsActivation, FirstLoopIsNat DEF WalkInv
<1>. QED
  BY <1>2, <1>3, <1>4 DEF ChildReturned

\* The end handler leads out.
LEMMA CallEndKeeps ==
    ASSUME WalkInv, CallEnd
    PROVE  WalkInv'
BY ReturnKeeps DEF CallEnd, Walking

\* A failure of the library leads out.
LEMMA LibraryFailsKeeps ==
    ASSUME WalkInv, LibraryFails
    PROVE  WalkInv'
BY ReturnKeeps DEF LibraryFails, Walking

-----------------------------------------------------------------------------

\* Of the loops on the stack there is one at most.
LEMMA OneLoopOpen ==
    ASSUME WalkInv
    PROVE  Cardinality(open) <= 1
<1>1. ASSUME NEW l \in open, NEW m \in open
      PROVE  l = m
  <2>1. PICK i \in 1..Len(stack) : stack[i].node = l
    BY DEF WalkInv, OpenOnStack
  <2>2. PICK j \in 1..Len(stack) : stack[j].node = m
    BY DEF WalkInv, OpenOnStack
  <2>3. Kind[l] = "loop" /\ Kind[m] = "loop"
    BY DEF WalkInv, OpenOnStack
  <2>4. ~ (i < j) /\ ~ (j < i)
    BY <2>1, <2>2, <2>3 DEF WalkInv, StackNested, WithinLoop
  <2>. QED
    BY <2>1, <2>2, <2>4
<1>2. CASE open = {}
  BY <1>2, FS_EmptySet
<1>3. CASE open # {}
  <2>1. PICK l \in open : TRUE
    BY <1>3
  <2>2. open = {l}
    BY <1>1, <2>1
  <2>. QED
    BY <2>2, FS_Singleton
<1>. QED
  BY <1>2, <1>3

\* The root is on the stack first.
LEMMA WalkInit == Init => WalkInv
BY TreeAssumption DEF Init, WalkInv, StackNested, OpenOnStack, Activation

\* Every step of the walk keeps what is inductive.
LEMMA WalkStep ==
    ASSUME WalkInv, [Next]_vars
    PROVE  WalkInv'
<1>1. CASE UNCHANGED vars
  BY <1>1 DEF WalkInv, vars
<1>. QED
  BY <1>1, CallStartKeeps, GetPacketsKeeps, WalkChildKeeps,
     ChildReturnedKeeps, CallEndKeeps, LibraryFailsKeeps DEF Next

\* Whatever the handlers answer and wherever the library fails, cif_walk
\* returns with no packet iterator open, and before that has one at most:
\* walk_loop closes the iterator on all its paths.
THEOREM WalkClosesIterators == Spec => []IteratorsClosed
<1>1. WalkInv /\ [Next]_vars => WalkInv'
  BY WalkStep
<1>2. WalkInv => IteratorsClosed
  <2>1. SUFFICES ASSUME WalkInv PROVE IteratorsClosed
    OBVIOUS
  <2>2. \A l \in open : \E i \in DOMAIN stack : stack[i].node = l
    BY <2>1, LenProperties DEF WalkInv, OpenOnStack, StackNested
  <2>3. result # "none" => open = {}
    BY <2>1, EmptySeq DEF WalkInv, OpenOnStack
  <2>4. Cardinality(open) <= 1
    BY <2>1, OneLoopOpen
  <2>. QED
    BY <2>2, <2>3, <2>4 DEF IteratorsClosed
<1>. QED
  BY WalkInit, <1>1, <1>2, PTL DEF Spec

-----------------------------------------------------------------------------
(* What is answered, and what is returned. *)

\* Where the walk is cut short by a handler, its answer is on the way out.
Answered ==
    /\ returned \in Answers \cup {"none", "CIF_EMPTY_LOOP", Fault}
    /\ result = "none" => \A a \in {"END", "error"} : Said(a) <=> returned = a
    /\ result # "none" => returned = "none" /\ ResultAsAnswered

\* While a function is active cif_walk has not returned.
LEMMA NotReturned ==
    ASSUME WalkInv, stack # <<>>
    PROVE  result = "none"
BY DEF WalkInv

\* A handler's answer is the first to be an error or an END.
LEMMA HearsFirst ==
    ASSUME WalkInv, Answered, Walking, NEW h, NEW a, Hears(h, a), NEW b \in {"END", "error"}
    PROVE  Said(b)' <=> a = b
<1>1. ~ Said(b)
  BY NotReturned DEF Walking, Answered
<1>2. /\ DOMAIN said' = DOMAIN said \cup {<<h, Here>>}
      /\ said'[<<h, Here>>] = a
      /\ \A c \in DOMAIN said \ {<<h, Here>>} : said'[c] = said[c]
  BY DEF Hears
<1>. QED
  BY <1>1, <1>2 DEF Said

\* A function returns the answer it has just heard, or one that says to go on
\* (Said and returned agree), or what is not an answer.
LEMMA ReturnAnswers ==
    ASSUME WalkInv, Answered, stack # <<>>,
           NEW code \in Answers \cup {"CIF_EMPTY_LOOP", Fault}, Return(code),
           \A b \in {"END", "error"} : Said(b)' <=> code = b
    PROVE  Answered'
<1>1. result = "none" /\ Fault \notin Answers \cup {"none", "CIF_OK", "CIF_EMPTY_LOOP"}
  BY NotReturned, TreeAssumption
<1>2. CASE Here # Root
  <2>1. returned' = code /\ result' = "none"
    BY <1>1, <1>2 DEF Return
  <2>. QED
    BY <2>1 DEF Answered
<1>3. CASE Here = Root
  <2>1. returned' = "none" /\ result' = Translated(code)
    BY <1>3 DEF Return
  <2>2. CASE code \in Directions
    <3>1. result' = "CIF_OK" /\ ~ Said("error")'
      BY <2>1, <2>2 DEF Translated, Directions
    <3>. QED
      BY <2>1, <3>1 DEF Answered, ResultAsAnswered
  <2>3. CASE code = "error"
    <3>1. result' = "error" /\ Said("error")' /\ ~ Said("END")'
      BY <2>1, <2>3 DEF Translated, Directions
    <3>. QED
      BY <2>1, <3>1 DEF Answered, ResultAsAnswered
  <2>4. CASE code \in {"CIF_EMPTY_LOOP", Fault}
    <3>1. code \notin Answers
      BY <2>4, <1>1 DEF Answers, Directions
    <3>2. result' = code /\ ~ Said("error")' /\ ~ Said("END")' /\ code # "error"
      BY <2>1, <3>1 DEF Translated, Answers, Directions
    <3>. QED
      BY <2>1, <2>4, <3>2 DEF Answered, ResultAsAnswered
  <2>. QED
    BY <2>2, <2>3, <2>4 DEF Answers
<1>. QED
  BY <1>2, <1>3

\* A function goes on: what was said is no END and no error.
LEMMA GoingOnAnswers ==
    ASSUME WalkInv, Answered, stack # <<>>, returned \notin {"END", "error"},
           \A b \in {"END", "error"} : Said(b)' <=> Said(b),
           returned' = "none", result' = result
    PROVE  Answered'
BY NotReturned DEF Answered

\* Every step of the walk keeps them.
LEMMA AnsweredStep ==
    ASSUME WalkInv, Answered, [Next]_vars
    PROVE  Answered'
<1>1. CASE CallStart
  <2>1. PICK a \in Answers :
          /\ Hears("start", a)
          /\ IF a = "CONTINUE" /\ Kind[Here] # "item"
             THEN AtChild(1) /\ UNCHANGED <<returned, open, result>>
             ELSE Return(a)
    BY <1>1 DEF CallStart
  <2>2. Walking /\ stack # <<>> /\ returned = "none" /\ result = "none"
    BY <1>1, NotReturned DEF CallStart, Walking
  <2>3. \A b \in {"END", "error"} : (Said(b)' <=> a = b) /\ ~ Said(b)
    BY <2>1, <2>2, HearsFirst DEF Answered
  <2>4. CASE Return(a)
    BY <2>2, <2>3, <2>4, ReturnAnswers
  <2>5. CASE a = "CONTINUE" /\ UNCHANGED <<returned, open, result>>
    BY <2>2, <2>3, <2>5, GoingOnAnswers
  <2>. QED
    BY <2>1, <2>4, <2>5
<1>2. CASE GetPackets
  <2>1. stack # <<>> /\ returned = "none" /\ said' = said /\ result = "none"
    BY <1>2, NotReturned DEF GetPackets, Walking
  <2>2. \A b \in {"END", "error"} : (Said(b)' <=> Said(b)) /\ ~ Said(b)
    BY <2>1 DEF Said, Answered
  <2>3. CASE Return("CIF_EMPTY_LOOP")
    BY <2>1, <2>2, <2>3, ReturnAnswers
  <2>4. CASE UNCHANGED <<returned, result>>
    BY <2>1, <2>2, <2>4, GoingOnAnswers
  <2>. QED
    BY <1>2, <2>3, <2>4 DEF GetPackets
<1>3. CASE WalkChild
  <2>1. stack # <<>> /\ returned = "none" /\ UNCHANGED <<said, returned, result>>
    BY <1>3 DEF WalkChild, Walking
  <2>. QED
    BY <2>1, GoingOnAnswers DEF Said
<1>4. CASE ChildReturned
  <2>1. stack # <<>> /\ returned # "none" /\ said' = said /\ result = "none"
    BY <1>4, NotReturned DEF ChildReturned
  <2>2. \A b \in {"END", "error"} : (Said(b)' <=> Said(b)) /\ (Said(b) <=> returned = b)
    BY <2>1 DEF Said, Answered
  <2>3. CASE returned \in {"CONTINUE", "SKIP_CURRENT", "SKIP_SIBLINGS"}
             /\ returned' = "none" /\ result' = result
    BY <2>1, <2>2, <2>3, GoingOnAnswers
  <2>4. CASE returned = "SKIP_SIBLINGS" /\ Return("CONTINUE")
    <3>1. \A b \in {"END", "error"} : ~ Said(b)' /\ "CONTINUE" # b
      BY <2>2, <2>4
    <3>2. "CONTINUE" \in Answers
      BY DEF Answers, Directions
    <3>. QED
      BY <2>1, <2>4, <3>1, <3>2, ReturnAnswers
  <2>5. CASE Return(returned)
    <3>1. returned \in Answers \cup {"CIF_EMPTY_LOOP", Fault}
      BY <2>1 DEF Answered
    <3>. QED
      BY <2>1, <2>2, <2>5, <3>1, ReturnAnswers
  <2>. QED
    BY <1>4, <2>3, <2>4, <2>5 DEF ChildReturned, GoesOn
<1>5. CASE CallEnd
  <2>1. PICK a \in Answers : Hears("end", a) /\ Return(a)
    BY <1>5 DEF CallEnd
  <2>2. Walking /\ stack # <<>>
    BY <1>5 DEF CallEnd, Walking
  <2>3. \A b \in {"END", "error"} : Said(b)' <=> a = b
    BY <2>1, <2>2, HearsFirst
  <2>. QED
    BY <2>1, <2>2, <2>3, ReturnAnswers
<1>6. CASE LibraryFails
  <2>1. stack # <<>> /\ returned = "none" /\ said' = said /\ result = "none" /\ Return(Fault)
    BY <1>6, NotReturned DEF LibraryFails, Walking
  <2>2. \A b \in {"END", "error"} : ~ Said(b)' /\ Fault # b
    BY <2>1, TreeAssumption DEF Said, Answered, Answers, Directions
  <2>. QED
    BY <2>1, <2>2, ReturnAnswers
<1>7. CASE UNCHANGED vars
  BY <1>7 DEF vars, Answered, Said, ResultAsAnswered
<1>. QED
  BY <1>1, <1>2, <1>3, <1>4, <1>5, <1>6, <1>7 DEF Next

\* The walk begins with nothing said.
LEMMA AnsweredInit == Init => Answered
BY DEF Init, Answered, Said

-----------------------------------------------------------------------------
(* What the handlers are called for. *)

Child(p, i) == Children[p][i]

Size(p) == Len(Children[p])

\* None of the siblings before the i-th child has said to skip the rest.
NoSkipBefore(p, i) ==
    \A j \in 1..Size(p) :
        j < i /\ Siblings(Child(p, j), Child(p, i)) => ~ SaidOf(Child(p, j), "SKIP_SIBLINGS")

\* Of an element that the walk is through with, or has not got to
Done(p) ==
    /\ Ended(p) => Started(p)
    /\ \A i \in 1..Size(p) : Started(Child(p, i)) <=> Entered(p) /\ NoSkipBefore(p, i)
    /\ Kind[p] # "item" =>
          (Ended(p) <=>
              /\ Entered(p)
              /\ \A i \in 1..Size(p) : Kind[Child(p, i)] # "frame"
                                          => ~ SaidOf(Child(p, i), "SKIP_SIBLINGS"))

\* Of an element that the walk is in, at its child x: the children before that
\* have been gone through, those after it have not been got to.
UpTo(p, x) ==
    /\ Entered(p) /\ ~ Ended(p) /\ x \in 1..Size(p)+1 /\ Kind[p] # "item"
    /\ \A i \in 1..Size(p) :
          /\ i < x => /\ Started(Child(p, i)) <=> NoSkipBefore(p, i)
                      /\ Kind[Child(p, i)] # "frame"
                            => ~ SaidOf(Child(p, i), "SKIP_SIBLINGS")
          /\ i > x => ~ Started(Child(p, i))
    /\ x <= Size(p) => NoSkipBefore(p, x)

\* Of an element whose start handler is to be called
Fresh(p) ==
    /\ ~ Started(p) /\ ~ Ended(p)
    /\ \A i \in 1..Size(p) : ~ Started(Child(p, i))

InWalk(p, x) == IF x = 0 THEN Fresh(p) ELSE UpTo(p, x)

OnStack(p) == \E k \in 1..Len(stack) : stack[k].node = p

\* The stack leads from each element to the child it is at, and comes to none
\* twice.
StackLeads ==
    /\ \A k \in 1..Len(stack)-1 :
          /\ stack[k].next \in 1..Size(stack[k].node)
          /\ stack[k+1].node = Child(stack[k].node, stack[k].next)
    /\ \A j, k \in 1..Len(stack) : stack[j].node = stack[k].node => j = k
    /\ returned # "none" /\ stack # <<>> => Top.next \in 1..Size(Here)

\* Nothing has cut the walk short.
Smooth == /\ returned \in {"none", "CONTINUE", "SKIP_CURRENT", "SKIP_SIBLINGS"}
          /\ result \in {"none", "CIF_OK"}
          /\ ~ Said("END") /\ ~ Said("error")

\* The child that the innermost element is at has not been got to, or has just
\* been left.
AtTop ==
    stack # <<>> =>
      IF returned = "none"
      THEN Top.next \in 1..Size(Here) => ~ Started(Child(Here, Top.next))
      ELSE /\ Started(Child(Here, Top.next))
           /\ returned = "SKIP_SIBLINGS" <=> SaidOf(Child(Here, Top.next), "SKIP_SIBLINGS")

Directed ==
    /\ \A p \in Node : ~ OnStack(p) => Done(p)
    /\ \A k \in 1..Len(stack) : InWalk(stack[k].node, stack[k].next)
    /\ AtTop

\* A handler's call, or none, says nothing new of an element.
Same(n) ==
    /\ Started(n)' <=> Started(n)
    /\ Ended(n)' <=> Ended(n)
    /\ Entered(n)' <=> Entered(n)
    /\ SaidOf(n, "SKIP_SIBLINGS")' <=> SaidOf(n, "SKIP_SIBLINGS")

\* A handler is called for one element only.
LEMMA Elsewhere ==
    ASSUME NEW h, NEW a, Hears(h, a), NEW n, n # Here
    PROVE  Same(n)
<1>1. /\ DOMAIN said' = DOMAIN said \cup {<<h, Here>>}
      /\ \A c \in DOMAIN said \ {<<h, Here>>} : said'[c] = said[c]
  BY DEF Hears
<1>2. \A g \in {"start", "end"} :
         /\ <<g, n>> # <<h, Here>>
         /\ <<g, n>> \in DOMAIN said' <=> <<g, n>> \in DOMAIN said
         /\ <<g, n>> \in DOMAIN said => said'[<<g, n>>] = said[<<g, n>>]
  BY <1>1
<1>. QED
  BY <1>2 DEF Same, Started, Ended, Entered, SaidOf

\* What has been said stays if no handler is called.
LEMMA Silence ==
    ASSUME said' = said
    PROVE  \A n \in Node : Same(n)
BY DEF Same, Started, Ended, Entered, SaidOf

\* The children of an element are elements.
LEMMA ChildType ==
    ASSUME NEW p \in Node
    PROVE  /\ Size(p) \in Nat
           /\ \A i \in 1..Size(p) : /\ Child(p, i) \in Node
                                    /\ Kind[Child(p, i)] \in Parts(Kind[p])
           /\ \A q \in Node : \A i \in 1..Size(p), j \in 1..Size(q) :
                 Child(p, i) = Child(q, j) => p = q /\ i = j
           /\ \A i, j \in 1..Size(p) :
                 i < j /\ Kind[Child(p, j)] = "frame" => Kind[Child(p, i)] = "frame"
<1>1. \A q \in Node : Children[q] \in Seq(Node)
  BY TreeAssumption
<1>2. \A q \in Node : Size(q) \in Nat /\ DOMAIN Children[q] = 1..Size(q)
  BY <1>1, LenProperties DEF Size
<1>3. \A i \in 1..Size(p) : Child(p, i) \in Node
  BY <1>1, ElementOfSeq DEF Size, Child
<1>. QED
  BY <1>2, <1>3, TreeAssumption DEF Child

\* What is said elsewhere is of no consequence for an element not under way.
LEMMA DoneSame ==
    ASSUME NEW p \in Node, Same(p), \A i \in 1..Size(p) : Same(Child(p, i)), Done(p)
    PROVE  Done(p)'
<1>1. \A i \in 1..Size(p) : NoSkipBefore(p, i)' <=> NoSkipBefore(p, i)
  BY DEF NoSkipBefore, Same
<1>. QED
  BY <1>1 DEF Done, Same

\* Nor is it for one under way, with the exception of the child that is it.
LEMMA InWalkSame ==
    ASSUME NEW p \in Node, NEW x \in Nat, Same(p),
           \A i \in 1..Size(p) : i # x => Same(Child(p, i)), InWalk(p, x)
    PROVE  InWalk(p, x)'
<1>1. Size(p) \in Nat
  BY ChildType
<1>2. CASE x = 0
  <2>1. \A i \in 1..Size(p) : i # x
    BY <1>1, <1>2
  <2>. QED
    BY <1>2, <2>1 DEF InWalk, Fresh, Same
<1>3. CASE x # 0
  <2>1. \A i \in 1..Size(p) : i <= x => (NoSkipBefore(p, i)' <=> NoSkipBefore(p, i))
    <3>1. \A i, j \in 1..Size(p) : i <= x /\ j < i => j # x
      BY <1>1
    <3>. QED
      BY <3>1 DEF NoSkipBefore, Same
  <2>2. \A i \in 1..Size(p) : (i < x => i # x /\ i <= x) /\ (i > x => i # x)
    BY <1>1
  <2>3. x <= Size(p) => x \in 1..Size(p) /\ x <= x
    BY <1>1, <1>3
  <2>4. UpTo(p, x)
    BY <1>3 DEF InWalk
  <2>5. \A i \in 1..Size(p) :
          /\ i < x => /\ Started(Child(p, i))' <=> NoSkipBefore(p, i)'
                      /\ Kind[Child(p, i)] # "frame"
                            => ~ SaidOf(Child(p, i), "SKIP_SIBLINGS")'
          /\ i > x => ~ Started(Child(p, i))'
    BY <2>1, <2>2, <2>4 DEF UpTo, Same
  <2>6. x <= Size(p) => NoSkipBefore(p, x)'
    BY <2>1, <2>3, <2>4 DEF UpTo
  <2>7. Entered(p)' /\ ~ Ended(p)' /\ x \in 1..Size(p)+1 /\ Kind[p] # "item"
    BY <2>4 DEF UpTo, Same
  <2>8. UpTo(p, x)'
    BY <2>5, <2>6, <2>7 DEF UpTo
  <2>. QED
    BY <2>8, <1>3 DEF InWalk
<1>. QED
  BY <1>2, <1>3

\* An element on the stack is the child that its parent, below it, is at.
LEMMA ParentBelow ==
    ASSUME WalkInv, StackLeads, stack # <<>>, NEW p \in Node, NEW i \in 1..Size(p),
           Child(p, i) = Here
    PROVE  /\ Len(stack) - 1 \in 1..Len(stack)
           /\ p = stack[Len(stack)-1].node /\ i = stack[Len(stack)-1].next
<1>1. /\ Len(stack) \in Nat \ {0} /\ Here = stack[Len(stack)].node
      /\ stack \in Seq(Activation)
  BY TopIsActivation DEF WalkInv, StackNested, Here, Top
<1>2. Here # Root
  <2>1. Kind[Here] # "cif"
    <3>1. \A k \in Kinds : "cif" \notin Parts(k)
      BY DEF Parts, Kinds
    <3>2. Kind[p] \in Kinds
      BY TreeAssumption
    <3>3. Kind[Here] \in Parts(Kind[p])
      BY ChildType
    <3>. QED
      BY <3>1, <3>2, <3>3
  <2>. QED
    BY <2>1, TreeAssumption
<1>3. Len(stack) # 1
  BY <1>1, <1>2 DEF WalkInv, StackNested
<1>4. Len(stack) - 1 \in 1..Len(stack) /\ Len(stack) - 1 \in 1..Len(stack)-1
      /\ Len(stack) - 1 + 1 = Len(stack)
  <2>1. \A n \in Nat \ {0} : n # 1 => n - 1 \in 1..n /\ n - 1 \in 1..n-1 /\ n - 1 + 1 = n
    OBVIOUS
  <2>. QED
    BY <1>1, <1>3, <2>1, Zenon
<1> DEFINE q == stack[Len(stack)-1].node
           y == stack[Len(stack)-1].next
<1>5. q \in Node /\ y \in 1..Size(q) /\ Here = Child(q, y)
  <2>1. stack[Len(stack)-1] \in Activation
    BY <1>1, <1>4, ElementOfSeq
  <2>. QED
    BY <2>1, <1>1, <1>4 DEF StackLeads, Activation
<1> HIDE DEF q, y
<1>6. p = q /\ i = y
  BY <1>5, ChildType
<1>. QED
  BY <1>4, <1>6 DEF q, y

\* What holds of the elements but the innermost, whatever happens to that
Others ==
    /\ \A q \in Node : ~ OnStack(q) => Done(q)'
    /\ \A k \in 1..Len(stack)-1 : \A q \in Node, x \in Nat :
          q = stack[k].node /\ x = stack[k].next => InWalk(q, x)'

\* What is said of the innermost element is of no consequence for the others.
LEMMA OthersKept ==
    ASSUME WalkInv, StackLeads, Directed, stack # <<>>,
           \A n \in Node : n # Here => Same(n)
    PROVE  Others
<1>1. /\ Len(stack) \in Nat \ {0} /\ Here = stack[Len(stack)].node
      /\ stack \in Seq(Activation)
  BY TopIsActivation DEF WalkInv, StackNested, Here, Top
<1>2. ASSUME NEW q \in Node, ~ OnStack(q)
      PROVE  Done(q)'
  <2>1. q # Here
    BY <1>1, <1>2 DEF OnStack
  <2>2. \A i \in 1..Size(q) : Child(q, i) # Here
    BY <1>2, ParentBelow DEF OnStack
  <2>3. \A i \in 1..Size(q) : Same(Child(q, i))
    BY <2>2, ChildType
  <2>. QED
    BY <1>2, <2>1, <2>3, DoneSame DEF Directed
<1>3. ASSUME NEW k \in 1..Len(stack)-1, NEW q \in Node, NEW x \in Nat,
             q = stack[k].node, x = stack[k].next
      PROVE  InWalk(q, x)'
  <2>0. k \in 1..Len(stack) /\ k # Len(stack) /\ Len(stack) \in 1..Len(stack)
    BY <1>1
  <2>1. q # Here
    BY <1>1, <1>3, <2>0 DEF StackLeads
  <2>2. ASSUME NEW i \in 1..Size(q), i # x
        PROVE  Same(Child(q, i))
    <3>1. ASSUME Child(q, i) = Here
          PROVE  FALSE
      <4>1. /\ Len(stack) - 1 \in 1..Len(stack)
            /\ q = stack[Len(stack)-1].node /\ i = stack[Len(stack)-1].next
        BY <3>1, ParentBelow
      <4>2. k = Len(stack) - 1
        BY <1>3, <2>0, <4>1 DEF StackLeads
      <4>. QED
        BY <1>3, <2>2, <4>1, <4>2
    <3>. QED
      BY <3>1, ChildType
  <2>3. InWalk(q, x)
    BY <1>3, <2>0 DEF Directed
  <2>. QED
    BY <2>1, <2>2, <2>3, InWalkSame
<1>. QED
  BY <1>2, <1>3 DEF Others

\* The frames are the children before the place where the loops begin.
LEMMA FramesFirst ==
    ASSUME WalkInv, stack # <<>>
    PROVE  /\ FirstLoop \in 1..Size(Here)+1
           /\ \A i \in 1..Size(Here) : Kind[Child(Here, i)] = "frame" <=> i < FirstLoop
<1> DEFINE n == Size(Here)
           F == {i \in 1..n : Kind[Child(Here, i)] = "frame"}
           m == Cardinality(F)
<1>1. n \in Nat /\ Here \in Node
  BY TopIsActivation, ChildType DEF WalkInv
<1>2. FirstLoop = 1 + m
  BY DEF FirstLoop, Last, Size, Child
<1>3. \A i, j \in 1..n : i < j /\ j \in F => i \in F
  BY <1>1, ChildType
<1>4. F \subseteq 1..n
  OBVIOUS
<1>5. IsFiniteSet(1..n) /\ Cardinality(1..n) = n
  <2>1. 1 \in Int /\ n \in Int
    BY <1>1
  <2>2. IsFiniteSet(1..n) /\ Cardinality(1..n) = IF 1 > n THEN 0 ELSE n - 1 + 1
    BY <2>1, FS_Interval
  <2>. QED
    BY <2>2, <1>1
<1> HIDE DEF F
<1>6. IsFiniteSet(F) /\ m \in Nat /\ m <= n
  BY <1>4, <1>5, FS_Subset, FS_CardinalityType
<1>7. IsFiniteSet(1..m) /\ Cardinality(1..m) = m
  <2>1. 1 \in Int /\ m \in Int
    BY <1>6
  <2>2. IsFiniteSet(1..m) /\ Cardinality(1..m) = IF 1 > m THEN 0 ELSE m - 1 + 1
    BY <2>1, FS_Interval
  <2>. QED
    BY <2>2, <1>6
<1>8. ASSUME NEW k \in F
      PROVE  k <= m
  <2>1. k \in 1..n /\ 1..k \subseteq F
    <3>1. k \in 1..n
      BY <1>4
    <3>2. \A i \in 1..k : i \in 1..n /\ (i < k \/ i = k)
      BY <3>1, <1>1
    <3>. QED
      BY <3>1, <3>2, <1>3
  <2>2. Cardinality(1..k) = k
    <3>1. 1 \in Int /\ k \in Int /\ k >= 1
      BY <2>1
    <3>2. Cardinality(1..k) = IF 1 > k THEN 0 ELSE k - 1 + 1
      BY <3>1, FS_Interval
    <3>. QED
      BY <3>1, <3>2
  <2>3. Cardinality(1..k) <= Cardinality(F)
    BY <2>1, <1>6, FS_Subset
  <2>. QED
    BY <2>2, <2>3
<1>9. F = 1..m
  <2>1. F \subseteq 1..m
    <3>1. \A k \in F : k \in 1..n
      BY <1>4
    <3>. QED
      BY <3>1, <1>1, <1>6, <1>8
  <2>. QED
    BY <2>1, <1>7, FS_Subset
<1> HIDE DEF m
<1>10. \A i \in 1..n : i \in F <=> i < 1 + m
  BY <1>1, <1>6, <1>9
<1>11. 1 + m \in 1..n+1
  BY <1>1, <1>6
<1>. QED
  BY <1>2, <1>10, <1>11 DEF F

\* A function returns: what it walked is through.
LEMMA LeavingLeads ==
    ASSUME WalkInv, StackLeads, stack # <<>>, NEW code, Return(code)
    PROVE  /\ StackLeads'
           /\ Len(stack) \in Nat \ {0} /\ Len(stack') = Len(stack) - 1
           /\ \A i \in 1..Len(stack)-1 : stack'[i] = stack[i]
<1>1. /\ stack \in Seq(Activation) /\ Len(stack) \in Nat \ {0}
  BY TopIsActivation DEF WalkInv, StackNested
<1>2. /\ stack' \in Seq(Activation)
      /\ Len(stack') = Len(stack) - 1
      /\ \A i \in 1..Len(stack)-1 : stack'[i] = stack[i]
  BY <1>1, FrontOfSeq DEF Return
<1>3. \A k \in 1..Len(stack')-1 :
         /\ k \in 1..Len(stack)-1 /\ k + 1 \in 1..Len(stack)-1
  BY <1>1, <1>2
<1>4. \A k \in 1..Len(stack')-1 :
          /\ stack'[k].next \in 1..Size(stack'[k].node)
          /\ stack'[k+1].node = Child(stack'[k].node, stack'[k].next)
  BY <1>2, <1>3 DEF StackLeads
<1>5. \A j, k \in 1..Len(stack') : stack'[j].node = stack'[k].node => j = k
  <2>1. \A k \in 1..Len(stack') : k \in 1..Len(stack)-1 /\ k \in 1..Len(stack)
    BY <1>1, <1>2
  <2>. QED
    BY <2>1, <1>2 DEF StackLeads
<1>6. stack' # <<>> => Top'.next \in 1..Size(Here')
  <2>. SUFFICES ASSUME stack' # <<>>
                PROVE  Top'.next \in 1..Size(Here')
    OBVIOUS
  <2>1. Len(stack') \in 1..Len(stack)-1
    BY <1>1, <1>2, EmptySeq
  <2>2. Top' = stack[Len(stack)-1] /\ Here' = stack[Len(stack)-1].node
    BY <2>1, <1>2 DEF Top, Here
  <2>3. Len(stack) - 1 \in 1..Len(stack)-1
    BY <2>1, <1>2
  <2>. QED
    BY <2>2, <2>3 DEF StackLeads
<1>. QED
  BY <1>1, <1>2, <1>4, <1>5, <1>6 DEF StackLeads

\* A function returns that is through with its element.
LEMMA LeavingDirected ==
    ASSUME WalkInv, StackLeads, stack # <<>>, Others, NEW code, code # "none", Return(code),
           NEW p \in Node, p = Here, Done(p)', Started(p)',
           code = "SKIP_SIBLINGS" <=> SaidOf(p, "SKIP_SIBLINGS")'
    PROVE  Directed'
<1>1. /\ Len(stack) \in Nat \ {0} /\ Len(stack') = Len(stack) - 1
      /\ \A i \in 1..Len(stack)-1 : stack'[i] = stack[i]
      /\ Here = stack[Len(stack)].node
      /\ stack \in Seq(Activation)
  BY LeavingLeads DEF Here, Top, WalkInv, StackNested
<1>2. ASSUME NEW q \in Node, ~ OnStack(q)'
      PROVE  Done(q)'
  <2>1. CASE q = p
    BY <2>1
  <2>2. CASE q # p
    <3>1. \A k \in 1..Len(stack) : k = Len(stack) \/ (k \in 1..Len(stack)-1 /\ k \in 1..Len(stack'))
      BY <1>1
    <3>2. ~ OnStack(q)
      BY <3>1, <1>1, <1>2, <2>2 DEF OnStack
    <3>. QED
      BY <3>2 DEF Others
  <2>. QED
    BY <2>1, <2>2
<1>3. ASSUME NEW k \in 1..Len(stack')
      PROVE  InWalk(stack[k].node, stack[k].next)'
  <2>1. k \in 1..Len(stack)-1 /\ k \in 1..Len(stack)
    BY <1>1
  <2>2. stack[k] \in Activation
    BY <1>1, <2>1, ElementOfSeq
  <2>3. PICK q \in Node, x \in Nat : q = stack[k].node /\ x = stack[k].next
    BY <2>2 DEF Activation
  <2>4. InWalk(q, x)'
    BY <2>1, <2>3 DEF Others
  <2>5. stack'[k] = stack[k]
    BY <1>1, <2>1
  <2>. QED
    BY <2>3, <2>4, <2>5
<1>4. AtTop'
  <2>. SUFFICES ASSUME stack' # <<>>
                PROVE  /\ returned' # "none"
                       /\ Started(Child(Here, Top.next))'
                       /\ (returned = "SKIP_SIBLINGS"
                             <=> SaidOf(Child(Here, Top.next), "SKIP_SIBLINGS"))'
    BY DEF AtTop
  <2>1. /\ Len(stack)-1 \in 1..Len(stack)-1 /\ Len(stack) # 1 /\ Len(stack) - 1 + 1 = Len(stack)
        /\ Len(stack) \in 1..Len(stack)
    <3>1. Len(stack') # 0
      BY ReturnKeeps, EmptySeq DEF WalkInv, StackNested
    <3>2. \A n \in Nat \ {0} : n - 1 # 0 =>
             n - 1 \in 1..n-1 /\ n # 1 /\ n - 1 + 1 = n /\ n \in 1..n
      OBVIOUS
    <3>. QED
      BY <3>1, <3>2, <1>1, Zenon
  <2>2. Here # Root
    BY <1>1, <2>1 DEF WalkInv, StackNested
  <2>3. returned' = code
    BY <2>2 DEF Return
  <2>4. /\ Top' = stack[Len(stack)-1] /\ Here' = stack[Len(stack)-1].node
    BY <1>1, <2>1 DEF Top, Here
  <2>5. Child(Here', Top'.next) = p
    BY <1>1, <2>1, <2>4 DEF StackLeads
  <2>. QED
    BY <2>3, <2>5 DEF Child
<1>. QED
  BY <1>2, <1>3, <1>4 DEF Directed

\* A function goes on, at another child.
LEMMA GoingOnDirected ==
    ASSUME WalkInv, StackLeads, stack # <<>>, Others, NEW y \in Nat, AtChild(y),
           NEW p \in Node, p = Here, InWalk(p, y)', returned' = "none",
           y \in 1..Size(p) => ~ Started(Child(p, y))'
    PROVE  StackLeads' /\ Directed'
<1> DEFINE e == [stack[Len(stack)] EXCEPT !.next = y]
<1>1. stack \in Seq(Activation) /\ Len(stack) \in Nat \ {0} /\ Top \in Activation
  BY TopIsActivation DEF WalkInv, StackNested
<1>2. e \in Activation /\ e.node = p /\ e.next = y
  BY <1>1 DEF Top, Here, Activation
<1>3. stack' = [stack EXCEPT ![Len(stack)] = e]
  BY DEF AtChild
<1> HIDE DEF e
<1>4. /\ stack' \in Seq(Activation)
      /\ Len(stack') = Len(stack)
      /\ \A i \in 1..Len(stack) : stack'[i] = IF i = Len(stack) THEN e ELSE stack[i]
  BY <1>1, <1>2, <1>3, ExceptSeq
<1>5. /\ stack'[Len(stack)] = e
      /\ \A i \in 1..Len(stack)-1 : stack'[i] = stack[i]
      /\ \A i \in 1..Len(stack) : stack'[i].node = stack[i].node
      /\ Top' = e /\ Here' = p
  <2>1. Len(stack) \in 1..Len(stack) /\ \A i \in 1..Len(stack)-1 : i \in 1..Len(stack) /\ i # Len(stack)
    BY <1>1
  <2>2. stack'[Len(stack)] = e /\ \A i \in 1..Len(stack)-1 : stack'[i] = stack[i]
    BY <1>4, <2>1
  <2>3. stack[Len(stack)].node = p
    BY DEF Here, Top
  <2>. QED
    BY <1>2, <1>4, <2>2, <2>3 DEF Top, Here
<1>6. StackLeads'
  <2>1. \A k \in 1..Len(stack')-1 : k \in 1..Len(stack)-1 /\ k + 1 \in 1..Len(stack)
    BY <1>1, <1>4
  <2>2. \A k \in 1..Len(stack')-1 :
          /\ stack'[k].next \in 1..Size(stack'[k].node)
          /\ stack'[k+1].node = Child(stack'[k].node, stack'[k].next)
    BY <1>5, <2>1 DEF StackLeads
  <2>3. \A j, k \in 1..Len(stack') : stack'[j].node = stack'[k].node => j = k
    BY <1>4, <1>5 DEF StackLeads
  <2>. QED
    BY <2>2, <2>3 DEF StackLeads
<1>7. ASSUME NEW q \in Node, ~ OnStack(q)'
      PROVE  Done(q)'
  <2>1. ~ OnStack(q)
    BY <1>4, <1>5, <1>7 DEF OnStack
  <2>. QED
    BY <2>1 DEF Others
<1>8. ASSUME NEW k \in 1..Len(stack')
      PROVE  InWalk(stack[k].node, stack[k].next)'
  <2>1. CASE k = Len(stack)
    BY <2>1, <1>2, <1>5
  <2>2. CASE k # Len(stack)
    <3>1. k \in 1..Len(stack)-1 /\ k \in 1..Len(stack)
      BY <2>2, <1>1, <1>4
    <3>2. stack[k] \in Activation
      BY <1>1, <3>1, ElementOfSeq
    <3>3. PICK q \in Node, x \in Nat : q = stack[k].node /\ x = stack[k].next
      BY <3>2 DEF Activation
    <3>4. InWalk(q, x)'
      BY <3>1, <3>3 DEF Others
    <3>5. stack'[k] = stack[k]
      BY <1>5, <3>1
    <3>. QED
      BY <3>3, <3>4, <3>5
  <2>. QED
    BY <2>1, <2>2
<1>9. AtTop'
  BY <1>2, <1>5 DEF AtTop, Child, Size
<1>. QED
  BY <1>6, <1>7, <1>8, <1>9 DEF Directed

\* A child has been gone through that does not say to skip its siblings.
LEMMA NextChild ==
    ASSUME NEW p \in Node, NEW x \in 1..Size(p), UpTo(p, x), Started(Child(p, x)),
           ~ SaidOf(Child(p, x), "SKIP_SIBLINGS")
    PROVE  /\ UpTo(p, x + 1)
           /\ x + 1 \in 1..Size(p) => ~ Started(Child(p, x + 1))
<1>1. Size(p) \in Nat /\ x \in Nat /\ x <= Size(p)
  BY ChildType
<1>2. NoSkipBefore(p, x)
  BY <1>1 DEF UpTo
<1>3. ASSUME NEW i \in 1..Size(p)
      PROVE  /\ i < x + 1 => /\ Started(Child(p, i)) <=> NoSkipBefore(p, i)
                             /\ Kind[Child(p, i)] # "frame"
                                   => ~ SaidOf(Child(p, i), "SKIP_SIBLINGS")
             /\ i > x + 1 => ~ Started(Child(p, i))
  <2>1. CASE i = x
    BY <2>1, <1>1, <1>2
  <2>2. CASE i # x
    <3>1. (i < x + 1 => i < x) /\ (i > x + 1 => i > x)
      BY <2>2, <1>1
    <3>. QED
      BY <3>1 DEF UpTo
  <2>. QED
    BY <2>1, <2>2
<1>4. ASSUME x + 1 <= Size(p)
      PROVE  NoSkipBefore(p, x + 1)
  <2>1. x + 1 \in 1..Size(p) /\ x < x + 1
    BY <1>1, <1>4
  <2>2. ASSUME NEW j \in 1..Size(p), j < x + 1, Siblings(Child(p, j), Child(p, x + 1))
        PROVE  ~ SaidOf(Child(p, j), "SKIP_SIBLINGS")
    <3>1. CASE j = x
      BY <3>1
    <3>2. CASE j # x
      <4>1. j < x
        BY <2>2, <3>2, <1>1
      <4>2. CASE Kind[Child(p, j)] # "frame"
        BY <4>1, <4>2 DEF UpTo
      <4>3. CASE Kind[Child(p, j)] = "frame"
        <5>1. Kind[Child(p, x + 1)] = "frame"
          BY <2>2, <4>3 DEF Siblings
        <5>2. Kind[Child(p, x)] = "frame"
          BY <5>1, <2>1, ChildType
        <5>3. Siblings(Child(p, j), Child(p, x))
          BY <4>3, <5>2 DEF Siblings
        <5>. QED
          BY <4>1, <5>3, <1>2 DEF NoSkipBefore
      <4>. QED
        BY <4>2, <4>3
    <3>. QED
      BY <3>1, <3>2
  <2>. QED
    BY <2>2 DEF NoSkipBefore
<1>5. Entered(p) /\ ~ Ended(p) /\ x + 1 \in 1..Size(p)+1 /\ Kind[p] # "item"
  BY <1>1 DEF UpTo
<1>6. UpTo(p, x + 1)
  BY <1>3, <1>4, <1>5 DEF UpTo
<1>7. x + 1 \in 1..Size(p) => ~ Started(Child(p, x + 1))
  <2>1. x + 1 > x
    BY <1>1
  <2>. QED
    BY <2>1 DEF UpTo
<1>. QED
  BY <1>6, <1>7

\* A frame says to skip its siblings: the loops are next.
LEMMA NextLoop ==
    ASSUME NEW p \in Node, NEW x \in 1..Size(p), UpTo(p, x), Started(Child(p, x)),
           SaidOf(Child(p, x), "SKIP_SIBLINGS"), Kind[Child(p, x)] = "frame",
           NEW y \in 1..Size(p)+1,
           \A i \in 1..Size(p) : Kind[Child(p, i)] = "frame" <=> i < y
    PROVE  /\ UpTo(p, y)
           /\ y \in 1..Size(p) => ~ Started(Child(p, y))
<1>1. Size(p) \in Nat /\ x \in Nat /\ x <= Size(p) /\ x < y /\ y \in Nat
  BY ChildType
<1>2. NoSkipBefore(p, x)
  BY <1>1 DEF UpTo
<1>3. ASSUME NEW i \in 1..Size(p), i < y
      PROVE  /\ Started(Child(p, i)) <=> NoSkipBefore(p, i)
             /\ Kind[Child(p, i)] = "frame"
  <2>1. Kind[Child(p, i)] = "frame"
    BY <1>3
  <2>2. CASE i = x
    BY <2>1, <2>2, <1>2
  <2>3. CASE i < x
    BY <2>1, <2>3 DEF UpTo
  <2>4. CASE i > x
    <3>1. ~ Started(Child(p, i)) /\ x < i
      BY <2>4 DEF UpTo
    <3>2. Siblings(Child(p, x), Child(p, i))
      BY <2>1 DEF Siblings
    <3>3. ~ NoSkipBefore(p, i)
      BY <3>1, <3>2 DEF NoSkipBefore
    <3>. QED
      BY <2>1, <3>1, <3>3
  <2>. QED
    BY <2>2, <2>3, <2>4, <1>1
<1>4. \A i \in 1..Size(p) : i >= y => ~ Started(Child(p, i))
  <2>1. \A i \in 1..Size(p) : i >= y => i > x
    BY <1>1
  <2>. QED
    BY <2>1 DEF UpTo
<1>5. \A i \in 1..Size(p) : i > y => i >= y
  BY <1>1
<1>6. ASSUME y <= Size(p)
      PROVE  NoSkipBefore(p, y)
  <2>1. y \in 1..Size(p) /\ ~ (y < y)
    BY <1>1, <1>6
  <2>2. Kind[Child(p, y)] # "frame"
    BY <2>1
  <2>. QED
    BY <2>2 DEF NoSkipBefore, Siblings
<1>7. Entered(p) /\ ~ Ended(p) /\ Kind[p] # "item"
  BY DEF UpTo
<1>8. UpTo(p, y)
  BY <1>3, <1>4, <1>5, <1>6, <1>7 DEF UpTo
<1>9. y \in 1..Size(p) => y >= y
  BY <1>1
<1>. QED
  BY <1>4, <1>8, <1>9

\* What is no frame says to skip its siblings, and so the element it is in is
\* through, without its end handler being called.
LEMMA RestSkipped ==
    ASSUME NEW p \in Node, NEW x \in 1..Size(p), UpTo(p, x), Started(Child(p, x)),
           SaidOf(Child(p, x), "SKIP_SIBLINGS"), Kind[Child(p, x)] # "frame"
    PROVE  Done(p) /\ Started(p) /\ ~ SaidOf(p, "SKIP_SIBLINGS")
<1>1. Size(p) \in Nat /\ x \in Nat /\ x <= Size(p)
  BY ChildType
<1>2. NoSkipBefore(p, x)
  BY <1>1 DEF UpTo
<1>3. ASSUME NEW i \in 1..Size(p)
      PROVE  Started(Child(p, i)) <=> NoSkipBefore(p, i)
  <2>1. CASE i = x
    BY <2>1, <1>2
  <2>2. CASE i < x
    BY <2>2 DEF UpTo
  <2>3. CASE i > x
    <3>1. ~ Started(Child(p, i)) /\ x < i
      BY <2>3 DEF UpTo
    <3>2. Kind[Child(p, i)] # "frame"
      BY <3>1, ChildType
    <3>3. Siblings(Child(p, x), Child(p, i))
      BY <3>2 DEF Siblings
    <3>4. ~ NoSkipBefore(p, i)
      BY <3>1, <3>3 DEF NoSkipBefore
    <3>. QED
      BY <3>1, <3>4
  <2>. QED
    BY <2>1, <2>2, <2>3, <1>1
<1>4. Entered(p) /\ ~ Ended(p)
  BY DEF UpTo
<1>5. Done(p)
  BY <1>3, <1>4 DEF Done
<1>6. ~ SaidOf(p, "SKIP_SIBLINGS")
  BY <1>4 DEF SaidOf, Entered, Ended
<1>. QED
  BY <1>4, <1>5, <1>6 DEF Entered

\* No child of the innermost element is on the stack.
LEMMA ChildNotOnStack ==
    ASSUME WalkInv, StackLeads, stack # <<>>, NEW p \in Node, p = Here, NEW i \in 1..Size(p)
    PROVE  ~ OnStack(Child(p, i)) /\ Child(p, i) # p
<1>1. /\ stack \in Seq(Activation) /\ Len(stack) \in Nat \ {0}
      /\ stack[Len(stack)].node = p /\ stack[1].node = Root
  BY TopIsActivation DEF WalkInv, StackNested, Here, Top
<1>2. Child(p, i) # Root
  <2>1. \A k \in Kinds : "cif" \notin Parts(k)
    BY DEF Parts, Kinds
  <2>2. Kind[p] \in Kinds /\ Kind[Child(p, i)] \in Parts(Kind[p])
    BY TreeAssumption, ChildType
  <2>. QED
    BY <2>1, <2>2, TreeAssumption
<1>3. ASSUME NEW j \in 1..Len(stack), stack[j].node = Child(p, i)
      PROVE  FALSE
  <2>1. j - 1 \in 1..Len(stack)-1 /\ j - 1 \in 1..Len(stack) /\ j - 1 + 1 = j
        /\ Len(stack) \in 1..Len(stack) /\ j - 1 # Len(stack)
    BY <1>1, <1>2, <1>3
  <2> DEFINE q == stack[j-1].node
             y == stack[j-1].next
  <2>2. q \in Node /\ y \in 1..Size(q) /\ Child(q, y) = Child(p, i)
    <3>1. stack[j-1] \in Activation
      BY <1>1, <2>1, ElementOfSeq
    <3>. QED
      BY <3>1, <1>3, <2>1 DEF StackLeads, Activation
  <2> HIDE DEF q, y
  <2>3. q = p
    BY <2>2, ChildType
  <2>. QED
    BY <1>1, <2>1, <2>3 DEF StackLeads, q
<1>. QED
  BY <1>1, <1>3 DEF OnStack

\* While a function is active and its child has not cut the walk short, nothing
\* has.
LEMMA WalkingSmooth ==
    ASSUME WalkInv, Answered, stack # <<>>,
           returned \in {"none", "CONTINUE", "SKIP_CURRENT", "SKIP_SIBLINGS"}
    PROVE  Smooth
BY NotReturned DEF Answered, Smooth

\* An error, an END or a failure is what the walk is cut short by.
LEMMA CutShort ==
    ASSUME WalkInv, StackLeads, stack # <<>>,
           NEW code \in {"END", "error", "CIF_EMPTY_LOOP", Fault},
           Return(code), code = "END" => Said("END")'
    PROVE  StackLeads' /\ ~ Smooth'
<1>1. StackLeads'
  BY LeavingLeads
<1>2. Fault \notin Answers \cup {"none", "CIF_OK", "CIF_EMPTY_LOOP"}
  BY TreeAssumption
<1>3. code \notin {"none", "CONTINUE", "SKIP_CURRENT", "SKIP_SIBLINGS"}
  BY <1>2 DEF Answers, Directions
<1>4. CASE Here # Root
  <2>1. returned' = code
    BY <1>4 DEF Return
  <2>. QED
    BY <1>1, <1>3, <2>1 DEF Smooth
<1>5. CASE Here = Root
  <2>1. result' = Translated(code)
    BY <1>5 DEF Return
  <2>2. CASE code = "END"
    BY <1>1, <2>2 DEF Smooth
  <2>3. CASE code # "END"
    <3>1. code \notin Directions /\ code \notin {"none", "CIF_OK"}
      BY <1>2, <1>3, <2>3 DEF Directions, Answers
    <3>. QED
      BY <1>1, <2>1, <3>1 DEF Translated, Smooth
  <2>. QED
    BY <2>2, <2>3
<1>. QED
  BY <1>4, <1>5

\* What the innermost element is as it is directed
LEMMA AtHere ==
    ASSUME WalkInv, Directed, stack # <<>>
    PROVE  \E p \in Node, x \in Nat :
              p = Here /\ x = Top.next /\ InWalk(p, x) /\ Last = Size(p)
<1>1. Here \in Node /\ Top.next \in Nat /\ Len(stack) \in 1..Len(stack)
  BY TopIsActivation DEF WalkInv
<1>2. InWalk(Here, Top.next)
  BY <1>1 DEF Directed, Here, Top
<1>. QED
  BY <1>1, <1>2 DEF Last, Size

\* A start handler is called: with CONTINUE the walk is at the first child, with
\* other answers through with the element.
LEMMA CallStartDirected ==
    ASSUME WalkInv, Answered, StackLeads, Smooth => Directed, CallStart
    PROVE  StackLeads' /\ (Smooth' => Directed')
<1>1. PICK a \in Answers :
        /\ Hears("start", a)
        /\ IF a = "CONTINUE" /\ Kind[Here] # "item"
           THEN AtChild(1) /\ UNCHANGED <<returned, open, result>>
           ELSE Return(a)
  BY DEF CallStart
<1>2. stack # <<>> /\ returned = "none" /\ Top.next = 0 /\ Directed
  BY WalkingSmooth DEF CallStart, Walking
<1>3. PICK p \in Node, x \in Nat : p = Here /\ x = Top.next /\ InWalk(p, x)
  BY <1>2, AtHere
<1>4. Fresh(p) /\ Size(p) \in Nat
  BY <1>2, <1>3, ChildType DEF InWalk
<1>5. \A n \in Node : n # Here => Same(n)
  BY <1>1, Elsewhere
<1>6. Others
  BY <1>2, <1>5, OthersKept
<1>7. \A i \in 1..Size(p) : Child(p, i) # Here /\ ~ Started(Child(p, i))'
  <2>1. \A i \in 1..Size(p) : Child(p, i) # Here /\ Child(p, i) \in Node
    BY <1>2, <1>3, ChildNotOnStack, ChildType
  <2>. QED
    BY <2>1, <1>4, <1>5 DEF Fresh, Same
<1>8. /\ Started(p)' /\ ~ Ended(p)'
      /\ Entered(p)' <=> a = "CONTINUE"
      /\ SaidOf(p, "SKIP_SIBLINGS")' <=> a = "SKIP_SIBLINGS"
  <2>1. /\ DOMAIN said' = DOMAIN said \cup {<<"start", p>>}
        /\ said'[<<"start", p>>] = a
    BY <1>1, <1>3 DEF Hears
  <2>2. <<"end", p>> \notin DOMAIN said
    BY <1>4 DEF Fresh, Ended
  <2>. QED
    BY <2>1, <2>2 DEF Started, Ended, Entered, SaidOf
<1>9. CASE AtChild(1) /\ UNCHANGED returned /\ a = "CONTINUE" /\ Kind[Here] # "item"
  <2>1. InWalk(p, 1)'
    <3>1. \A i \in 1..Size(p) : ~ (i < 1)
      BY <1>4
    <3>2. \A j \in 1..Size(p) : ~ (j < 1)
      BY <1>4
    <3>3. NoSkipBefore(p, 1)'
      BY <3>2 DEF NoSkipBefore
    <3>4. 1 \in 1..Size(p)+1
      BY <1>4
    <3>5. UpTo(p, 1)'
      BY <1>3, <1>7, <1>8, <1>9, <3>1, <3>3, <3>4 DEF UpTo
    <3>. QED
      BY <3>5 DEF InWalk
  <2>2. 1 \in 1..Size(p) => ~ Started(Child(p, 1))'
    BY <1>7
  <2>. QED
    BY <1>2, <1>3, <1>6, <1>9, <2>1, <2>2, GoingOnDirected
<1>10. CASE Return(a) /\ ~ (a = "CONTINUE" /\ Kind[Here] # "item")
  <2>1. a # "none"
    BY DEF Answers, Directions
  <2>2. Kind[p] = "item" => Size(p) = 0
    <3>1. ASSUME Kind[p] = "item", Size(p) # 0
          PROVE  FALSE
      <4>1. 1 \in 1..Size(p)
        BY <1>4, <3>1
      <4>2. Kind[Child(p, 1)] \in Parts("item")
        BY <3>1, <4>1, ChildType
      <4>. QED
        BY <4>2 DEF Parts
    <3>. QED
      BY <3>1
  <2>3. Done(p)'
    BY <1>3, <1>4, <1>7, <1>8, <1>10, <2>2 DEF Done
  <2>. QED
    BY <1>2, <1>3, <1>6, <1>8, <1>10, <2>1, <2>3, LeavingDirected, LeavingLeads
<1>. QED
  BY <1>1, <1>9, <1>10

\* Nothing of the walk changes.
LEMMA NothingWalked ==
    ASSUME UNCHANGED <<stack, returned, said, result>>, StackLeads, Smooth => Directed
    PROVE  StackLeads' /\ (Smooth' => Directed')
<1>1. StackLeads'
  BY DEF StackLeads, Top, Here
<1>2. Smooth' <=> Smooth
  BY DEF Smooth, Said
<1>3. Directed' <=> Directed
  BY DEF Directed, OnStack, InWalk, AtTop, Done, UpTo, Fresh, NoSkipBefore, Started,
         Ended, Entered, SaidOf, Top, Here
<1>. QED
  BY <1>1, <1>2, <1>3

\* A packet iterator is opened, or the loop has no packet.
LEMMA GetPacketsDirected ==
    ASSUME WalkInv, Answered, StackLeads, Smooth => Directed, GetPackets
    PROVE  StackLeads' /\ (Smooth' => Directed')
<1>1. stack # <<>> /\ said' = said
  BY DEF GetPackets, Walking
<1>2. CASE Return("CIF_EMPTY_LOOP")
  BY <1>1, <1>2, CutShort
<1>3. CASE UNCHANGED <<stack, returned, result>>
  BY <1>1, <1>3, NothingWalked
<1>. QED
  BY <1>2, <1>3 DEF GetPackets

\* A child is entered that has not been got to before.
LEMMA WalkChildDirected ==
    ASSUME WalkInv, Answered, StackLeads, Smooth => Directed, WalkChild
    PROVE  StackLeads' /\ (Smooth' => Directed')
<1>1. /\ stack # <<>> /\ returned = "none" /\ Top.next \in 1..Last /\ Directed
      /\ UNCHANGED <<returned, said, result>>
  BY WalkingSmooth DEF WalkChild, Walking
<1>2. PICK p \in Node, x \in Nat : p = Here /\ x = Top.next /\ InWalk(p, x) /\ Last = Size(p)
  BY <1>1, AtHere
<1> DEFINE c == Child(p, x)
           e == [node |-> c, next |-> 0]
<1>3. x \in 1..Size(p) /\ c \in Node /\ ~ OnStack(c)
  BY <1>1, <1>2, ChildType, ChildNotOnStack
<1>4. Fresh(c)
  <2>1. ~ Started(c)
    BY <1>1, <1>2, <1>3 DEF Directed, AtTop
  <2>2. Done(c)
    BY <1>1, <1>3 DEF Directed
  <2>. QED
    BY <2>1, <2>2 DEF Done, Fresh, Entered
<1>5. stack' = Append(stack, e)
  BY <1>2 DEF WalkChild, Child
<1>6. e \in Activation /\ e.node = c /\ e.next = 0
  BY <1>3 DEF Activation
<1> HIDE DEF c, e
<1>7. stack \in Seq(Activation) /\ Len(stack) \in Nat \ {0} /\ stack[Len(stack)] = Top
  BY <1>1, TopIsActivation DEF WalkInv, StackNested, Top
<1>8. /\ Len(stack') = Len(stack) + 1
      /\ \A i \in 1..Len(stack) : stack'[i] = stack[i]
      /\ stack'[Len(stack) + 1] = e
  BY <1>5, <1>6, <1>7, AppendProperties
<1>9. /\ \A k \in 1..Len(stack') : k = Len(stack) + 1 \/ k \in 1..Len(stack)
      /\ \A k \in 1..Len(stack')-1 : k = Len(stack) \/ (k \in 1..Len(stack)-1 /\ k + 1 \in 1..Len(stack))
      /\ \A k \in 1..Len(stack) : k \in 1..Len(stack')
      /\ Len(stack) \in 1..Len(stack)
  BY <1>7, <1>8
<1>10. StackLeads'
  <2>1. ASSUME NEW k \in 1..Len(stack')-1
        PROVE  /\ stack'[k].next \in 1..Size(stack'[k].node)
               /\ stack'[k+1].node = Child(stack'[k].node, stack'[k].next)
    <3>1. CASE k = Len(stack)
      <4>1. stack'[k] = Top /\ stack'[k+1] = e
        BY <3>1, <1>7, <1>8, <1>9
      <4>. QED
        BY <4>1, <1>2, <1>3, <1>6 DEF Here, c
    <3>2. CASE k \in 1..Len(stack)-1 /\ k + 1 \in 1..Len(stack)
      <4>1. stack'[k] = stack[k] /\ stack'[k+1] = stack[k+1]
        BY <3>2, <1>7, <1>8
      <4>. QED
        BY <4>1, <3>2 DEF StackLeads
    <3>. QED
      BY <3>1, <3>2, <1>9
  <2>2. ASSUME NEW j \in 1..Len(stack'), NEW k \in 1..Len(stack'),
               stack'[j].node = stack'[k].node
        PROVE  j = k
    <3>1. \A i \in 1..Len(stack) : stack'[i].node # c
      BY <1>3, <1>8 DEF OnStack
    <3>2. stack'[Len(stack) + 1].node = c
      BY <1>6, <1>8
    <3>3. CASE j \in 1..Len(stack) /\ k \in 1..Len(stack)
      BY <2>2, <3>3, <1>8 DEF StackLeads
    <3>. QED
      BY <2>2, <3>1, <3>2, <3>3, <1>9
  <2>. QED
    BY <2>1, <2>2, <1>1 DEF StackLeads
<1>11. ASSUME NEW q \in Node, ~ OnStack(q)'
       PROVE  Done(q)'
  <2>1. ~ OnStack(q)
    BY <1>8, <1>9, <1>11 DEF OnStack
  <2>2. Same(q) /\ \A i \in 1..Size(q) : Same(Child(q, i))
    BY <1>1, Silence, ChildType
  <2>. QED
    BY <1>1, <2>1, <2>2, DoneSame DEF Directed
<1>12. ASSUME NEW q \in Node, NEW y \in Nat, InWalk(q, y)
       PROVE  InWalk(q, y)'
  <2>1. Same(q) /\ \A i \in 1..Size(q) : Same(Child(q, i))
    BY <1>1, Silence, ChildType
  <2>. QED
    BY <2>1, <1>12, InWalkSame
<1>13. ASSUME NEW k \in 1..Len(stack')
       PROVE  InWalk(stack[k].node, stack[k].next)'
  <2>1. CASE k = Len(stack) + 1
    <3>1. InWalk(c, 0)'
      BY <1>3, <1>4, <1>12 DEF InWalk
    <3>. QED
      BY <3>1, <2>1, <1>6, <1>8
  <2>2. CASE k \in 1..Len(stack)
    <3>1. stack[k] \in Activation /\ stack'[k] = stack[k]
      BY <2>2, <1>7, <1>8, ElementOfSeq
    <3>2. PICK q \in Node, y \in Nat : q = stack[k].node /\ y = stack[k].next
      BY <3>1 DEF Activation
    <3>3. InWalk(q, y)
      BY <1>1, <2>2, <3>2 DEF Directed
    <3>. QED
      BY <3>1, <3>2, <3>3, <1>12
  <2>. QED
    BY <2>1, <2>2, <1>9
<1>14. AtTop'
  <2>1. Top'.next = 0 /\ returned' = "none"
    BY <1>1, <1>6, <1>8 DEF Top
  <2>2. Here' = c
    BY <1>6, <1>8 DEF Top, Here
  <2>3. Size(c) \in Nat
    BY <1>3, ChildType
  <2>4. ~ (0 \in 1..Size(c))
    BY <2>3
  <2>. QED
    BY <2>1, <2>2, <2>4 DEF AtTop, Size
<1>. QED
  BY <1>10, <1>11, <1>13, <1>14 DEF Directed
\* A child returns: its code decides whether the element goes on, and where.
LEMMA ChildReturnedDirected ==
    ASSUME WalkInv, Answered, StackLeads, Smooth => Directed, ChildReturned
    PROVE  StackLeads' /\ (Smooth' => Directed')
<1>1. stack # <<>> /\ returned # "none" /\ said' = said
  BY DEF ChildReturned
<1>2. CASE returned \in {"CONTINUE", "SKIP_CURRENT", "SKIP_SIBLINGS"}
  <2>1. Directed
    BY <1>1, <1>2, WalkingSmooth
  <2>2. PICK p \in Node, x \in Nat :
           p = Here /\ x = Top.next /\ InWalk(p, x) /\ Last = Size(p)
    BY <1>1, <2>1, AtHere
  <2>3. x \in 1..Size(p) /\ x # 0 /\ Size(p) \in Nat
    <3>1. x \in 1..Size(p) /\ Size(p) \in Nat
      BY <1>1, <2>2, ChildType DEF StackLeads
    <3>. QED
      BY <3>1
  <2>4. UpTo(p, x)
    BY <2>2, <2>3 DEF InWalk
  <2>5. /\ Started(Child(p, x))
        /\ returned = "SKIP_SIBLINGS" <=> SaidOf(Child(p, x), "SKIP_SIBLINGS")
    BY <1>1, <2>1, <2>2 DEF AtTop, Directed
  <2>6. \A n \in Node : Same(n)
    BY <1>1, Silence
  <2>7. Others
    BY <1>1, <2>1, <2>6, OthersKept
  <2>8. \A i \in 1..Size(p) : Same(Child(p, i))
    BY <2>6, ChildType
  <2>9. ASSUME NEW y \in Nat, UpTo(p, y), y # 0, AtChild(y), returned' = "none",
               y \in 1..Size(p) => ~ Started(Child(p, y))
        PROVE  StackLeads' /\ Directed'
    <3>1. InWalk(p, y)'
      BY <2>6, <2>8, <2>9, InWalkSame DEF InWalk
    <3>2. y \in 1..Size(p) => ~ Started(Child(p, y))'
      BY <2>8, <2>9 DEF Same
    <3>. QED
      BY <1>1, <2>2, <2>7, <2>9, <3>1, <3>2, GoingOnDirected
  <2>10. CASE GoesOn(returned) /\ AtChild(Top.next + 1) /\ returned' = "none"
    <3>1. ~ SaidOf(Child(p, x), "SKIP_SIBLINGS")
      BY <2>5, <2>10 DEF GoesOn
    <3>2. UpTo(p, x + 1) /\ (x + 1 \in 1..Size(p) => ~ Started(Child(p, x + 1)))
      BY <2>3, <2>4, <2>5, <3>1, NextChild
    <3>3. x + 1 \in Nat /\ x + 1 # 0
      BY <2>3
    <3>. QED
      BY <2>2, <2>9, <2>10, <3>2, <3>3
  <2>11. CASE /\ returned = "SKIP_SIBLINGS" /\ SkipsFramesOnly(Child(p, x))
              /\ AtChild(FirstLoop) /\ returned' = "none"
    <3>1. Kind[Child(p, x)] = "frame"
      BY <2>11 DEF SkipsFramesOnly
    <3>2. PICK y \in 1..Size(p)+1 :
             y = FirstLoop /\ \A i \in 1..Size(p) : Kind[Child(p, i)] = "frame" <=> i < y
      BY <1>1, <2>2, FramesFirst
    <3>3. UpTo(p, y) /\ (y \in 1..Size(p) => ~ Started(Child(p, y)))
      BY <2>3, <2>4, <2>5, <2>11, <3>1, <3>2, NextLoop
    <3>4. y \in Nat /\ y # 0
      BY <2>3
    <3>. QED
      BY <2>9, <2>11, <3>2, <3>3, <3>4
  <2>12. CASE returned = "SKIP_SIBLINGS" /\ ~ SkipsFramesOnly(Child(p, x)) /\ Return("CONTINUE")
    <3>1. Done(p) /\ Started(p) /\ ~ SaidOf(p, "SKIP_SIBLINGS")
      BY <2>3, <2>4, <2>5, <2>12, RestSkipped DEF SkipsFramesOnly
    <3>2. Done(p)'
      BY <2>6, <2>8, <3>1, DoneSame
    <3>3. Started(p)' /\ ~ SaidOf(p, "SKIP_SIBLINGS")'
      BY <2>6, <3>1 DEF Same
    <3>4. "CONTINUE" = "SKIP_SIBLINGS" <=> SaidOf(p, "SKIP_SIBLINGS")'
      BY <3>3
    <3>5. StackLeads'
      BY <1>1, <2>12, LeavingLeads
    <3>6. Directed'
      BY <1>1, <2>2, <2>7, <2>12, <3>2, <3>3, <3>4, LeavingDirected
    <3>. QED
      BY <3>5, <3>6
  <2>13. Children[Here][Top.next] = Child(p, x)
    BY <2>2 DEF Child
  <2>14. GoesOn(returned) \/ returned = "SKIP_SIBLINGS"
    BY <1>2 DEF GoesOn
  <2>. QED
    BY <2>10, <2>11, <2>12, <2>13, <2>14 DEF ChildReturned
<1>3. CASE returned \notin {"CONTINUE", "SKIP_CURRENT", "SKIP_SIBLINGS"}
  <2>1. Return(returned)
    BY <1>3 DEF ChildReturned, GoesOn
  <2>2. returned \in {"END", "error", "CIF_EMPTY_LOOP", Fault}
    BY <1>1, <1>3 DEF Answered, Answers, Directions
  <2>3. returned = "END" => Said("END")'
    BY <1>1, NotReturned DEF Answered, Said
  <2>4. PICK code \in {"END", "error", "CIF_EMPTY_LOOP", Fault} : code = returned
    BY <2>2
  <2>. QED
    BY <1>1, <2>1, <2>3, <2>4, CutShort
<1>. QED
  BY <1>2, <1>3

\* An end handler is called: all of the element's children were gone through.
LEMMA CallEndDirected ==
    ASSUME WalkInv, Answered, StackLeads, Smooth => Directed, CallEnd
    PROVE  StackLeads' /\ (Smooth' => Directed')
<1>1. PICK a \in Answers : Hears("end", a) /\ Return(a)
  BY DEF CallEnd
<1>2. stack # <<>> /\ returned = "none" /\ Top.next = Last + 1 /\ Directed
  BY WalkingSmooth DEF CallEnd, Walking
<1>3. PICK p \in Node, x \in Nat : p = Here /\ x = Top.next /\ InWalk(p, x) /\ Last = Size(p)
  BY <1>2, AtHere
<1>4. Size(p) \in Nat /\ x = Size(p) + 1 /\ x # 0
  <2>1. Size(p) \in Nat /\ x = Size(p) + 1
    BY <1>2, <1>3, ChildType
  <2>. QED
    BY <2>1
<1>5. UpTo(p, x)
  BY <1>3, <1>4 DEF InWalk
<1>6. \A n \in Node : n # Here => Same(n)
  BY <1>1, Elsewhere
<1>7. Others
  BY <1>2, <1>6, OthersKept
<1>8. \A i \in 1..Size(p) : Same(Child(p, i))
  BY <1>2, <1>3, <1>6, ChildNotOnStack, ChildType
<1>9. /\ Started(p)' /\ Entered(p)' /\ Ended(p)'
      /\ SaidOf(p, "SKIP_SIBLINGS")' <=> a = "SKIP_SIBLINGS"
  <2>1. /\ DOMAIN said' = DOMAIN said \cup {<<"end", p>>}
        /\ said'[<<"end", p>>] = a
        /\ \A c \in DOMAIN said \ {<<"end", p>>} : said'[c] = said[c]
    BY <1>1, <1>3 DEF Hears
  <2>2. <<"start", p>> \in DOMAIN said /\ said[<<"start", p>>] = "CONTINUE"
        /\ <<"start", p>> # <<"end", p>>
    BY <1>5 DEF UpTo, Entered, Started
  <2>. QED
    BY <2>1, <2>2 DEF Started, Ended, Entered, SaidOf
<1>10. \A i \in 1..Size(p) :
          /\ Started(Child(p, i)) <=> NoSkipBefore(p, i)
          /\ Kind[Child(p, i)] # "frame" => ~ SaidOf(Child(p, i), "SKIP_SIBLINGS")
  <2>1. \A i \in 1..Size(p) : i < x
    BY <1>4
  <2>. QED
    BY <1>5, <2>1 DEF UpTo
<1>11. \A i \in 1..Size(p) : NoSkipBefore(p, i)' <=> NoSkipBefore(p, i)
  BY <1>8 DEF NoSkipBefore, Same
<1>12. Done(p)'
  BY <1>8, <1>9, <1>10, <1>11 DEF Done, Same
<1>13. a # "none"
  BY DEF Answers, Directions
<1>14. StackLeads'
  BY <1>1, <1>2, LeavingLeads
<1>15. Directed'
  BY <1>1, <1>2, <1>3, <1>7, <1>9, <1>12, <1>13, LeavingDirected
<1>. QED
  BY <1>14, <1>15

\* A failure of the library cuts the walk short.
LEMMA LibraryFailsDirected ==
    ASSUME WalkInv, Answered, StackLeads, LibraryFails
    PROVE  StackLeads' /\ ~ Smooth'
<1>1. stack # <<>> /\ Return(Fault) /\ Fault # "END"
  BY TreeAssumption DEF LibraryFails, Walking, Answers, Directions
<1>. QED
  BY <1>1, CutShort

\* Before cif_walk's first call of a handler nothing is under way.
LEMMA DirectedInit == Init => StackLeads /\ Directed
<1>. SUFFICES ASSUME Init
              PROVE  StackLeads /\ Directed
  OBVIOUS
<1> DEFINE e == [node |-> Root, next |-> 0]
<1>1. e.node = Root /\ e.next = 0 /\ Root \in Node
  BY TreeAssumption
<1>2. Len(stack) = 1 /\ stack[1] = e /\ stack # <<>>
  BY DEF Init
<1> HIDE DEF e
<1>3. \A k \in 1..Len(stack) : k = 1
  BY <1>2
<1>4. \A n, h : <<h, n>> \notin DOMAIN said
  BY DEF Init
<1>5. \A k \in 1..Len(stack)-1 : FALSE
  BY <1>2
<1>6. StackLeads
  BY <1>3, <1>5 DEF StackLeads, Init
<1>7. ASSUME NEW p \in Node
      PROVE  Done(p) /\ Fresh(p)
  BY <1>4 DEF Done, Fresh, Started, Ended, Entered
<1>8. AtTop
  BY <1>4 DEF AtTop, Started, Init
<1>9. Directed
  BY <1>1, <1>2, <1>3, <1>7, <1>8 DEF Directed, InWalk
<1>. QED
  BY <1>6, <1>9

\* What is inductive of the answers and what the handlers are called for
DirectedInv == WalkInv /\ Answered /\ StackLeads /\ (Smooth => Directed)

\* Every step of the walk keeps them.
LEMMA DirectedStep == DirectedInv /\ [Next]_vars => DirectedInv'
<1>. SUFFICES ASSUME WalkInv, Answered, StackLeads, Smooth => Directed, [Next]_vars
              PROVE  WalkInv' /\ Answered' /\ StackLeads' /\ (Smooth' => Directed')
  BY DEF DirectedInv
<1>1. WalkInv' /\ Answered'
  BY WalkStep, AnsweredStep
<1>. SUFFICES StackLeads' /\ (Smooth' => Directed')
  BY <1>1
<1>2. CASE CallStart
  BY <1>2, CallStartDirected
<1>3. CASE GetPackets
  BY <1>3, GetPacketsDirected
<1>4. CASE WalkChild
  BY <1>4, WalkChildDirected
<1>5. CASE ChildReturned
  BY <1>5, ChildReturnedDirected
<1>6. CASE CallEnd
  BY <1>6, CallEndDirected
<1>7. CASE LibraryFails
  BY <1>7, LibraryFailsDirected
<1>8. CASE UNCHANGED vars
  BY <1>8, NothingWalked DEF vars
<1>. QED
  BY <1>2, <1>3, <1>4, <1>5, <1>6, <1>7, <1>8 DEF Next

\* So they hold throughout.
LEMMA DirectedIsInvariant == Spec => []DirectedInv
<1>1. Init => DirectedInv
  BY WalkInit, AnsweredInit, DirectedInit DEF DirectedInv
<1>. QED
  BY <1>1, DirectedStep, PTL DEF Spec

\* When the walk has run to its end, it is through with every element.
LEMMA RunToTheEndIsDone ==
    ASSUME DirectedInv, RunToTheEnd, NEW p \in Node
    PROVE  Done(p) /\ Size(p) \in Nat /\ DOMAIN Children[p] = 1..Size(p)
<1>1. stack = <<>> /\ returned = "none" /\ ~ Said("END") /\ ~ Said("error")
      /\ result = "CIF_OK"
  BY DEF DirectedInv, RunToTheEnd, WalkInv, Answered, ResultAsAnswered
<1>2. Directed
  BY <1>1 DEF DirectedInv, Smooth
<1>3. ~ OnStack(p)
  <2>1. \A k \in 1..Len(stack) : FALSE
    BY <1>1
  <2>. QED
    BY <2>1 DEF OnStack
<1>4. Children[p] \in Seq(Node)
  BY TreeAssumption
<1>. QED
  BY <1>2, <1>3, <1>4, LenProperties DEF Directed, Size

\* The handlers of cif_walk are called for exactly the elements that their
\* answers leave.
THEOREM WalkVisitsAsDirected == Spec => []VisitedAsDirected
<1>1. DirectedInv => VisitedAsDirected
  <2>. SUFFICES ASSUME DirectedInv, RunToTheEnd, NEW p \in Node, NEW i \in DOMAIN Children[p]
                PROVE  Started(Children[p][i]) <=>
                          /\ Entered(p)
                          /\ \A j \in 1..(i - 1) :
                                Siblings(Children[p][j], Children[p][i])
                                   => ~ SaidOf(Children[p][j], "SKIP_SIBLINGS")
    BY DEF VisitedAsDirected
  <2>1. Done(p) /\ Size(p) \in Nat /\ i \in 1..Size(p)
    BY RunToTheEndIsDone
  <2>2. \A j : j \in 1..(i - 1) <=> j \in 1..Size(p) /\ j < i
    BY <2>1
  <2>3. NoSkipBefore(p, i) <=>
           \A j \in 1..(i - 1) : Siblings(Children[p][j], Children[p][i])
                                   => ~ SaidOf(Children[p][j], "SKIP_SIBLINGS")
    BY <2>2 DEF NoSkipBefore, Child
  <2>. QED
    BY <2>1, <2>3 DEF Done, Child
<1>. QED
  BY <1>1, DirectedIsInvariant, PTL

\* The end handlers of cif_walk are called only for elements that were entered,
\* and for all that were gone through.
THEOREM WalkEndsAsDirected == Spec => []EndedAsDirected
<1>1. DirectedInv => EndedAsDirected
  <2>. SUFFICES ASSUME DirectedInv, RunToTheEnd, NEW p \in Node, Kind[p] # "item"
                PROVE  /\ Ended(p) => Entered(p)
                       /\ /\ Entered(p)
                          /\ \A i \in DOMAIN Children[p] :
                                Kind[Children[p][i]] # "frame"
                                   => ~ SaidOf(Children[p][i], "SKIP_SIBLINGS")
                          => Ended(p)
    BY DEF EndedAsDirected
  <2>1. Done(p) /\ DOMAIN Children[p] = 1..Size(p)
    BY RunToTheEndIsDone
  <2>. QED
    BY <2>1 DEF Done, Child
<1>. QED
  BY <1>1, DirectedIsInvariant, PTL

\* What cif_walk returns is what the handlers answered last, and an error that
\* a handler answers is neither lost on the way through the walk_... functions
\* nor overwritten by a later result.
THEOREM WalkReturnsAnswer == Spec => []ResultAsAnswered
<1>1. WalkInv /\ Answered /\ [Next]_vars => (WalkInv /\ Answered)'
  BY WalkStep, AnsweredStep
<1>2. Answered => ResultAsAnswered
  BY DEF Answered, ResultAsAnswered
<1>. QED
  BY WalkInit, AnsweredInit, <1>1, <1>2, PTL DEF Spec
=============================================================================
