-------------------------------- MODULE CifWalk --------------------------------
(***************************************************************************)
(* cif_walk and its helpers in cif.c: the traversal of a CIF that calls    *)
(* the application's handlers and is directed by what they answer.         *)
(*                                                                         *)
(* The CIF is a tree, its nodes the elements there are handlers for, and   *)
(* stack holds the activations of the walk_... functions.  A handler may   *)
(* answer anything at any call (one that is absent answers CONTINUE) and   *)
(* leaves the CIF as it is.                                                *)
(***************************************************************************)
EXTENDS Integers, Sequences, FiniteSets

CONSTANTS Node,      \* the elements of the CIF
          Root,      \* the CIF itself
          Kind,      \* "cif", "block", "frame", "loop", "packet" or "item"
          Children,  \* of each, in the order of traversal: frames before loops
          Fault      \* the result code of a library call that fails

Kinds == {"cif", "block", "frame", "loop", "packet", "item"}

\* The navigation codes of cif.h; CONTINUE is CIF_OK
Directions == {"CONTINUE", "SKIP_CURRENT", "SKIP_SIBLINGS", "END"}

\* What a handler may answer: a direction or an error code of its own
Answers == Directions \cup {"error"}

\* What the elements of a kind consist of
Parts(kind) ==
    CASE kind = "cif"                -> {"block"}
      [] kind \in {"block", "frame"} -> {"frame", "loop"}
      [] kind = "loop"               -> {"packet"}
      [] kind = "packet"             -> {"item"}
      [] kind = "item"               -> {}

ASSUME TreeAssumption ==
    /\ Kind \in [Node -> Kinds]
    /\ Root \in Node /\ Kind[Root] = "cif"
    /\ Children \in [Node -> Seq(Node)]
    /\ \A n \in Node : \A i \in DOMAIN Children[n] :
          Kind[Children[n][i]] \in Parts(Kind[n])
    /\ \A n \in Node : \A i, j \in DOMAIN Children[n] :
          i < j /\ Kind[Children[n][j]] = "frame" => Kind[Children[n][i]] = "frame"
    /\ \A m, n \in Node : \A i \in DOMAIN Children[m], j \in DOMAIN Children[n] :
          Children[m][i] = Children[n][j] => m = n /\ i = j
    /\ Fault \notin Answers \cup {"none", "CIF_OK", "CIF_EMPTY_LOOP"}

VARIABLES stack,     \* activations: a node and the index of its next child,
                     \* 0 before the start handler is called
          returned,  \* what the function just left returned, or "none"
          open,      \* loops that have a packet iterator open
          said,      \* the answers of the handlers called so far
          result     \* what cif_walk returned, or "none"

vars == <<stack, returned, open, said, result>>

Init == /\ stack = <<[node |-> Root, next |-> 0]>>
        /\ returned = "none"
        /\ open = {}
        /\ said = [c \in {} |-> "CONTINUE"]
        /\ result = "none"

Top  == stack[Len(stack)]
Here == Top.node

\* The next activation starts, or goes on after, a child of the innermost node.
AtChild(i) == stack' = [stack EXCEPT ![Len(stack)].next = i]

\* Mutation: the direction that ended the walk is returned.
Untranslated(code) == code

\* cif_walk translates directions to CIF_OK
Translated(code) == IF code \in Directions THEN "CIF_OK" ELSE code

\* Mutation: the iterator is left to the end of the packets to be closed.
ReturnLeavingOpen(code) ==
    /\ stack' = SubSeq(stack, 1, Len(stack) - 1)
    /\ UNCHANGED open
    /\ IF Here = Root
       THEN result' = Translated(code) /\ returned' = "none"
       ELSE returned' = code /\ UNCHANGED result

\* The innermost function returns code, closing its iterator if it has one.
Return(code) ==
    /\ stack' = SubSeq(stack, 1, Len(stack) - 1)
    /\ open' = open \ {Here}
    /\ IF Here = Root
       THEN result' = Translated(code) /\ returned' = "none"
       ELSE returned' = code /\ UNCHANGED result

Hears(handler, answer) ==
    said' = [c \in DOMAIN said \cup {<<handler, Here>>} |->
               IF c = <<handler, Here>> THEN answer ELSE said[c]]

Walking == stack # <<>> /\ returned = "none"

Last == Len(Children[Here])

\* Mutation: the list of frames is gone through anew.
FirstFrame == 1

FirstLoop == 1 + Cardinality({i \in 1..Last : Kind[Children[Here][i]] = "frame"})

-----------------------------------------------------------------------------
\* The start handler, or the only one of an item
CallStart ==
    /\ Walking /\ Top.next = 0
    /\ \E a \in Answers :
          /\ Hears("start", a)
          /\ IF a = "CONTINUE" /\ Kind[Here] # "item"
             THEN AtChild(1) /\ UNCHANGED <<returned, open, result>>
             ELSE Return(a)

NeedsPackets == Kind[Here] = "loop" /\ Here \notin open

\* cif_loop_get_packets, which fails for a loop without packets
GetPackets ==
    /\ Walking /\ Top.next = 1 /\ NeedsPackets
    /\ IF Last = 0
       THEN Return("CIF_EMPTY_LOOP")
       ELSE open' = open \cup {Here} /\ UNCHANGED <<stack, returned, result>>
    /\ UNCHANGED said

WalkChild ==
    /\ Walking /\ Top.next \in 1..Last /\ ~ NeedsPackets
    /\ stack' = Append(stack, [node |-> Children[Here][Top.next], next |-> 0])
    /\ UNCHANGED <<returned, open, said, result>>

\* Mutation: the case label for SKIP_CURRENT is forgotten.
OnlyContinueGoesOn(code) == code = "CONTINUE"

GoesOn(code) == code \in {"CONTINUE", "SKIP_CURRENT"}

\* Mutation: skipping a frame's siblings skips the loops as well.
SkipsNoFrames(child) == FALSE

\* Loops are not siblings of save frames.
SkipsFramesOnly(child) == Kind[child] = "frame"

\* What a function does with the code its child returned.  Where siblings are
\* skipped, so is the end handler, but for that of a frame's container.
ChildReturned ==
    /\ stack # <<>> /\ returned # "none"
    /\ LET child == Children[Here][Top.next]
       IN  \/ /\ GoesOn(returned)
              /\ AtChild(Top.next + 1)
              /\ returned' = "none"
              /\ UNCHANGED <<open, result>>
           \/ /\ returned = "SKIP_SIBLINGS" /\ SkipsFramesOnly(child)
              /\ AtChild(FirstLoop)
              /\ returned' = "none"
              /\ UNCHANGED <<open, result>>
           \/ /\ returned = "SKIP_SIBLINGS" /\ ~ SkipsFramesOnly(child)
              /\ Return("CONTINUE")
           \/ /\ ~ GoesOn(returned) /\ returned # "SKIP_SIBLINGS"
              /\ Return(returned)
    /\ UNCHANGED said

\* A loop's iterator is closed before its end handler is called.
CallEnd ==
    /\ Walking /\ Top.next = Last + 1 /\ ~ NeedsPackets
    /\ \E a \in Answers : Hears("end", a) /\ Return(a)

\* Where a function calls the library: get_all_blocks; get_all_frames and then
\* get_all_loops; get_packets, next_packet and close
CallsLibrary ==
    CASE Kind[Here] = "cif"               -> Top.next = 1
      [] Kind[Here] \in {"block", "frame"} -> Top.next \in {1, FirstLoop}
      [] Kind[Here] = "loop"              -> Top.next > 0
      [] Kind[Here] \in {"packet", "item"} -> FALSE

LibraryFails ==
    /\ Walking /\ CallsLibrary
    /\ Return(Fault)
    /\ UNCHANGED said

Next == CallStart \/ GetPackets \/ WalkChild \/ ChildReturned \/ CallEnd
        \/ LibraryFails

\* The walk runs on until cif_walk returns, as handlers do return.
Spec == Init /\ [][Next]_vars /\ WF_vars(Next)

-----------------------------------------------------------------------------
(* Properties. *)

Started(n) == <<"start", n>> \in DOMAIN said
Ended(n)   == <<"end", n>> \in DOMAIN said
Entered(n) == Started(n) /\ said[<<"start", n>>] = "CONTINUE"

Said(a) == \E c \in DOMAIN said : said[c] = a

SaidOf(n, a) == \E h \in {"start", "end"} : <<h, n>> \in DOMAIN said
                                             /\ said[<<h, n>>] = a

\* "loops are not considered siblings of save frames"
Siblings(m, n) == (Kind[m] = "frame") = (Kind[n] = "frame")

RunToTheEnd == result = "CIF_OK" /\ ~ Said("END")

\* When neither END, an error nor a failure cuts the walk short, its handlers
\* are called for exactly the elements that their answers leave: the children
\* of an element answered CONTINUE, up to the first whose handlers say to skip
\* its siblings.
VisitedAsDirected ==
    RunToTheEnd =>
        \A p \in Node : \A i \in DOMAIN Children[p] :
            Started(Children[p][i]) <=>
                /\ Entered(p)
                /\ \A j \in 1..(i - 1) :
                      Siblings(Children[p][j], Children[p][i])
                         => ~ SaidOf(Children[p][j], "SKIP_SIBLINGS")

\* Likewise the end handler of an element is called only if the element was
\* entered, and it is called if all of its children were gone through, where
\* skipping the rest of its frames counts as having gone through them.  Open is
\* the case that other siblings were skipped: the walk is then to "proceed along
\* the normal path" (cif.h:569), but cif_walk and the functions it is made of leave
\* out the parent's end handler.
EndedAsDirected ==
    RunToTheEnd =>
        \A p \in Node : Kind[p] # "item" =>
            /\ Ended(p) => Entered(p)
            /\ /\ Entered(p)
               /\ \A i \in DOMAIN Children[p] :
                     Kind[Children[p][i]] # "frame"
                        => ~ SaidOf(Children[p][i], "SKIP_SIBLINGS")
               => Ended(p)

\* What cif_walk returns is CIF_OK exactly when the walk went as the handlers
\* directed; the first error, of a handler or of the library, is forwarded
\* unless a handler said END before.
ResultAsAnswered ==
    result # "none" =>
        /\ result = "error" <=> Said("error")
        /\ Said("END") => result = "CIF_OK"
        /\ result \in {"CIF_OK", "error", "CIF_EMPTY_LOOP", Fault}

\* No packet iterator, and so no transaction, is left open by a walk, however
\* it ends; and as no two can be open, none is ever open when the next loop's
\* is opened.
IteratorsClosed ==
    /\ Cardinality(open) <= 1
    /\ \A l \in open : \E i \in DOMAIN stack : stack[i].node = l
    /\ result # "none" => open = {}

\* Every walk comes to an end, whatever the handlers answer.
WalkReturns == <>(result # "none")
=============================================================================
