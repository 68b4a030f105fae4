------------------------------- MODULE CifParse -------------------------------
(***************************************************************************)
(* The productions of parser.c: parse_cif, parse_container, parse_item,    *)
(* parse_loop and its parts, over the tokens the scanner delivers, with    *)
(* the recoveries from every error the application chooses to go on after, *)
(* and with its handlers, whose directions are kept in skip_depth.         *)
(*                                                                         *)
(* A value is one token (parse_value calls no handler); a token that the   *)
(* scanner repairs is the token it becomes, and scanning may fail at any   *)
(* token: of input, or because the error callback says so.  An activation  *)
(* is left at once when something has gone wrong in it, as is the one it   *)
(* returns to, and so on: Abort leaves them all.                           *)
(***************************************************************************)
EXTENDS Integers, Sequences, FiniteSets

CONSTANTS Code,         \* block and frame codes in the input
          ValidCode,    \* those that the library accepts
          Name,         \* data names in the input
          ValidName,    \* those that the library accepts
          Anonymous,    \* the code of the block made for content without one
          NoPath,       \* stands for a container handle that is NULL
          NoName,       \* stands for a name that is NULL: of an item that is
                        \* read only to be dropped, of a duplicate in a header
          FrameDepths,  \* settings of max_frame_depth; 0 and 1 are limits
          SkippedSkips, \* item handlers answer SKIP_SIBLINGS in skipped loops
          Budget,       \* bound: the tokens of the input together with the
                        \* handlers' answers other than CONTINUE
          MaxColumns    \* bound: the names in a loop header

Directions == {"CONTINUE", "SKIP_CURRENT", "SKIP_SIBLINGS", "END"}

\* What a handler may answer: a direction or an error code of its own
Answers == Directions \cup {"error"}

Tokens(kind, texts) == {[kind |-> kind, text |-> t] : t \in texts}

\* A data name, "loop_", a value, "]" or "}", "save_": the tokens of the input
Token == Tokens("BLOCK_HEAD", Code) \cup Tokens("FRAME_HEAD", Code)
         \cup Tokens("NAME", Name)
         \cup {[kind |-> k, text |-> ""] :
                  k \in {"LOOPKW", "VALUE", "CLOSE", "FRAME_TERM"}}

End     == [kind |-> "END", text |-> ""]
NoToken == [kind |-> "none", text |-> ""]

ASSUME ParseAssumption ==
    /\ ValidCode \subseteq Code /\ ValidName \subseteq Name
    /\ Anonymous \notin Code
    /\ NoName \notin Name
    /\ FrameDepths \subseteq Int
    /\ SkippedSkips \in BOOLEAN
    /\ Budget \in Nat /\ MaxColumns \in Nat

VARIABLES
    options,     \* storing: a CIF is filled (or syntax is checked only);
                 \* max_frame_depth
    token,       \* the token scanned and not consumed, or NoToken
    left,        \* what is left of the budget
    stack,       \* the activations of the productions
    skip_depth,
    cif,         \* what has been stored: containers, items, and of these the
                 \* empty ones, whose loop has no packet
    levels,      \* for each element under way, from the CIF inwards (a ghost):
                 \* whether its start handler was called and whether, by the
                 \* handlers' answers, what is in it is to be passed over
    event,       \* what happened in the last step: the handler (or error
                 \* callback) called, the cells of the packet stored
    result       \* what the parse returned, or "none"

vars == <<options, token, left, stack, skip_depth, cif, levels, event, result>>

Depth == Len(stack)
Top   == stack[Depth]

Level(begun, quiet) == [begun |-> begun, quiet |-> quiet]
Innermost == levels[Len(levels)]

Event(call) == [call |-> call, packet |-> <<>>]

NoEvent == Event(<<"none">>)

\* The error callback says that the parse is to be abandoned.
Refusal == Event(<<"error">>)

\* The limit is not looked at if nothing is stored.
Init == /\ options \in [storing : {TRUE}, max_frame_depth : FrameDepths]
                      \cup {[storing |-> FALSE, max_frame_depth |-> 0]}
        /\ token = NoToken
        /\ left = Budget
        /\ stack = <<[fn |-> "cif", pc |-> "start"]>>
        /\ skip_depth = 0
        /\ cif = [containers |-> {}, items |-> {}, empty |-> {}]
        /\ levels = <<>>
        /\ event = NoEvent
        /\ result = "none"

-----------------------------------------------------------------------------
(* Steps are made of these. *)

Goto(pc) == stack' = [stack EXCEPT ![Depth].pc = pc]

Return == stack' = SubSeq(stack, 1, Depth - 1)

Consume == token' = NoToken

\* The productions return, one after the other, with a code that is not OK;
\* directions are translated for the caller of the parser.
AbortAfter(code, c) ==
    /\ stack' = <<>>
    /\ result' = IF code \in Directions THEN "CIF_OK" ELSE code
    /\ cif' = c
    /\ UNCHANGED <<options, token, skip_depth, levels>>

Abort(code) == AbortAfter(code, cif)

Silently == event' = NoEvent /\ UNCHANGED left

Turns(answer) ==
    /\ answer # "CONTINUE" => left > 0
    /\ left' = IF answer = "CONTINUE" THEN left ELSE left - 1

\* A handler is called.
Asks(handler, answer) == Turns(answer) /\ event' = Event(handler)

GivesUp == Abort("error") /\ event' = Refusal /\ UNCHANGED left

Stops(answer) == answer \in {"END", "error"}

Skips(answer) == answer \in {"SKIP_CURRENT", "SKIP_SIBLINGS"}

\* The levels when the element entered last has its start handler's answer:
\* an element is passed over if so is what it is in.
Begun(lv, answer) ==
    LET n == Len(lv)
    IN  [lv EXCEPT ![n] = Level(TRUE, lv[n].quiet \/ Skips(answer)),
                   ![n - 1].quiet = @ \/ answer = "SKIP_SIBLINGS"]

\* The levels when an element ends or, for an item, is all there is of it
Ended(lv, answer) ==
    [lv EXCEPT ![Len(lv)].quiet = @ \/ answer = "SKIP_SIBLINGS"]

Outer == SubSeq(levels, 1, Len(levels) - 1)

Inner == Append(levels, Level(FALSE, Innermost.quiet))

\* Mutation: one level less.
SkipFewer(answer) == IF answer = "CONTINUE" THEN 0 ELSE 1

\* skip_depth as the start handler of an element sets it
SkipAfter(answer) == CASE answer = "SKIP_CURRENT"  -> 1
                       [] answer = "SKIP_SIBLINGS" -> 2
                       [] OTHER                    -> 0

\* Mutation: the answer is not acted upon.
SkipRestNot(answer) == 0

\* skip_depth as an end handler sets it
SkipRest(answer) == IF answer = "SKIP_SIBLINGS" THEN 1 ELSE 0

\* Mutation: an element that was skipped as a whole counts as not entered.
ShallowerTwice == IF skip_depth > 1 THEN skip_depth - 2 ELSE 0

\* skip_depth when an element is left, and when one is entered
Shallower == IF skip_depth > 0 THEN skip_depth - 1 ELSE 0

Deeper == IF skip_depth > 0 THEN skip_depth + 1 ELSE 0

-----------------------------------------------------------------------------
(* The scanner. *)

\* next_token, wherever a production needs a token; all look for one at "body"
Scan == /\ Depth > 0 /\ Top.pc = "body" /\ token = NoToken
        /\ \/ \E t \in Token :
                 /\ left > 0
                 /\ (Top.fn = "header" /\ Len(Top.columns) = MaxColumns)
                       => t.kind # "NAME"
                 /\ token' = t /\ left' = left - 1
           \/ token' = End /\ UNCHANGED left
        /\ event' = NoEvent
        /\ UNCHANGED <<options, stack, skip_depth, cif, levels, result>>

ScanFails == Depth > 0 /\ Top.pc = "body" /\ token = NoToken /\ GivesUp

At(fn, kinds) == /\ Depth > 0 /\ Top.fn = fn /\ Top.pc = "body"
                 /\ token.kind \in kinds

-----------------------------------------------------------------------------
(* The CIF: parse_cif. *)

CifStart ==
    /\ Depth > 0 /\ Top.fn = "cif" /\ Top.pc = "start"
    /\ \E a \in Answers :
          /\ Asks(<<"cif", "start">>, a)
          /\ \/ Stops(a) /\ Abort(a)
             \/ /\ ~ Stops(a)
                /\ skip_depth' = IF Skips(a) THEN 1 ELSE 0
                /\ levels' = <<Level(TRUE, Skips(a))>>
                /\ Goto("body")
                /\ UNCHANGED <<options, token, cif, result>>

Container(path) == [fn |-> "container", pc |-> "start", path |-> path]

\* A block or frame is made, or found, and parsed unless it is only checked.
EnterContainer(path, make) ==
    /\ stack' = Append(stack, Container(IF make THEN path ELSE NoPath))
    /\ cif' = IF make THEN [cif EXCEPT !.containers = @ \cup {path}] ELSE cif
    /\ Silently
    /\ UNCHANGED <<options, skip_depth, levels, result>>

Objectionable(path) == path[Len(path)] \notin ValidCode \/ path \in cif.containers

\* An invalid code is used, and a duplicate one leads to the block there is,
\* if the error callback agrees.
BlockHead ==
    /\ At("cif", {"BLOCK_HEAD"})
    /\ LET path == <<token.text>>
           make == options.storing /\ skip_depth = 0
       IN  \/ make /\ Objectionable(path) /\ GivesUp
           \/ Consume /\ EnterContainer(path, make)

\* Content without a block header goes to an anonymous block.
NoBlockHeader ==
    /\ At("cif", {"FRAME_HEAD", "FRAME_TERM", "LOOPKW", "NAME", "VALUE", "CLOSE"})
    /\ \/ GivesUp
       \/ /\ EnterContainer(<<Anonymous>>, options.storing /\ skip_depth = 0)
          /\ UNCHANGED token

\* The end handler is called also if all of the CIF was skipped.
CifEnd ==
    /\ At("cif", {"END"})
    /\ \E a \in Answers :
          /\ Asks(<<"cif", "end">>, a)
          /\ result' = IF a \in Directions THEN "CIF_OK" ELSE a
    /\ skip_depth' = Shallower
    /\ stack' = <<>>
    /\ levels' = <<>>
    /\ UNCHANGED <<options, token, cif>>

-----------------------------------------------------------------------------
(* Blocks and frames: parse_container. *)

IsBlock == Depth = 2

Kind == IF IsBlock THEN "block" ELSE "frame"

ContainerStart ==
    /\ Depth > 0 /\ Top.fn = "container" /\ Top.pc = "start"
    /\ \/ /\ skip_depth > 0
          /\ skip_depth' = Deeper
          /\ levels' = Inner
          /\ Goto("body")
          /\ Silently
          /\ UNCHANGED <<options, token, cif, result>>
       \/ /\ skip_depth = 0
          /\ \E a \in Answers :
                /\ Asks(<<Kind, "start">>, a)
                /\ \/ Stops(a) /\ Abort(a)
                   \/ /\ ~ Stops(a)
                      /\ skip_depth' = SkipAfter(a)
                      /\ levels' = Begun(Inner, a)
                      /\ Goto("body")
                      /\ UNCHANGED <<options, token, cif, result>>

\* The container ends where it is terminated or a block header or the end of
\* the input is found; in a frame these are errors.
ContainerBodyEnds ==
    \/ /\ At("container", {"BLOCK_HEAD", "END"})
       /\ \/ ~ IsBlock /\ GivesUp
          \/ /\ Goto("end") /\ Silently
             /\ UNCHANGED <<options, token, skip_depth, cif, levels, result>>
    \/ /\ At("container", {"FRAME_TERM"}) /\ ~ IsBlock
       /\ Goto("end") /\ Consume /\ Silently
       /\ UNCHANGED <<options, skip_depth, cif, levels, result>>

\* What does not belong in a block is dropped.
StrayToken ==
    /\ \/ At("container", {"CLOSE"})
       \/ At("container", {"FRAME_TERM"}) /\ IsBlock
       \/ At("loop", {"CLOSE"})
    /\ \/ GivesUp
       \/ /\ Consume /\ Silently
          /\ UNCHANGED <<options, stack, skip_depth, cif, levels, result>>

\* Frames are limited where the container is stored.
Limited == Top.path # NoPath /\ skip_depth = 0

NotAllowed == options.max_frame_depth = 0

TooDeep == options.max_frame_depth = 1 /\ ~ IsBlock

\* A frame in a frame where there must be none: the missing terminator is
\* assumed.
FrameEndsFrame ==
    /\ At("container", {"FRAME_HEAD"})
    /\ Limited /\ ~ IsBlock /\ (NotAllowed \/ TooDeep)
    /\ \/ GivesUp
       \/ /\ Goto("end") /\ Silently
          /\ UNCHANGED <<options, token, skip_depth, cif, levels, result>>

\* In a block frames are then allowed after all, whatever the callback says
\* (its answer is overwritten).
FrameHead ==
    /\ At("container", {"FRAME_HEAD"})
    /\ LET path == IF Limited THEN Append(Top.path, token.text) ELSE <<token.text>>
       IN  /\ ~ (Limited /\ ~ IsBlock /\ (NotAllowed \/ TooDeep))
           /\ \/ Limited /\ Objectionable(path) /\ GivesUp
              \/ /\ Consume
                 /\ stack' = Append(stack, Container(IF Limited THEN path ELSE NoPath))
                 /\ cif' = IF Limited
                           THEN [cif EXCEPT !.containers = @ \cup {path}] ELSE cif
                 /\ \/ Silently
                    \/ /\ Limited /\ NotAllowed
                       /\ event' = Refusal
                       /\ UNCHANGED left
                 /\ UNCHANGED <<options, skip_depth, levels, result>>

\* Mutation: a container is not pruned if something in it was skipped.
PrunedUnskipped(c, path) ==
    IF skip_depth > 0 THEN c
    ELSE LET gone == {e \in c.empty : e[1] = path}
         IN  [c EXCEPT !.items = @ \ gone, !.empty = @ \ gone]

\* cif_container_prune
Pruned(c, path) ==
    LET gone == {e \in c.empty : e[1] = path}
    IN  [c EXCEPT !.items = @ \ gone, !.empty = @ \ gone]

\* Loops that have got no packet are pruned.  The end handler is called also
\* for a container that its start handler said to skip.
ContainerEnd ==
    /\ Depth > 0 /\ Top.fn = "container" /\ Top.pc = "end"
    /\ \/ /\ Shallower > 0
          /\ skip_depth' = Shallower
          /\ levels' = Outer
          /\ Return
          /\ Silently
          /\ UNCHANGED <<options, token, cif, result>>
       \/ /\ Shallower = 0
          /\ \E a \in Answers :
                /\ Asks(<<Kind, "end">>, a)
                /\ \/ Stops(a) /\ AbortAfter(a, Pruned(cif, Top.path))
                   \/ /\ ~ Stops(a)
                      /\ cif' = Pruned(cif, Top.path)
                      /\ skip_depth' = SkipRest(a)
                      /\ levels' = Ended(Outer, a)
                      /\ Return
                      /\ UNCHANGED <<options, token, result>>

-----------------------------------------------------------------------------
(* Items and loops in a container: parse_container, parse_item. *)

Item(path, name) ==
    [fn |-> "item", pc |-> "body", path |-> path,
     name |-> IF path = NoPath THEN NoName ELSE name]

EnterItem(name) ==
    /\ stack' = Append(stack, Item(Top.path, name))
    /\ Silently
    /\ UNCHANGED <<options, skip_depth, cif, levels, result>>

Declared(path, name) == <<path, name>> \in cif.items

ItemName ==
    /\ At("container", {"NAME"})
    /\ LET duplicate == skip_depth = 0 /\ Declared(Top.path, token.text)
       IN  \/ duplicate /\ GivesUp
           \/ /\ EnterItem(IF duplicate \/ skip_depth > 0 THEN NoName ELSE token.text)
              /\ Consume

\* A value without a name is read as that of an item to be dropped.
StrayValue ==
    /\ At("container", {"VALUE"})
    /\ \/ GivesUp
       \/ EnterItem(NoName) /\ UNCHANGED token

LoopKeyword ==
    /\ At("container", {"LOOPKW"})
    /\ stack' = Append(stack, [fn |-> "header", pc |-> "body", path |-> Top.path,
                               columns |-> <<>>])
    /\ skip_depth' = Deeper
    /\ levels' = Inner
    /\ Consume
    /\ Silently
    /\ UNCHANGED <<options, cif, result>>

\* Mutation: the value is left for the caller.
TakingNot == UNCHANGED token

Taking == Consume

\* The value is read, which may fail; if there is none an unknown one is made
\* up, if the error callback agrees.
ItemValue ==
    /\ Depth > 0 /\ Top.fn = "item" /\ Top.pc = "body" /\ token # NoToken
    /\ \/ GivesUp
       \/ /\ IF token.kind = "VALUE" THEN Taking ELSE UNCHANGED token
          /\ IF Top.name = NoName THEN Return ELSE Goto("handle")
          /\ Silently
          /\ UNCHANGED <<options, skip_depth, cif, levels, result>>

\* The handler is asked and the value stored.
HandleItem ==
    /\ Depth > 0 /\ Top.fn = "item" /\ Top.pc = "handle"
    /\ \E a \in Answers :
          /\ Asks(<<"item">>, a)
          /\ \/ Stops(a) /\ Abort(a)
             \/ /\ a = "CONTINUE" /\ Top.name \notin ValidName
                /\ Abort("CIF_INVALID_ITEMNAME")
             \/ /\ a = "CONTINUE" /\ Top.name \in ValidName
                /\ cif' = [cif EXCEPT !.items = @ \cup {<<Top.path, Top.name>>}]
                /\ Return
                /\ UNCHANGED <<options, token, skip_depth, levels, result>>
             \/ /\ Skips(a)
                /\ skip_depth' = SkipRest(a)
                /\ levels' = Ended(levels, a)
                /\ Return
                /\ UNCHANGED <<options, token, cif, result>>

-----------------------------------------------------------------------------
(* The header of a loop: parse_loop_header. *)

\* A duplicate name keeps its place in the header, if the error callback
\* agrees; the names are compared with those of the container only.
HeaderName ==
    /\ At("header", {"NAME"})
    /\ LET duplicate == Declared(Top.path, token.text)
           column == IF duplicate THEN NoName ELSE token.text
       IN  \/ duplicate /\ GivesUp
           \/ /\ stack' = [stack EXCEPT ![Depth].columns = Append(@, column)]
              /\ Consume
              /\ Silently
              /\ UNCHANGED <<options, skip_depth, cif, levels, result>>

\* col: the column to be read, 0 between packets; cells: where the packet's
\* values come from; any: there was a packet before
Loop(pc) == [fn |-> "loop", pc |-> pc, path |-> Top.path, columns |-> Top.columns,
             names |-> {}, col |-> 0, any |-> FALSE,
             cells |-> [k \in DOMAIN Top.columns |->
                          IF Top.columns[k] = NoName THEN "dropped" ELSE "unknown"]]

\* A loop without names is ignored if the error callback agrees.
HeaderEnds ==
    /\ Depth > 0 /\ Top.fn = "header" /\ token.kind \notin {"none", "NAME"}
    /\ \/ Top.columns = <<>> /\ GivesUp
       \/ /\ stack' = [stack EXCEPT ![Depth] =
                         Loop(IF Top.columns = <<>> THEN "end" ELSE "start")]
          /\ Silently
          /\ UNCHANGED <<options, token, skip_depth, cif, levels, result>>

-----------------------------------------------------------------------------
(* The body of a loop: parse_loop and parse_loop_packets. *)

\* The columns whose names go into the array that the loop is made from
Kept(columns) == {k \in DOMAIN columns : columns[k] # NoName}

NamesOf(columns) == {columns[k] : k \in Kept(columns)}

Valid(columns) == NamesOf(columns) \subseteq ValidName

Distinct(columns) == \A j, k \in Kept(columns) : columns[j] = columns[k] => j = k

Items(names) == {<<Top.path, n>> : n \in names}

\* The loop is made, if it is not only checked, and its packets are read.
EnterBody(names) ==
    /\ stack' = [stack EXCEPT ![Depth].pc = "body", ![Depth].names = names]
    /\ cif' = [cif EXCEPT !.items = @ \cup Items(names), !.empty = @ \cup Items(names)]
    /\ UNCHANGED <<options, token, result>>

SkippedLoopStart ==
    /\ Depth > 0 /\ Top.fn = "loop" /\ Top.pc = "start" /\ skip_depth > 0
    /\ Silently
    /\ IF Valid(Top.columns)
       THEN EnterBody({}) /\ UNCHANGED <<skip_depth, levels>>
       ELSE Abort("CIF_INVALID_ITEMNAME")

\* The loop is made if the handler says to go on; an error it answers is
\* forgotten as the result is overwritten with that of reading the packets,
\* which begins with making a packet of the names.
LoopStart ==
    /\ Depth > 0 /\ Top.fn = "loop" /\ Top.pc = "start" /\ skip_depth = 0
    /\ \E a \in Answers :
          LET columns == Top.columns
              make    == a = "CONTINUE" /\ Top.path # NoPath
          IN  /\ Asks(<<"loop", "start">>, a)
              /\ \/ a = "END" /\ Abort(a)
                 \/ /\ make /\ ~ (Valid(columns) /\ Distinct(columns))
                    /\ Abort("CIF_INTERNAL_ERROR")
                 \/ /\ a # "END" /\ ~ make /\ ~ Valid(columns)
                    /\ Abort("CIF_INVALID_ITEMNAME")
                 \/ /\ a # "END" /\ Valid(columns) /\ (make => Distinct(columns))
                    /\ EnterBody(IF make THEN NamesOf(columns) ELSE {})
                    /\ skip_depth' = SkipAfter(a)
                    /\ levels' = Begun(levels, a)

\* The first value of a packet is found; an error the handler answers is
\* forgotten as the result is overwritten with that of reading the value.
PacketStart ==
    /\ At("loop", {"VALUE"}) /\ Top.col = 0
    /\ \/ /\ skip_depth > 0
          /\ skip_depth' = Deeper
          /\ levels' = Inner
          /\ Silently
          /\ stack' = [stack EXCEPT ![Depth].col = 1]
          /\ UNCHANGED <<options, token, cif, result>>
       \/ /\ skip_depth = 0
          /\ \E a \in Answers :
                /\ Asks(<<"packet", "start">>, a)
                /\ \/ a = "END" /\ Abort(a)
                   \/ /\ a # "END"
                      /\ skip_depth' = SkipAfter(a)
                      /\ levels' = Begun(Inner, a)
                      /\ stack' = [stack EXCEPT ![Depth].col = 1]
                      /\ UNCHANGED <<options, token, cif, result>>

\* The value is read, which may fail.  The item handler is asked in what is
\* skipped, too.
PacketItem ==
    /\ At("loop", {"VALUE"}) /\ Top.col > 0
    /\ \/ GivesUp
       \/ \E a \in Answers :
          /\ (a = "SKIP_SIBLINGS" /\ skip_depth > 1) => SkippedSkips
          /\ Asks(<<"item">>, a)
          /\ \/ Stops(a) /\ Abort(a)
             \/ /\ ~ Stops(a)
                /\ Consume
                /\ skip_depth' = IF a = "SKIP_SIBLINGS" THEN 1 ELSE skip_depth
                /\ levels' = Ended(levels, a)
                /\ stack' = [stack EXCEPT
                     ![Depth].cells[Top.col] = IF @ = "dropped" THEN @ ELSE "new",
                     ![Depth].col = IF @ = Len(Top.columns) THEN @ ELSE @ + 1,
                     ![Depth].pc  = IF Top.col = Len(Top.columns) THEN "packet_end"
                                                                  ELSE "body"]
                /\ UNCHANGED <<options, cif, result>>

\* Mutation: the first column without a value is passed over.
ResetsFewer(k) == k > Top.col /\ k <= Cardinality(Kept(Top.columns))

\* The columns the recovery is sure to set to the unknown value: those without
\* a value that have a name at their own place in the names kept
Resets(k) == k >= Top.col /\ k <= Cardinality(Kept(Top.columns))

\* Beyond the name that ends those kept the array is not initialized, and what
\* is found there decides.
MayReset(k) == k >= Top.col /\ k > Cardinality(Kept(Top.columns)) + 1

\* The values of a packet end before its last column.
PartialPacket ==
    /\ Depth > 0 /\ Top.fn = "loop" /\ Top.pc = "body" /\ Top.col > 0
    /\ token.kind \notin {"none", "VALUE", "CLOSE"}
    /\ \/ GivesUp
       \/ /\ \E also \in SUBSET {k \in DOMAIN Top.columns : MayReset(k)} :
                stack' = [stack EXCEPT
                  ![Depth].pc = "packet_end",
                  ![Depth].cells = [k \in DOMAIN @ |->
                     IF @[k] # "dropped" /\ (Resets(k) \/ k \in also)
                     THEN "unknown" ELSE @[k]]]
          /\ Silently
          /\ UNCHANGED <<options, token, skip_depth, cif, levels, result>>

\* The next packet is read into the same values.  The loop ends with a packet
\* that was not complete: its last token is still there.
AfterPacket ==
    stack' = [stack EXCEPT
      ![Depth].pc = IF token = NoToken THEN "body" ELSE "end",
      ![Depth].col = 0,
      ![Depth].any = TRUE,
      ![Depth].cells = [k \in DOMAIN @ |-> IF @[k] = "new" THEN "old" ELSE @[k]]]

\* A packet is stored if its end handler says to go on.
PacketEnd ==
    /\ Depth > 0 /\ Top.fn = "loop" /\ Top.pc = "packet_end"
    /\ \/ /\ skip_depth > 0
          /\ skip_depth' = Shallower
          /\ levels' = Outer
          /\ AfterPacket
          /\ Silently
          /\ UNCHANGED <<options, token, cif, result>>
       \/ /\ skip_depth = 0
          /\ \E a \in Answers :
                LET stores == a = "CONTINUE" /\ Top.names # {}
                IN  /\ Turns(a)
                    /\ event' = [Event(<<"packet", "end">>) EXCEPT
                                   !.packet = IF stores THEN Top.cells ELSE @]
                    /\ \/ Stops(a) /\ Abort(a)
                       \/ /\ ~ Stops(a)
                          /\ cif' = IF stores THEN [cif EXCEPT !.empty = @ \ Items(Top.names)]
                                              ELSE cif
                          /\ skip_depth' = SkipRest(a)
                          /\ levels' = Ended(Outer, a)
                          /\ AfterPacket
                          /\ UNCHANGED <<options, token, result>>

\* Any other token ends the packets; that there are none is an error.
PacketsEnd ==
    /\ Depth > 0 /\ Top.fn = "loop" /\ Top.pc = "body" /\ Top.col = 0
    /\ token.kind \notin {"none", "VALUE", "CLOSE"}
    /\ \/ ~ Top.any /\ GivesUp
       \/ /\ Goto("end") /\ Silently
          /\ UNCHANGED <<options, token, skip_depth, cif, levels, result>>

\* The end handler is called also for a loop that has no names, and not for
\* one that its start handler said to skip.
LoopEnd ==
    /\ Depth > 0 /\ Top.fn = "loop" /\ Top.pc = "end"
    /\ \/ /\ skip_depth > 0
          /\ skip_depth' = Shallower
          /\ levels' = Outer
          /\ Return
          /\ Silently
          /\ UNCHANGED <<options, token, cif, result>>
       \/ /\ skip_depth = 0
          /\ \E a \in Answers :
                /\ Asks(<<"loop", "end">>, a)
                /\ \/ Stops(a) /\ Abort(a)
                   \/ /\ ~ Stops(a)
                      /\ skip_depth' = SkipRest(a)
                      /\ levels' = Ended(Outer, a)
                      /\ Return
                      /\ UNCHANGED <<options, token, cif, result>>

-----------------------------------------------------------------------------
Returned == stack = <<>> /\ UNCHANGED vars

Next == \/ Scan \/ ScanFails
        \/ CifStart \/ BlockHead \/ NoBlockHeader \/ CifEnd
        \/ ContainerStart \/ ContainerBodyEnds \/ StrayToken
        \/ FrameEndsFrame \/ FrameHead \/ ContainerEnd
        \/ ItemName \/ StrayValue \/ ItemValue \/ HandleItem
        \/ LoopKeyword \/ HeaderName \/ HeaderEnds
        \/ SkippedLoopStart \/ LoopStart \/ PacketStart \/ PacketItem
        \/ PartialPacket \/ PacketEnd \/ PacketsEnd \/ LoopEnd
        \/ Returned

\* The parser runs in the application's thread until it returns.
Spec == Init /\ [][Next]_vars /\ WF_vars(Next)

-----------------------------------------------------------------------------
\* skip_depth, counted up and down at a dozen places of parser.c, always says
\* how many of the elements under way, from the innermost outwards, are passed
\* over as the handlers directed: no error recovery, and no way out of an
\* element, leaves it one too high or too low.
SkipDepthExact ==
    \A k \in DOMAIN levels : levels[k].quiet <=> k > Len(levels) - skip_depth

\* An end handler is called for an element whose start handler was called; the
\* exception is a loop without names, whose start handler is not called.
EndsWereStarted ==
    [][(stack # <<>> /\ Len(event'.call) = 2 /\ event'.call[2] = "end")
         => \/ Innermost.begun
            \/ Top.fn = "loop" /\ Top.columns = <<>>]_vars

\* Nothing is stored while an element under way is to be passed over.
SkippedNotStored ==
    [][(cif'.items \ cif.items # {} \/ cif'.containers # cif.containers)
         => \A k \in DOMAIN levels : ~ levels'[k].quiet]_vars

\* A packet stored holds no value of an earlier packet, into whose values it
\* was read, and no value after a missing one; duplicate names in the header
\* are what makes the recovery from a partial packet fail at that.
PacketsAreCurrent ==
    LET p == event.packet
    IN  (\A k \in DOMAIN p : p[k] # "dropped")
          => /\ \A k \in DOMAIN p : p[k] # "old"
             /\ \A j, k \in DOMAIN p : j < k /\ p[j] = "unknown" => p[k] = "unknown"

\* Loops that got no packet stay only until their container ends, so that
\* their names are known as used; none is left in what was parsed.
EmptyLoopsPruned ==
    result = "none" =>
      \A e \in cif.empty : \E k \in DOMAIN stack :
          stack[k].fn = "container" /\ stack[k].path = e[1]

\* Whatever the input and the handlers' answers, the parse comes to an end:
\* every recovery makes progress.
ParseReturns == <>(result # "none")
=============================================================================
