---------------------------- MODULE NestTxProofs ----------------------------
(***************************************************************************)
(* The statements of the library's functions implement calls that take     *)
(* effect at once, for any number of calls: the transactions of NestTx     *)
(* refine AtomicCalls.  What is inductive is TxInv: where in its program   *)
(* a function is determines what it has done so far; and its transaction   *)
(* or savepoint, as long as it holds, restores what the call found.        *)
(***************************************************************************)
EXTENDS NestTx, SequenceTheorems, TLAPS

-----------------------------------------------------------------------------
(* Programs. *)

BodyOf(fn) == Program[fn].body

\* The writes a function has done before statement pc, its own and those of
\* the functions it called
Done(fn, pc) ==
    {<<fn, i>> : i \in {i \in DOMAIN BodyOf(fn) : i < pc /\ BodyOf(fn)[i] = "write"}}
    \cup UNION {OwnEffect(BodyOf(fn)[i]) :
                  i \in {i \in DOMAIN BodyOf(fn) : i < pc /\ BodyOf(fn)[i] \in Function}}

\* A function that calls no other
Leaf(fn) == \A i \in DOMAIN BodyOf(fn) : BodyOf(fn)[i] \in {"read", "write"}

\* What the proof needs to know of the programs
Shape(fn) ==
    /\ Len(BodyOf(fn)) \in Nat /\ DOMAIN BodyOf(fn) = 1..Len(BodyOf(fn))
    /\ \A i \in DOMAIN BodyOf(fn) :
          BodyOf(fn)[i] \in Function =>
             /\ Program[fn].open = "begin" /\ Program[fn].close = "keep"
             /\ Leaf(BodyOf(fn)[i])
             /\ Program[BodyOf(fn)[i]].open = "nest"
             /\ Program[BodyOf(fn)[i]].close = "keep"
    /\ Program[fn].open = "none" => /\ Len(BodyOf(fn)) = 1
                                    /\ Program[fn].close = "none"
                                    /\ fn # "cif_loop_get_packets"
    /\ Program[fn].close = "none" /\ Program[fn].open # "none" =>
          fn = "cif_loop_get_packets" /\ Program[fn].open = "begin"
    /\ fn = "cif_loop_get_packets" \/ Program[fn].close = "undo" =>
          \A i \in DOMAIN BodyOf(fn) : BodyOf(fn)[i] \in {"read", "prepare"}
    /\ (\E i \in DOMAIN BodyOf(fn) : BodyOf(fn)[i] = "prepare") =>
          /\ fn = "cif_container_get_all_loops" /\ Program[fn].open = "nest"
          /\ \A i \in DOMAIN BodyOf(fn) : BodyOf(fn)[i] \in {"read", "prepare"}
    /\ Program[fn].open \in {"begin", "nest", "save", "none"}
    /\ Program[fn].close \in {"keep", "undo", "none"}

\* The functions by name; no statement is taken for one.
LEMMA FunctionNames ==
    /\ Function = {"cif_create_block", "cif_container_create_loop_internal",
                   "cif_loop_add_item_internal", "cif_loop_add_packet",
                   "cif_container_set_value", "cif_container_add_scalar",
                   "cif_container_remove_item", "cif_container_get_all_loops",
                   "cif_loop_get_names", "cif_loop_set_category",
                   "cif_loop_get_packets", "cif_pktitr_update_packet",
                   "cif_pktitr_remove_packet"}
    /\ "read" \notin Function /\ "write" \notin Function /\ "prepare" \notin Function
BY DEF Function, Program

\* The program of each
LEMMA ProgramsByName ==
    /\ Program["cif_create_block"] = CreateBlock
    /\ Program["cif_container_create_loop_internal"] = CreateLoopInternal
    /\ Program["cif_loop_add_item_internal"] = AddItemInternal
    /\ Program["cif_loop_add_packet"] = AddPacket
    /\ Program["cif_container_set_value"] = SetValue
    /\ Program["cif_container_add_scalar"] = AddScalar
    /\ Program["cif_container_remove_item"] = RemoveItem
    /\ Program["cif_container_get_all_loops"] = GetAllLoops
    /\ Program["cif_loop_get_names"] = GetNamesInternal
    /\ Program["cif_loop_set_category"] = SetCategory
    /\ Program["cif_loop_get_packets"] = GetPackets
    /\ Program["cif_pktitr_update_packet"] = UpdatePacket
    /\ Program["cif_pktitr_remove_packet"] = RemovePacket
BY DEF Program

\* Every program has that shape.
LEMMA ProgramShape == \A fn \in Function : Shape(fn)
<1>1. Shape("cif_create_block")
  BY FunctionNames, ProgramsByName DEF Shape, Leaf, BodyOf, Tx, CreateBlock
<1>2. Shape("cif_container_create_loop_internal")
  BY FunctionNames, ProgramsByName DEF Shape, Leaf, BodyOf, Tx, CreateLoopInternal
<1>3. Shape("cif_loop_add_item_internal")
  BY FunctionNames, ProgramsByName DEF Shape, Leaf, BodyOf, Tx, AddItemInternal
<1>4. Shape("cif_loop_add_packet")
  BY FunctionNames, ProgramsByName DEF Shape, Leaf, BodyOf, Tx, AddPacket
<1>5. Shape("cif_container_set_value")
  BY FunctionNames, ProgramsByName DEF Shape, Leaf, BodyOf, Tx, SetValue
<1>6. Shape("cif_container_add_scalar")
  BY FunctionNames, ProgramsByName DEF Shape, Leaf, BodyOf, Tx, AddScalar,
                       CreateLoopInternal, AddItemInternal, AddPacket
<1>7. Shape("cif_container_remove_item")
  BY FunctionNames, ProgramsByName DEF Shape, Leaf, BodyOf, Tx, RemoveItem
<1>8. Shape("cif_container_get_all_loops")
  BY FunctionNames, ProgramsByName DEF Shape, Leaf, BodyOf, Tx, GetAllLoops
<1>9. Shape("cif_loop_get_names")
  BY FunctionNames, ProgramsByName DEF Shape, Leaf, BodyOf, Tx, GetNamesInternal
<1>10. Shape("cif_loop_set_category")
  BY FunctionNames, ProgramsByName DEF Shape, Leaf, BodyOf, Tx, SetCategory
<1>11. Shape("cif_loop_get_packets")
  BY FunctionNames, ProgramsByName DEF Shape, Leaf, BodyOf, Tx, GetPackets
<1>12. Shape("cif_pktitr_update_packet")
  BY FunctionNames, ProgramsByName DEF Shape, Leaf, BodyOf, Tx, UpdatePacket
<1>13. Shape("cif_pktitr_remove_packet")
  BY FunctionNames, ProgramsByName DEF Shape, Leaf, BodyOf, Tx, RemovePacket
<1>. QED
  BY <1>1, <1>2, <1>3, <1>4, <1>5, <1>6, <1>7, <1>8, <1>9, <1>10, <1>11, <1>12, <1>13, FunctionNames

\* What each statement adds to what is done
LEMMA DoneSteps ==
    ASSUME NEW fn \in Function
    PROVE  /\ Done(fn, 0) = {} /\ Done(fn, 1) = {}
           /\ \A pc \in DOMAIN BodyOf(fn) :
                 Done(fn, pc + 1) =
                    CASE BodyOf(fn)[pc] = "write"   -> Done(fn, pc) \cup {<<fn, pc>>}
                      [] BodyOf(fn)[pc] \in Function -> Done(fn, pc) \cup OwnEffect(BodyOf(fn)[pc])
                      [] OTHER -> Done(fn, pc)
<1>2. DOMAIN BodyOf(fn) = 1..Len(BodyOf(fn)) /\ Len(BodyOf(fn)) \in Nat
  BY ProgramShape DEF Shape
<1>3. Done(fn, 0) = {} /\ Done(fn, 1) = {}
  BY <1>2 DEF Done
<1>4. ASSUME NEW pc \in DOMAIN BodyOf(fn)
      PROVE  \A i \in DOMAIN BodyOf(fn) : i < pc + 1 <=> i < pc \/ i = pc
  BY <1>2
<1>5. ASSUME NEW pc \in DOMAIN BodyOf(fn), BodyOf(fn)[pc] = "write"
      PROVE  Done(fn, pc + 1) = Done(fn, pc) \cup {<<fn, pc>>}
  <2>1. BodyOf(fn)[pc] \notin Function
    BY <1>5, FunctionNames
  <2>2. {i \in DOMAIN BodyOf(fn) : i < pc + 1 /\ BodyOf(fn)[i] = "write"}
        = {i \in DOMAIN BodyOf(fn) : i < pc /\ BodyOf(fn)[i] = "write"} \cup {pc}
    BY <1>4, <1>5
  <2>3. {i \in DOMAIN BodyOf(fn) : i < pc + 1 /\ BodyOf(fn)[i] \in Function}
        = {i \in DOMAIN BodyOf(fn) : i < pc /\ BodyOf(fn)[i] \in Function}
    BY <1>4, <2>1
  <2>. QED
    BY <2>2, <2>3, Zenon DEF Done
<1>6. ASSUME NEW pc \in DOMAIN BodyOf(fn), BodyOf(fn)[pc] \in Function
      PROVE  Done(fn, pc + 1) = Done(fn, pc) \cup OwnEffect(BodyOf(fn)[pc])
  <2>1. BodyOf(fn)[pc] # "write"
    BY <1>6, FunctionNames
  <2>2. {i \in DOMAIN BodyOf(fn) : i < pc + 1 /\ BodyOf(fn)[i] = "write"}
        = {i \in DOMAIN BodyOf(fn) : i < pc /\ BodyOf(fn)[i] = "write"}
    BY <1>4, <2>1
  <2>3. {i \in DOMAIN BodyOf(fn) : i < pc + 1 /\ BodyOf(fn)[i] \in Function}
        = {i \in DOMAIN BodyOf(fn) : i < pc /\ BodyOf(fn)[i] \in Function} \cup {pc}
    BY <1>4, <1>6
  <2>. QED
    BY <2>2, <2>3, Zenon DEF Done
<1>7. ASSUME NEW pc \in DOMAIN BodyOf(fn), BodyOf(fn)[pc] # "write",
             BodyOf(fn)[pc] \notin Function
      PROVE  Done(fn, pc + 1) = Done(fn, pc)
  <2>2. {i \in DOMAIN BodyOf(fn) : i < pc + 1 /\ BodyOf(fn)[i] = "write"}
        = {i \in DOMAIN BodyOf(fn) : i < pc /\ BodyOf(fn)[i] = "write"}
    BY <1>4, <1>7
  <2>3. {i \in DOMAIN BodyOf(fn) : i < pc + 1 /\ BodyOf(fn)[i] \in Function}
        = {i \in DOMAIN BodyOf(fn) : i < pc /\ BodyOf(fn)[i] \in Function}
    BY <1>4, <1>7
  <2>. QED
    BY <2>2, <2>3, Zenon DEF Done
<1>. QED
  BY <1>3, <1>5, <1>6, <1>7, FunctionNames

\* At its end a function has had its effect.
LEMMA DoneAtEnd ==
    ASSUME NEW fn \in Function
    PROVE  /\ Done(fn, Len(BodyOf(fn)) + 1) = Effect[fn]
           /\ Leaf(fn) => Done(fn, Len(BodyOf(fn)) + 1) = OwnEffect(fn)
<1>2. \A i \in DOMAIN BodyOf(fn) : i < Len(BodyOf(fn)) + 1
  BY ProgramShape DEF Shape
<1> DEFINE called == {i \in DOMAIN BodyOf(fn) : BodyOf(fn)[i] \in Function}
<1>3. Done(fn, Len(BodyOf(fn)) + 1)
        = OwnEffect(fn) \cup UNION {OwnEffect(BodyOf(fn)[i]) : i \in called}
  <2>1. {i \in DOMAIN BodyOf(fn) :
            i < Len(BodyOf(fn)) + 1 /\ BodyOf(fn)[i] = "write"}
        = {i \in DOMAIN BodyOf(fn) : BodyOf(fn)[i] = "write"}
    BY <1>2
  <2>2. {i \in DOMAIN BodyOf(fn) :
            i < Len(BodyOf(fn)) + 1 /\ BodyOf(fn)[i] \in Function} = called
    BY <1>2
  <2>. QED
    BY <2>1, <2>2, Zenon DEF Done, OwnEffect, BodyOf
<1>4. {OwnEffect(BodyOf(fn)[i]) : i \in called}
      = {OwnEffect(g) : g \in DOMAIN Program \cap
                              {Program[fn].body[i] : i \in DOMAIN Program[fn].body}}
  BY DEF BodyOf, Function
<1>5. Done(fn, Len(BodyOf(fn)) + 1) = Effect[fn]
  <2>1. fn \in DOMAIN Program
    BY DEF Function
  <2>. QED
    BY <1>3, <1>4, <2>1, Zenon DEF Effect
<1>6. ASSUME Leaf(fn) PROVE called = {}
  BY <1>6, FunctionNames DEF Leaf
<1>. QED
  BY <1>3, <1>5, <1>6

Tagged(S) == {<<ret.call + 1, e>> : e \in S}

-----------------------------------------------------------------------------
(* The invariant. *)

Frame == [fn : Function, pc : Nat, way : {"tx", "savepoint", "none"}, iter : Nat]

Saved == [restore : SUBSET Marks, owner : Nat \X Nat]

Outer == frames[1]

TypeInv ==
    /\ data \in SUBSET Marks
    /\ stack \in Seq(Saved)
    /\ frames \in Seq(Frame)
    /\ value \in {"none", "ok", "failed", "lost"}
    /\ iters \in SUBSET Nat /\ began \in Nat
    /\ before.data \in SUBSET Marks
    /\ ret.call \in Nat

\* What a transaction or savepoint of the outermost function restores
CanUndo ==
    CASE Outer.way = "tx" ->
            before.base = NoTx /\ (stack # <<>> => stack[1].restore = before.data)
      [] Outer.way = "savepoint" ->
            /\ Len(stack) > 1
            /\ stack[1].restore = before.base
            /\ stack[Len(stack)] = [restore |-> before.data, owner |-> <<ret.call, 1>>]
      [] Outer.way = "none" -> Base = before.base

\* The call has not begun to do anything.
NotOpened ==
    /\ Depth = 1 /\ value = "none" /\ Outer.way = "none"
    /\ data = before.data /\ Base = before.base
    /\ TakesIterator(Outer.fn) => stack # <<>>

\* The outermost function is at its statement pc.
AtOuter ==
    /\ Depth = 1
    /\ Outer.pc \in 1..(Len(BodyOf(Outer.fn)) + 1)
    /\ (Outer.way = "none") <=> (Program[Outer.fn].open = "none")
    /\ Program[Outer.fn].open = "begin" => Outer.way = "tx"
    /\ CanUndo
    /\ value = "none" => /\ data = before.data \cup Tagged(Done(Outer.fn, Outer.pc))
                         /\ Outer.way = "tx" => stack # <<>>

\* One of the functions it calls, in the transaction it began, is or has just
\* been executed.
CallsInner == /\ Outer.pc \in DOMAIN BodyOf(Outer.fn)
              /\ BodyOf(Outer.fn)[Outer.pc] \in Function
              /\ Outer.way = "tx"

InnerLeft ==
    value # "none" =>
        /\ CallsInner
        /\ value = "lost" => stack = <<>> /\ data = before.data
        /\ value = "failed" => stack # <<>>
        /\ value = "ok" =>
              /\ stack # <<>>
              /\ data = before.data \cup Tagged(Done(Outer.fn, Outer.pc + 1))

AtInner ==
    /\ Depth = 2 /\ value = "none"
    /\ CallsInner /\ CanUndo /\ stack # <<>>
    /\ Top.fn = BodyOf(Outer.fn)[Outer.pc]
    /\ Top.pc \in 0..(Len(Body) + 1)
    /\ Top.pc = 0 => Top.way = "none"
    /\ Top.pc > 0 => /\ Top.way = "savepoint"
                     /\ Len(stack) > 1
                     /\ stack[Len(stack)].owner = <<ret.call, 2>>
    /\ data = before.data \cup Tagged(Done(Outer.fn, Outer.pc))
                          \cup Tagged(Done(Top.fn, Top.pc))

\* What is inductive
TxInv ==
    /\ TypeInv
    /\ Idle => value = "none"
    /\ ~ Idle => \/ Outer.pc = 0 /\ NotOpened
                 \/ AtOuter /\ InnerLeft
                 \/ AtInner

-----------------------------------------------------------------------------
(* What the abstract specification sees. *)

Contents == IF Idle THEN data ELSE before.data
Restored == IF Idle THEN Base ELSE before.base

Refines == [Atomic!Next]_<<Contents, Restored, ret>>

-----------------------------------------------------------------------------
(* Frames, marks and savepoints. *)

\* The frames but the innermost, and with another in its place
LEMMA FrontOfSeq ==
    ASSUME NEW S, NEW s \in Seq(S), Len(s) \in Nat \ {0}
    PROVE  /\ SubSeq(s, 1, Len(s) - 1) \in Seq(S)
           /\ Len(SubSeq(s, 1, Len(s) - 1)) = Len(s) - 1
           /\ \A i \in 1..(Len(s) - 1) : SubSeq(s, 1, Len(s) - 1)[i] = s[i]
<1> DEFINE n == Len(s) - 1
<1>1. n \in Nat /\ n < Len(s)
  OBVIOUS
<1>2. \A i \in 1..n : s[i] \in S
  BY <1>1, ElementOfSeq
<1> HIDE DEF n
<1>3. /\ SubSeq(s, 1, n) \in Seq(S)
      /\ Len(SubSeq(s, 1, n)) = IF 1 <= n THEN n - 1 + 1 ELSE 0
      /\ \A i \in 1..(n - 1 + 1) : SubSeq(s, 1, n)[i] = s[1 + i - 1]
  BY <1>1, <1>2, SubSeqProperties
<1>4. n - 1 + 1 = n /\ (IF 1 <= n THEN n - 1 + 1 ELSE 0) = n
  BY <1>1
<1>5. \A i \in 1..n : 1 + i - 1 = i
  BY <1>1
<1>6. /\ SubSeq(s, 1, n) \in Seq(S)
      /\ Len(SubSeq(s, 1, n)) = n
      /\ \A i \in 1..n : SubSeq(s, 1, n)[i] = s[i]
  BY <1>3, <1>4, <1>5, Zenon
<1>. QED
  BY <1>6 DEF n

\* A sequence with another last element
LEMMA AppendToFront ==
    ASSUME NEW S, NEW s \in Seq(S), Len(s) \in Nat \ {0}, NEW r \in S
    PROVE  LET f == Append(SubSeq(s, 1, Len(s) - 1), r)
           IN  /\ f \in Seq(S)
               /\ Len(f) = Len(s)
               /\ f[Len(s)] = r
               /\ Len(s) > 1 => f[1] = s[1]
<1> DEFINE f == SubSeq(s, 1, Len(s) - 1)
<1>1. f \in Seq(S) /\ Len(f) = Len(s) - 1 /\ (Len(s) > 1 => f[1] = s[1])
  BY FrontOfSeq
<1> HIDE DEF f
<1>2. /\ Append(f, r) \in Seq(S)
      /\ Len(Append(f, r)) = Len(f) + 1
      /\ Append(f, r)[Len(f) + 1] = r
      /\ \A i \in 1..Len(f) : Append(f, r)[i] = f[i]
  BY <1>1, AppendProperties
<1>3. /\ Append(f, r) \in Seq(S)
      /\ Len(Append(f, r)) = Len(s)
      /\ Append(f, r)[Len(s)] = r
      /\ Len(s) > 1 => Append(f, r)[1] = s[1]
  BY <1>1, <1>2
<1>. QED
  BY <1>3 DEF f

\* No function is being executed.
LEMMA DepthOfIdle == Idle => Depth = 0
BY EmptySeq DEF Idle, Depth

\* A function is being executed.
LEMMA FramesInUse ==
    ASSUME TypeInv, ~ Idle
    PROVE  /\ Depth \in Nat \ {0}
           /\ Top \in Frame /\ Top.fn \in Function /\ Top.pc \in Nat
           /\ Outer \in Frame /\ Outer.fn \in Function /\ Outer.pc \in Nat
           /\ Depth = 1 => Top = Outer
<1>1. frames \in Seq(Frame) /\ Depth \in Nat \ {0}
  BY EmptySeq DEF TypeInv, Idle, Depth
<1>2. Top \in Frame /\ Outer \in Frame
  BY <1>1, ElementOfSeq DEF Top, Outer, Depth
<1>. QED
  BY <1>1, <1>2 DEF Frame, Top, Outer, Depth

\* The innermost function goes on.
LEMMA FrameReplaced ==
    ASSUME TypeInv, ~ Idle, NEW r \in Frame, frames' = Append(Caller, r)
    PROVE  /\ frames' \in Seq(Frame)
           /\ ~ Idle'
           /\ Depth' = Depth /\ Top' = r
           /\ Depth = 1 => Outer' = r
           /\ Depth = 2 => Outer' = Outer
<1>1. frames \in Seq(Frame) /\ Depth \in Nat \ {0}
  BY FramesInUse DEF TypeInv
<1>2. /\ frames' \in Seq(Frame)
      /\ Len(frames') = Len(frames)
      /\ frames'[Len(frames)] = r
      /\ Len(frames) > 1 => frames'[1] = frames[1]
  BY <1>1, AppendToFront DEF Depth, Caller
<1>3. ~ Idle'
  BY <1>1, <1>2, EmptySeq DEF Depth, Idle
<1>. QED
  BY <1>1, <1>2, <1>3 DEF Depth, Top, Outer

\* The innermost function is left.
LEMMA FrameLeft ==
    ASSUME TypeInv, ~ Idle, frames' = Caller
    PROVE  /\ frames' \in Seq(Frame)
           /\ Depth' = Depth - 1
           /\ Depth = 1 => Idle'
           /\ Depth = 2 => Outer' = Outer /\ ~ Idle'
<1>1. frames \in Seq(Frame) /\ Depth \in Nat \ {0}
  BY FramesInUse DEF TypeInv
<1>2. /\ frames' \in Seq(Frame)
      /\ Len(frames') = Len(frames) - 1
      /\ Len(frames) > 1 => frames'[1] = frames[1]
  BY <1>1, FrontOfSeq DEF Depth, Caller
<1>. QED
  BY <1>1, <1>2, EmptySeq DEF Depth, Outer, Idle

\* A function is called.
LEMMA FrameEntered ==
    ASSUME TypeInv, Depth \in Nat, NEW fn \in Function, NEW it \in Nat, Enter(fn, it)
    PROVE  /\ frames' \in Seq(Frame)
           /\ Depth' = Depth + 1 /\ ~ Idle'
           /\ Top' = [fn |-> fn, pc |-> 0, way |-> "none", iter |-> it]
           /\ Depth > 0 => Outer' = Outer
           /\ Depth = 0 => Outer' = Top'
<1> DEFINE r == [fn |-> fn, pc |-> 0, way |-> "none", iter |-> it]
<1>1. r \in Frame /\ frames \in Seq(Frame) /\ frames' = Append(frames, r)
  BY DEF Frame, Enter, TypeInv
<1> HIDE DEF r
<1>2. /\ frames' \in Seq(Frame)
      /\ Len(frames') = Len(frames) + 1
      /\ frames'[Len(frames) + 1] = r
      /\ \A i \in 1..Len(frames) : frames'[i] = frames[i]
  BY <1>1, AppendProperties
<1>3. ~ Idle'
  BY <1>2, EmptySeq DEF Depth, Idle
<1>. QED
  BY <1>1, <1>2, <1>3 DEF Depth, Top, Outer, r

\* The marks of what is done are marks.
LEMMA DoneIsMarked ==
    ASSUME TypeInv, NEW fn \in Function, NEW pc \in Nat
    PROVE  Tagged(Done(fn, pc)) \in SUBSET Marks
<1>1. \A g \in Function : OwnEffect(g) \subseteq Function \X Nat
  BY ProgramShape DEF Shape, OwnEffect, BodyOf
<1>2. Done(fn, pc) \subseteq Function \X Nat
  BY <1>1, ProgramShape DEF Shape, Done
<1>. QED
  BY <1>2 DEF Tagged, Marks, TypeInv, Function

\* What a savepoint or transaction restores is not NoTx.
LEMMA BaseIsMarks ==
    ASSUME stack \in Seq(Saved)
    PROVE  /\ stack = <<>> => Base = NoTx
           /\ stack # <<>> => /\ Base = stack[1].restore /\ Base # NoTx
                              /\ Base \in SUBSET Marks
                              /\ Len(stack) \in Nat \ {0}
<1>1. CASE stack = <<>>
  BY <1>1 DEF Base, Autocommit
<1>2. CASE stack # <<>>
  <2>1. Len(stack) \in Nat \ {0}
    BY <1>2, EmptySeq
  <2>2. stack[1] \in Saved
    BY <2>1, ElementOfSeq
  <2>. QED
    BY <1>2, <2>1, <2>2, NoTxAssumption DEF Base, Autocommit, Saved
<1>. QED
  BY <1>1, <1>2

-----------------------------------------------------------------------------
(* Returning. *)

\* To the application: it is what the outermost function leaves that counts.
LEMMA LeaveToApplication ==
    ASSUME TxInv, Depth = 1, NEW o, Leave(o),
           data' \in SUBSET Marks, stack' \in Seq(Saved), iters' \in SUBSET Nat
    PROVE  /\ TxInv'
           /\ Atomic!Returns(Outer.fn, o)
           /\ Contents = before.data /\ Restored = before.base
           /\ Contents' = data' /\ Restored' = Base'
<1>1. ~ Idle /\ Outer = Top
  <2>1. ~ Idle
    BY DepthOfIdle
  <2>. QED
    BY <2>1, FramesInUse DEF TxInv
<1>2. /\ frames' \in Seq(Frame) /\ Idle'
      /\ Atomic!Returns(Outer.fn, o)
      /\ ret'.call = ret.call + 1
      /\ value' = "none" /\ UNCHANGED <<began, before>>
  BY <1>1, FrameLeft DEF TxInv, Leave, Returns, Atomic!Returns
<1>3. TxInv'
  BY <1>2 DEF TxInv, TypeInv
<1>. QED
  BY <1>1, <1>2, <1>3 DEF Contents, Restored

\* To the function that called it.
LEMMA LeaveToFunction ==
    ASSUME TxInv, AtInner, NEW o \in {"ok", "failed", "lost"}, Leave(o),
           data' \in SUBSET Marks, stack' \in Seq(Saved), UNCHANGED iters,
           stack' # <<>> => stack # <<>> /\ stack'[1] = stack[1],
           o = "lost" <=> stack' = <<>>,
           o = "lost" => data' = before.data,
           o = "ok" => data' = before.data \cup Tagged(Done(Outer.fn, Outer.pc + 1))
    PROVE  TxInv' /\ UNCHANGED <<Contents, Restored, ret>>
<1>1. ~ Idle /\ Depth = 2 /\ Outer.way = "tx" /\ TypeInv
  BY DepthOfIdle DEF AtInner, CallsInner, TxInv
<1>2. /\ frames' \in Seq(Frame) /\ ~ Idle' /\ Depth' = 1 /\ Outer' = Outer
      /\ value' = o
      /\ UNCHANGED <<ret, began, before>>
  BY <1>1, FrameLeft DEF Leave
<1>3. TypeInv'
  BY <1>1, <1>2 DEF TypeInv
<1>4. CanUndo'
  BY <1>1, <1>2 DEF AtInner, CanUndo
<1>5. Outer.fn \in Function /\ Outer.pc \in DOMAIN BodyOf(Outer.fn)
  BY <1>1, FramesInUse DEF AtInner, CallsInner
<1>6. AtOuter'
  BY <1>1, <1>2, <1>4, <1>5, ProgramShape DEF AtInner, CallsInner, AtOuter, Shape
<1>7. InnerLeft'
  BY <1>1, <1>2 DEF AtInner, CallsInner, InnerLeft, Tagged
<1>. QED
  BY <1>1, <1>2, <1>3, <1>6, <1>7 DEF TxInv, Contents, Restored

-----------------------------------------------------------------------------
(* The application's calls. *)

\* A call begins: nothing is to be seen of it yet.
LEMMA CallStep ==
    ASSUME TxInv, NEW fn \in Function, Call(fn)
    PROVE  TxInv' /\ Refines
<1>1. TypeInv /\ Idle /\ Depth = 0 /\ value = "none"
  BY DEF TxInv, Call, Idle, Depth
<1>2. /\ frames' \in Seq(Frame) /\ ~ Idle' /\ Depth' = 1
      /\ Outer'.fn = fn /\ Outer'.pc = 0 /\ Outer'.way = "none"
  BY <1>1, FrameEntered DEF Call
<1>3. /\ before' = [data |-> data, base |-> Base]
      /\ UNCHANGED <<data, stack, value, iters, began, ret>>
  BY DEF Call
<1>4. TypeInv'
  BY <1>1, <1>2, <1>3 DEF TypeInv
<1>5. Base' = Base
  BY <1>3 DEF Base, Autocommit
<1>6. NotOpened'
  BY <1>1, <1>2, <1>3, <1>5 DEF NotOpened, Call, TakesIterator
<1>. QED
  BY <1>1, <1>2, <1>3, <1>4, <1>5, <1>6 DEF TxInv, Refines, Contents, Restored

\* With an iterator whose transaction is gone it fails at once.
LEMMA CallWithStep ==
    ASSUME TxInv, NEW fn \in Function, NEW it \in iters, CallWith(fn, it)
    PROVE  TxInv' /\ Refines
<1>1. TypeInv /\ Idle /\ Depth = 0 /\ value = "none" /\ it \in Nat
  BY DEF TxInv, TypeInv, CallWith, Idle, Depth
<1>2. UNCHANGED <<data, stack, value, iters, began>>
  BY DEF CallWith
<1>3. CASE Autocommit
  <2>1. Returns(fn, "failed") /\ UNCHANGED <<before, frames>>
    BY <1>3 DEF CallWith
  <2>2. TxInv'
    BY <1>1, <1>2, <2>1 DEF TxInv, TypeInv, Returns, Idle
  <2>3. Atomic!Fail(fn)
    BY <1>1, <1>2, <2>1 DEF Atomic!Fail, Atomic!Returns, Returns, Idle, Base, Autocommit
  <2>. QED
    BY <2>2, <2>3 DEF Refines, Atomic!Next
<1>4. CASE ~ Autocommit
  <2>1. /\ before' = [data |-> data, base |-> Base]
        /\ Enter(fn, it) /\ UNCHANGED ret
    BY <1>4 DEF CallWith
  <2>2. /\ frames' \in Seq(Frame) /\ ~ Idle' /\ Depth' = 1
        /\ Outer'.fn = fn /\ Outer'.pc = 0 /\ Outer'.way = "none"
    BY <1>1, <2>1, FrameEntered
  <2>3. TypeInv'
    BY <1>1, <1>2, <2>1, <2>2 DEF TypeInv
  <2>4. Base' = Base
    BY <1>2 DEF Base, Autocommit
  <2>5. NotOpened'
    BY <1>1, <1>2, <1>4, <2>1, <2>2, <2>4 DEF NotOpened, Autocommit
  <2>. QED
    BY <1>1, <1>2, <2>1, <2>2, <2>3, <2>4, <2>5 DEF TxInv, Refines, Contents, Restored
<1>. QED
  BY <1>3, <1>4

\* Closing and aborting an iterator are single steps in both.
LEMMA CloseStep ==
    ASSUME TxInv, NEW it \in iters, CloseIterator(it) \/ AbortIterator(it)
    PROVE  TxInv' /\ Refines
<1>1. /\ TypeInv /\ Idle /\ value = "none"
      /\ UNCHANGED <<frames, value, began, before>>
      /\ iters' = iters \ {it}
      /\ stack' = <<>>
      /\ ret'.call = ret.call + 1
  BY DEF TxInv, CloseIterator, AbortIterator, Rollback, Returns
<1>2. data' \in {data, IF Autocommit THEN data ELSE stack[1].restore}
  BY DEF CloseIterator, AbortIterator, Rollback
<1>3. data' \in SUBSET Marks
  BY <1>1, <1>2, BaseIsMarks DEF TypeInv, Autocommit
<1>4. TxInv'
  BY <1>1, <1>3 DEF TxInv, TypeInv, Idle
<1>5. Idle' /\ Base' = NoTx
  BY <1>1 DEF Idle, Base, Autocommit
<1>6. CASE Autocommit
  <2>1. Base = NoTx /\ data' = data
    BY <1>2, <1>6 DEF Base
  <2>2. Returns("cif_pktitr_close", "failed") \/ Returns("cif_pktitr_abort", "failed")
    BY <1>6 DEF CloseIterator, AbortIterator
  <2>3. Atomic!EndNothing("cif_pktitr_close") \/ Atomic!EndNothing("cif_pktitr_abort")
    BY <1>1, <1>5, <2>1, <2>2 DEF Atomic!EndNothing, Atomic!Fail, Atomic!Returns, Returns
  <2>. QED
    BY <1>4, <2>3 DEF Refines, Atomic!Next
<1>7. CASE ~ Autocommit
  <2>1. Base = stack[1].restore /\ Base # NoTx
    BY <1>1, <1>7, BaseIsMarks DEF TypeInv, Autocommit
  <2>2. \/ Returns("cif_pktitr_close", "ok") /\ data' = data
        \/ Returns("cif_pktitr_close", "failed") /\ data' = Base
        \/ Returns("cif_pktitr_abort", "ok") /\ data' = Base
    BY <1>7, <2>1 DEF CloseIterator, AbortIterator, Rollback
  <2>3. Atomic!Close \/ Atomic!Abort
    BY <1>1, <1>5, <2>1, <2>2 DEF Atomic!Close, Atomic!Abort, Atomic!Returns, Returns
  <2>. QED
    BY <1>4, <2>3 DEF Refines, Atomic!Next
<1>. QED
  BY <1>6, <1>7

-----------------------------------------------------------------------------
(* The steps of a function. *)

\* Where the function being executed is
LEMMA WhereItIs ==
    ASSUME TxInv, ~ Idle
    PROVE  /\ TypeInv
           /\ value = "none" /\ Top.pc = 0 => NotOpened \/ AtInner
           /\ value = "none" /\ Top.pc > 0 => (AtOuter /\ InnerLeft) \/ AtInner
           /\ value # "none" => AtOuter /\ InnerLeft
<1>1. Depth = 1 => Top = Outer
  BY FramesInUse DEF TxInv
<1>2. AtOuter => Top.pc > 0
  BY <1>1, FramesInUse DEF TxInv, AtOuter
<1>3. Outer.pc = 0 /\ NotOpened => Top.pc = 0 /\ value = "none"
  BY <1>1 DEF NotOpened
<1>. QED
  BY <1>2, <1>3 DEF TxInv, AtInner

\* A transaction or savepoint is opened, to restore what there is.
LEMMA OpenTxStep ==
    ASSUME TxInv, OpenTx
    PROVE  TxInv' /\ Refines
<1> DEFINE r == [Top EXCEPT !.pc = 1, !.way = WayOf(Top.fn)]
           s == [restore |-> data, owner |-> Owner]
<1>1. /\ TypeInv /\ ~ Idle /\ value = "none" /\ Top.pc = 0
      /\ OpensBy(Top.fn) = "begin" => Autocommit
      /\ frames' = Append(Caller, r)
      /\ stack' = IF WayOf(Top.fn) = "none" THEN stack ELSE Append(stack, s)
      /\ began' \in {began, began + 1}
      /\ UNCHANGED <<data, value, iters, before, ret>>
  BY DEF OpenTx, TxInv
<1>2. /\ Top \in Frame /\ Top.fn \in Function /\ Depth \in Nat
      /\ Depth = 1 => Top = Outer
  BY <1>1, FramesInUse
<1>3. WayOf(Top.fn) \in {"tx", "savepoint", "none"}
  BY DEF WayOf
<1>4. r \in Frame /\ r.fn = Top.fn /\ r.pc = 1 /\ r.way = WayOf(Top.fn)
  BY <1>2, <1>3 DEF Frame
<1>5. s \in Saved /\ s.restore = data /\ s.owner = <<ret.call, Depth>>
  BY <1>1, <1>2 DEF Saved, TypeInv, Owner
<1> HIDE DEF r, s
<1>6. /\ frames' \in Seq(Frame) /\ ~ Idle' /\ Depth' = Depth /\ Top' = r
      /\ Depth = 1 => Outer' = r
      /\ Depth = 2 => Outer' = Outer
  BY <1>1, <1>4, FrameReplaced
<1>7. /\ Append(stack, s) \in Seq(Saved)
      /\ Len(stack) \in Nat /\ Len(Append(stack, s)) = Len(stack) + 1
      /\ Append(stack, s)[Len(stack) + 1] = s
      /\ stack # <<>> => Len(stack) > 0 /\ Append(stack, s)[1] = stack[1]
      /\ stack = <<>> => Len(stack) = 0
      /\ Append(stack, s) # <<>>
  <2>1. stack \in Seq(Saved)
    BY <1>1 DEF TypeInv
  <2>2. /\ Append(stack, s) \in Seq(Saved)
        /\ Len(Append(stack, s)) = Len(stack) + 1
        /\ \A i \in 1..Len(stack) : Append(stack, s)[i] = stack[i]
        /\ Append(stack, s)[Len(stack) + 1] = s
    BY <2>1, <1>5, AppendProperties
  <2>3. Len(stack) \in Nat /\ (stack # <<>> => Len(stack) > 0)
        /\ (stack = <<>> => Len(stack) = 0)
    BY <2>1, EmptySeq, LenProperties
  <2>4. Append(stack, s) # <<>>
    BY <2>2, <2>3, EmptySeq
  <2>. QED
    BY <2>2, <2>3, <2>4
<1>8. TypeInv'
  BY <1>1, <1>6, <1>7 DEF TypeInv
<1>9. CASE NotOpened
  <2>1. Outer = Top /\ Depth = 1 /\ Outer' = r
    BY <1>2, <1>6, <1>9 DEF NotOpened
  <2>2. Done(r.fn, 1) = {} /\ 1 \in 1..(Len(BodyOf(r.fn)) + 1)
    BY <1>2, <1>4, DoneSteps, ProgramShape DEF Shape
  <2>3. CanUndo'
    <3>1. CASE r.way = "tx"
      <4>1. stack = <<>>
        BY <1>1, <1>4, <3>1 DEF WayOf, Autocommit
      <4>2. before.base = NoTx
        BY <1>9, <4>1 DEF NotOpened, Base, Autocommit
      <4>3. /\ Outer'.way = "tx"
            /\ stack'[1].restore = before.data
            /\ UNCHANGED before
        BY <1>1, <1>4, <1>5, <1>7, <1>9, <2>1, <3>1, <4>1 DEF NotOpened
      <4>. QED
        BY <4>2, <4>3 DEF CanUndo
    <3>2. CASE r.way = "savepoint"
      <4>1. stack # <<>>
        BY <1>1, <1>2, <1>4, <1>9, <2>1, <3>2, ProgramShape
           DEF WayOf, OpensBy, Autocommit, NotOpened, TakesIterator, Shape
      <4>2. before.base = stack[1].restore
        BY <1>9, <4>1 DEF NotOpened, Base, Autocommit
      <4>3. s = [restore |-> before.data, owner |-> <<ret.call, 1>>]
        BY <1>9, <2>1 DEF s, Owner, NotOpened
      <4>4. /\ Outer'.way = "savepoint" /\ Len(stack') > 1
            /\ stack'[1] = stack[1] /\ stack'[Len(stack')] = s
            /\ UNCHANGED <<before, ret>>
        BY <1>1, <1>4, <1>7, <2>1, <3>2, <4>1
      <4>. QED
        BY <4>2, <4>3, <4>4 DEF CanUndo
    <3>3. CASE r.way = "none"
      BY <1>1, <1>4, <1>9, <2>1, <3>3 DEF CanUndo, NotOpened, Base, Autocommit
    <3>. QED
      BY <1>3, <1>4, <3>1, <3>2, <3>3
  <2>4. AtOuter'
    <3>1. (r.way = "none") <=> (Program[r.fn].open = "none")
      BY <1>4 DEF WayOf, OpensBy
    <3>2. Program[r.fn].open = "begin" => r.way = "tx"
      BY <1>4 DEF WayOf, OpensBy
    <3>3. data = before.data \cup Tagged(Done(r.fn, 1))
      BY <1>9, <2>2 DEF NotOpened, Tagged
    <3>4. r.way = "tx" => stack' # <<>>
      BY <1>1, <1>4, <1>7
    <3>. QED
      BY <1>1, <1>4, <1>6, <2>1, <2>2, <2>3, <3>1, <3>2, <3>3, <3>4 DEF AtOuter, Tagged
  <2>5. InnerLeft'
    BY <1>1 DEF InnerLeft
  <2>. QED
    BY <1>1, <1>6, <1>8, <2>4, <2>5 DEF TxInv, Refines, Contents, Restored
<1>10. CASE AtInner
  <2>1. Depth = 2 /\ Outer' = Outer /\ CallsInner /\ stack # <<>> /\ CanUndo
    BY <1>6, <1>10 DEF AtInner
  <2>2. /\ Program[Top.fn].open = "nest" /\ Outer.fn \in Function
    BY <1>1, <1>10, FramesInUse, ProgramShape DEF AtInner, CallsInner, Shape
  <2>3. WayOf(Top.fn) = "savepoint"
    BY <2>1, <2>2 DEF WayOf, OpensBy, Autocommit
  <2>4. /\ stack' = Append(stack, s)
        /\ Len(stack') > 1 /\ stack' # <<>> /\ stack'[1] = stack[1]
        /\ stack'[Len(stack')].owner = <<ret.call, 2>>
    BY <1>1, <1>5, <1>7, <2>1, <2>3
  <2>5. CanUndo'
    BY <1>1, <2>1, <2>4 DEF CanUndo, CallsInner
  <2>6. Done(Top.fn, 0) = {} /\ Done(Top.fn, 1) = {}
    BY <1>2, DoneSteps
  <2>7. AtInner'
    <3>1. CallsInner'
      BY <2>1 DEF CallsInner
    <3>2. r.pc \in 0..(Len(BodyOf(r.fn)) + 1)
      BY <1>2, <1>4, ProgramShape DEF Shape
    <3>3. data = before.data \cup Tagged(Done(Outer.fn, Outer.pc))
                             \cup Tagged(Done(r.fn, 1))
      BY <1>1, <1>4, <1>10, <2>6 DEF AtInner
    <3>. QED
      BY <1>1, <1>4, <1>6, <1>10, <2>1, <2>3, <2>4, <2>5, <3>1, <3>2, <3>3
         DEF AtInner, Tagged, Body, BodyOf
  <2>. QED
    BY <1>1, <1>6, <1>8, <2>7 DEF TxInv, Refines, Contents, Restored
<1>. QED
  BY <1>1, <1>9, <1>10, WhereItIs

\* Where none can be opened, there is nothing to undo.
LEMMA FailToOpenStep ==
    ASSUME TxInv, FailToOpen
    PROVE  TxInv' /\ Refines
<1>1. /\ TypeInv /\ ~ Idle /\ value = "none" /\ Top.pc = 0
      /\ Leave("failed")
      /\ UNCHANGED <<data, stack, iters>>
  BY DEF FailToOpen, TxInv
<1>2. data' \in SUBSET Marks /\ stack' \in Seq(Saved) /\ iters' \in SUBSET Nat
  BY <1>1 DEF TypeInv
<1>3. CASE NotOpened
  <2>1. Depth = 1 /\ data = before.data /\ Base = before.base
    BY <1>3 DEF NotOpened
  <2>2. Base' = Base
    BY <1>1 DEF Base, Autocommit
  <2>3. /\ TxInv'
        /\ Atomic!Returns(Outer.fn, "failed")
        /\ Contents = before.data /\ Restored = before.base
        /\ Contents' = data' /\ Restored' = Base'
    BY <1>1, <1>2, <2>1, LeaveToApplication
  <2>4. Atomic!Fail(Outer.fn)
    BY <1>1, <2>1, <2>2, <2>3 DEF Atomic!Fail, Contents, Restored
  <2>. QED
    BY <1>1, <2>3, <2>4, FramesInUse DEF Refines, Atomic!Next
<1>4. CASE AtInner
  <2>1. stack # <<>>
    BY <1>4 DEF AtInner
  <2>. QED
    BY <1>1, <1>2, <1>4, <2>1, LeaveToFunction DEF Refines
<1>. QED
  BY <1>1, <1>3, <1>4, WhereItIs

\* A statement adds its own mark, if it writes.
LEMMA ExecuteStep ==
    ASSUME TxInv, Execute
    PROVE  TxInv' /\ Refines
<1> DEFINE r == [Top EXCEPT !.pc = @ + 1]
           mark == <<ret.call + 1, <<Top.fn, Top.pc>>>>
<1>1. /\ TypeInv /\ ~ Idle /\ value = "none" /\ Top.pc > 0
      /\ Top.pc \in DOMAIN BodyOf(Top.fn)
      /\ BodyOf(Top.fn)[Top.pc] \in {"read", "write", "prepare"}
      /\ data' = IF BodyOf(Top.fn)[Top.pc] = "write" THEN data \cup {mark} ELSE data
      /\ frames' = Append(Caller, r)
      /\ UNCHANGED <<stack, value, iters, began, before, ret>>
  BY DEF Execute, TxInv, AtStatement, Running, Advance, Body, BodyOf
<1>2. /\ Top \in Frame /\ Top.fn \in Function /\ Top.pc \in Nat
      /\ Depth = 1 => Top = Outer
  BY <1>1, FramesInUse
<1>3. r \in Frame /\ r.fn = Top.fn /\ r.pc = Top.pc + 1 /\ r.way = Top.way
  BY <1>2 DEF Frame
<1>4. mark \in Marks
  BY <1>1, <1>2 DEF TypeInv, Marks, Function
<1>6. Done(Top.fn, Top.pc + 1)
        = IF BodyOf(Top.fn)[Top.pc] = "write"
          THEN Done(Top.fn, Top.pc) \cup {<<Top.fn, Top.pc>>} ELSE Done(Top.fn, Top.pc)
  BY <1>1, <1>2, DoneSteps, FunctionNames
<1>7. Tagged(Done(Top.fn, Top.pc + 1))
        = IF BodyOf(Top.fn)[Top.pc] = "write"
          THEN Tagged(Done(Top.fn, Top.pc)) \cup {mark} ELSE Tagged(Done(Top.fn, Top.pc))
  BY <1>6 DEF Tagged
<1> HIDE DEF r, mark
<1>8. /\ frames' \in Seq(Frame) /\ ~ Idle' /\ Depth' = Depth /\ Top' = r
      /\ Depth = 1 => Outer' = r
      /\ Depth = 2 => Outer' = Outer
  BY <1>1, <1>3, FrameReplaced
<1>9. TypeInv'
  BY <1>1, <1>4, <1>8 DEF TypeInv
<1>10. Top.pc + 1 \in 1..(Len(BodyOf(Top.fn)) + 1)
  BY <1>1, <1>2, ProgramShape DEF Shape
<1>11. CASE AtOuter
  <2>1. Depth = 1 /\ Top = Outer /\ Outer' = r /\ CanUndo
    BY <1>2, <1>8, <1>11 DEF AtOuter
  <2>2. CanUndo'
    BY <1>1, <1>3, <2>1 DEF CanUndo, Base, Autocommit
  <2>3. data' = before.data \cup Tagged(Done(r.fn, r.pc))
    BY <1>1, <1>3, <1>7, <1>11, <2>1 DEF AtOuter
  <2>4. AtOuter'
    BY <1>1, <1>3, <1>8, <1>10, <1>11, <2>1, <2>2, <2>3 DEF AtOuter, Tagged
  <2>5. InnerLeft'
    BY <1>1 DEF InnerLeft
  <2>. QED
    BY <1>1, <1>8, <1>9, <2>4, <2>5 DEF TxInv, Refines, Contents, Restored
<1>12. CASE AtInner
  <2>1. Depth = 2 /\ Outer' = Outer /\ CanUndo
    BY <1>8, <1>12 DEF AtInner
  <2>2. CanUndo'
    BY <1>1, <2>1 DEF CanUndo, Base, Autocommit
  <2>3. data' = before.data \cup Tagged(Done(Outer.fn, Outer.pc))
                           \cup Tagged(Done(r.fn, r.pc))
    BY <1>1, <1>3, <1>7, <1>12 DEF AtInner
  <2>4. CallsInner' /\ r.way = "savepoint" /\ Len(stack) > 1 /\ stack # <<>>
    BY <1>1, <1>3, <1>12, <2>1 DEF AtInner, CallsInner
  <2>5. stack[Len(stack)].owner = <<ret.call, 2>>
    BY <1>1, <1>12 DEF AtInner
  <2>6. /\ r.fn = BodyOf(Outer.fn)[Outer.pc] /\ r.pc # 0
        /\ r.pc \in 0..(Len(BodyOf(r.fn)) + 1)
    BY <1>2, <1>3, <1>10, <1>12 DEF AtInner
  <2>7. AtInner'
    BY <1>1, <1>8, <2>1, <2>2, <2>3, <2>4, <2>5, <2>6 DEF AtInner, Tagged, Body, BodyOf
  <2>. QED
    BY <1>1, <1>8, <1>9, <2>7 DEF TxInv, Refines, Contents, Restored
<1>. QED
  BY <1>1, <1>11, <1>12, WhereItIs

\* Only the outermost function calls others.
LEMMA CallInnerStep ==
    ASSUME TxInv, CallInner
    PROVE  TxInv' /\ Refines
<1>1. /\ TypeInv /\ ~ Idle /\ value = "none" /\ Top.pc > 0
      /\ Top.pc \in DOMAIN BodyOf(Top.fn)
      /\ BodyOf(Top.fn)[Top.pc] \in Function
      /\ Enter(BodyOf(Top.fn)[Top.pc], 0)
      /\ UNCHANGED <<data, stack, value, iters, began, before, ret>>
  BY DEF CallInner, TxInv, AtStatement, Running, Body, BodyOf, Function
<1>2. Top.fn \in Function /\ Depth \in Nat /\ (Depth = 1 => Top = Outer)
  BY <1>1, FramesInUse
<1>3. CASE AtOuter
  <2>1. Depth = 1 /\ Top = Outer /\ CanUndo /\ Outer.way = "tx" /\ stack # <<>>
    BY <1>1, <1>2, <1>3, ProgramShape DEF AtOuter, Shape
  <2>2. /\ frames' \in Seq(Frame) /\ Depth' = 2 /\ ~ Idle' /\ Outer' = Outer
        /\ Top'.fn = BodyOf(Outer.fn)[Outer.pc] /\ Top'.pc = 0 /\ Top'.way = "none"
    BY <1>1, <2>1, FrameEntered
  <2>3. TypeInv'
    BY <1>1, <2>2 DEF TypeInv
  <2>4. CanUndo' /\ CallsInner'
    BY <1>1, <2>1, <2>2 DEF CanUndo, CallsInner
  <2>5. Tagged(Done(Top'.fn, 0)) = {}
    BY <1>1, <2>1, <2>2, DoneSteps DEF Tagged
  <2>6. data' = before.data \cup Tagged(Done(Outer.fn, Outer.pc))
                           \cup Tagged(Done(Top'.fn, Top'.pc))
    BY <1>1, <1>3, <2>2, <2>5 DEF AtOuter
  <2>7. 0 \in 0..(Len(BodyOf(Top'.fn)) + 1)
    BY <1>1, <2>1, <2>2, ProgramShape DEF Shape
  <2>8. AtInner'
    BY <1>1, <2>1, <2>2, <2>4, <2>6, <2>7 DEF AtInner, Tagged, Body, BodyOf
  <2>. QED
    BY <1>1, <2>2, <2>3, <2>8 DEF TxInv, Refines, Contents, Restored
<1>4. CASE AtInner
  <2>1. Leaf(Top.fn)
    BY <1>1, <1>4, FramesInUse, ProgramShape DEF AtInner, CallsInner, Shape
  <2>. QED
    BY <1>1, <2>1, FunctionNames DEF Leaf
<1>. QED
  BY <1>1, <1>3, <1>4, WhereItIs

\* A function returns to its caller, which goes on.
LEMMA InnerSucceededStep ==
    ASSUME TxInv, InnerSucceeded
    PROVE  TxInv' /\ Refines
<1> DEFINE r == [Top EXCEPT !.pc = @ + 1]
<1>1. /\ TypeInv /\ ~ Idle /\ value = "ok" /\ AtOuter /\ InnerLeft
      /\ frames' = Append(Caller, r)
      /\ value' = "none"
      /\ UNCHANGED <<data, stack, iters, began, before, ret>>
  BY WhereItIs DEF InnerSucceeded, TxInv, Advance
<1>2. /\ Top \in Frame /\ Top = Outer /\ Depth = 1 /\ Outer.fn \in Function
  BY <1>1, FramesInUse DEF AtOuter
<1>3. r \in Frame /\ r.fn = Outer.fn /\ r.pc = Outer.pc + 1 /\ r.way = Outer.way
  BY <1>2 DEF Frame
<1> HIDE DEF r
<1>4. frames' \in Seq(Frame) /\ ~ Idle' /\ Depth' = 1 /\ Outer' = r
  BY <1>1, <1>2, <1>3, FrameReplaced
<1>5. /\ Outer.pc \in DOMAIN BodyOf(Outer.fn)
      /\ stack # <<>>
      /\ data = before.data \cup Tagged(Done(Outer.fn, Outer.pc + 1))
  BY <1>1 DEF InnerLeft, CallsInner
<1>6. r.pc \in 1..(Len(BodyOf(r.fn)) + 1)
  BY <1>2, <1>3, <1>5, ProgramShape DEF Shape
<1>7. CanUndo'
  BY <1>1, <1>3, <1>4 DEF AtOuter, CanUndo, Base, Autocommit
<1>8. AtOuter'
  BY <1>1, <1>2, <1>3, <1>4, <1>5, <1>6, <1>7 DEF AtOuter, Tagged
<1>9. TypeInv' /\ InnerLeft'
  BY <1>1, <1>4 DEF TypeInv, InnerLeft
<1>. QED
  BY <1>1, <1>4, <1>8, <1>9 DEF TxInv, Refines, Contents, Restored

-----------------------------------------------------------------------------
(* The ways out of a function.  From the outermost function a call fails,  *)
(* is lost or succeeds.                                                    *)

\* A failed call
LEMMA CallFails ==
    ASSUME TxInv, ~ Idle, Depth = 1, Leave("failed"), UNCHANGED iters,
           stack' \in Seq(Saved), data' = before.data, Base' = before.base
    PROVE  TxInv' /\ Refines
<1>1. data' \in SUBSET Marks /\ iters' \in SUBSET Nat /\ TypeInv
  BY DEF TxInv, TypeInv
<1>2. /\ TxInv' /\ Atomic!Returns(Outer.fn, "failed")
      /\ UNCHANGED <<Contents, Restored>>
  BY <1>1, LeaveToApplication
<1>3. Atomic!Fail(Outer.fn)
  BY <1>2 DEF Atomic!Fail, Contents, Restored
<1>. QED
  BY <1>1, <1>2, <1>3, FramesInUse DEF Refines, Atomic!Next

\* A call upon which SQLite rolled back the transaction
LEMMA CallIsLost ==
    ASSUME TxInv, ~ Idle, Depth = 1, Leave("lost"), UNCHANGED iters,
           stack' = <<>>,
           data' = IF before.base = NoTx THEN before.data ELSE before.base,
           before.base # NoTx => before.base \in SUBSET Marks
    PROVE  TxInv' /\ Refines
<1>1. data' \in SUBSET Marks /\ iters' \in SUBSET Nat /\ TypeInv
  BY DEF TxInv, TypeInv
<1>2. stack' \in Seq(Saved) /\ Base' = NoTx
  BY EmptySeq DEF Base, Autocommit
<1>3. /\ TxInv' /\ Atomic!Returns(Outer.fn, "lost")
      /\ Contents = before.data /\ Restored = before.base
      /\ Contents' = data' /\ Restored' = NoTx
  BY <1>1, <1>2, LeaveToApplication
<1>4. Atomic!Lose(Outer.fn)
  BY <1>3 DEF Atomic!Lose, Contents, Restored
<1>. QED
  BY <1>1, <1>3, <1>4, FramesInUse DEF Refines, Atomic!Next

\* A call that succeeds
LEMMA CallSucceeds ==
    ASSUME TxInv, ~ Idle, Depth = 1, Leave("ok"), iters' \in SUBSET Nat,
           stack' \in Seq(Saved), Base' = before.base,
           data' = before.data \cup Tagged(Effect[Outer.fn])
    PROVE  TxInv' /\ Refines
<1>1. TypeInv /\ Outer.fn \in Function
  BY FramesInUse DEF TxInv
<1>2. data' \in SUBSET Marks
  <2>1. Len(BodyOf(Outer.fn)) + 1 \in Nat
    BY <1>1, ProgramShape DEF Shape
  <2>2. Tagged(Effect[Outer.fn]) \in SUBSET Marks
    BY <1>1, <2>1, DoneIsMarked, DoneAtEnd
  <2>. QED
    BY <1>1, <2>2 DEF TypeInv
<1>3. /\ TxInv' /\ Atomic!Returns(Outer.fn, "ok")
      /\ Contents = before.data /\ Restored = before.base
      /\ Contents' = data' /\ Restored' = before.base
  BY <1>2, LeaveToApplication
<1>4. Atomic!Succeed(Outer.fn)
  BY <1>3 DEF Atomic!Succeed, Contents, Restored, Tagged
<1>. QED
  BY <1>1, <1>3, <1>4 DEF Refines, Atomic!Next

\* A call that leaves its own transaction open
LEMMA CallOpens ==
    ASSUME TxInv, ~ Idle, Depth = 1, iters' \in SUBSET Nat, UNCHANGED stack,
           \/ Leave("ok") /\ Outer.fn = "cif_loop_get_packets"
           \/ Leave("failed") /\ Outer.fn = "cif_container_get_all_loops",
           data' = before.data, before.base = NoTx, Base' = before.data
    PROVE  TxInv' /\ Refines
<1>1. TypeInv /\ Outer.fn \in Function /\ data' \in SUBSET Marks /\ stack' \in Seq(Saved)
  BY FramesInUse DEF TxInv, TypeInv
<1>2. /\ TxInv'
      /\ \/ /\ Outer.fn = "cif_loop_get_packets"
            /\ Atomic!Returns("cif_loop_get_packets", "ok")
         \/ /\ Outer.fn = "cif_container_get_all_loops"
            /\ Atomic!Returns("cif_container_get_all_loops", "failed")
      /\ Contents = before.data /\ Restored = before.base
      /\ Contents' = data' /\ Restored' = Base'
  BY <1>1, LeaveToApplication
<1>3. Atomic!Open(Outer.fn)
  BY <1>2 DEF Atomic!Open, Contents, Restored
<1>. QED
  BY <1>1, <1>2, <1>3 DEF Refines, Atomic!Next

\* What undoing restores
LEMMA UndoRestores ==
    ASSUME TxInv, ~ Idle, AtOuter, Outer.way # "none", Undo(Outer.way),
           Outer.way = "tx" => stack # <<>> \/ data = before.data
    PROVE  stack' \in Seq(Saved) /\ data' = before.data /\ Base' = before.base
<1>1. stack \in Seq(Saved) /\ Outer.way \in {"tx", "savepoint"} /\ CanUndo
  BY FramesInUse DEF TxInv, TypeInv, Frame, AtOuter
<1>2. CASE Outer.way = "tx"
  <2>1. Rollback /\ before.base = NoTx /\ (stack # <<>> => stack[1].restore = before.data)
    BY <1>1, <1>2 DEF Undo, CanUndo
  <2>2. stack' = <<>> /\ data' = before.data
    BY <1>2, <2>1 DEF Rollback, Autocommit
  <2>. QED
    BY <2>1, <2>2, EmptySeq DEF Base, Autocommit
<1>3. CASE Outer.way = "savepoint"
  <2>1. /\ RollbackTo /\ Len(stack) > 1
        /\ stack[1].restore = before.base /\ stack[Len(stack)].restore = before.data
    BY <1>1, <1>3 DEF Undo, CanUndo
  <2>2. UNCHANGED stack /\ data' = before.data
    BY <2>1 DEF RollbackTo
  <2>3. stack # <<>>
    BY <2>1, EmptySeq
  <2>. QED
    BY <1>1, <2>1, <2>2, <2>3 DEF Base, Autocommit
<1>. QED
  BY <1>1, <1>2, <1>3

\* Or it failed: its caller undoes all that was done.
LEMMA InnerFailedStep ==
    ASSUME TxInv, InnerFailed
    PROVE  TxInv' /\ Refines
<1>1. /\ TypeInv /\ ~ Idle /\ value \in {"failed", "lost"}
      /\ Undo(Top.way) /\ Leave(value) /\ UNCHANGED iters
  BY DEF InnerFailed, TxInv
<1>2. AtOuter /\ InnerLeft /\ Depth = 1 /\ Top = Outer /\ Outer.way = "tx"
  BY <1>1, WhereItIs, FramesInUse DEF AtOuter, InnerLeft, CallsInner
<1>3. stack' \in Seq(Saved) /\ data' = before.data /\ Base' = before.base
  BY <1>1, <1>2, UndoRestores DEF InnerLeft
<1>4. CASE value = "failed"
  BY <1>1, <1>2, <1>3, <1>4, CallFails
<1>5. CASE value = "lost"
  <2>1. stack' = <<>> /\ before.base = NoTx
    BY <1>1, <1>2 DEF Undo, Rollback, AtOuter, CanUndo
  <2>. QED
    BY <1>1, <1>2, <1>3, <1>5, <2>1, CallIsLost
<1>. QED
  BY <1>1, <1>4, <1>5

\* A statement fails, or the end of a function that commits.
LEMMA StatementFailsStep ==
    ASSUME TxInv, StatementFails
    PROVE  TxInv' /\ Refines
<1>1. /\ TypeInv /\ ~ Idle /\ value = "none" /\ Top.pc > 0
      /\ Undo(Top.way) /\ Leave("failed") /\ UNCHANGED iters
      /\ Program[Top.fn].close = "keep" \/ Top.pc \in DOMAIN BodyOf(Top.fn)
  BY DEF StatementFails, TxInv, AtStatement, AtClose, Running, Body, BodyOf
<1>2. Depth = 1 => Top = Outer
  BY <1>1, FramesInUse
<1>3. CASE AtOuter
  <2>1. Depth = 1 /\ Top = Outer /\ Outer.fn \in Function /\ CanUndo
    BY <1>1, <1>2, <1>3, FramesInUse DEF AtOuter
  <2>2. CASE Outer.way # "none"
    <3>1. Outer.way = "tx" => stack # <<>>
      BY <1>1, <1>3 DEF AtOuter
    <3>2. stack' \in Seq(Saved) /\ data' = before.data /\ Base' = before.base
      BY <1>1, <1>3, <2>1, <2>2, <3>1, UndoRestores
    <3>. QED
      BY <1>1, <2>1, <3>2, CallFails
  <2>3. CASE Outer.way = "none"
    <3>1. Program[Outer.fn].open = "none"
      BY <1>3, <2>3 DEF AtOuter
    <3>2. Outer.pc = 1
      BY <1>1, <2>1, <3>1, ProgramShape DEF Shape
    <3>3. data = before.data
      BY <1>1, <1>3, <2>1, <3>2, DoneSteps DEF AtOuter, Tagged
    <3>4. UNCHANGED <<data, stack>> /\ Base = before.base
      BY <1>1, <2>1, <2>3 DEF Undo, CanUndo
    <3>5. Base' = Base /\ stack' \in Seq(Saved)
      BY <1>1, <3>4 DEF Base, Autocommit, TypeInv
    <3>. QED
      BY <1>1, <2>1, <3>3, <3>4, <3>5, CallFails
  <2>. QED
    BY <2>2, <2>3
<1>4. CASE AtInner
  <2>1. Top.way = "savepoint" /\ stack # <<>> /\ Len(stack) > 1
    BY <1>1, <1>4 DEF AtInner
  <2>2. UNCHANGED stack /\ data' = stack[Len(stack)].restore
    BY <1>1, <2>1 DEF Undo, RollbackTo
  <2>3. stack \in Seq(Saved) /\ Len(stack) \in Nat
    BY <1>1, LenProperties DEF TypeInv
  <2>4. stack[Len(stack)] \in Saved
    BY <2>1, <2>3, ElementOfSeq
  <2>5. data' \in SUBSET Marks
    BY <2>2, <2>4 DEF Saved
  <2>. QED
    BY <1>1, <1>4, <2>1, <2>2, <2>3, <2>5, LeaveToFunction DEF Refines
<1>. QED
  BY <1>1, <1>3, <1>4, WhereItIs

\* Functions that only read have nothing to undo.
LEMMA ReadersDoNothing ==
    ASSUME NEW fn \in Function, NEW pc \in Nat,
           \A i \in DOMAIN BodyOf(fn) : BodyOf(fn)[i] \in {"read", "prepare"}
    PROVE  Tagged(Done(fn, pc)) = {} /\ Tagged(Effect[fn]) = {}
<1>1. \A n : Done(fn, n) = {}
  BY FunctionNames DEF Done
<1>2. Effect[fn] = {}
  BY <1>1, DoneAtEnd
<1>. QED
  BY <1>1, <1>2 DEF Tagged

\* cif_container_get_all_loops returns without having ended its transaction.
LEMMA PrepareFailsStep ==
    ASSUME TxInv, PrepareFails
    PROVE  TxInv' /\ Refines
<1>1. /\ TypeInv /\ ~ Idle /\ value = "none" /\ Top.pc > 0
      /\ Leave("failed") /\ UNCHANGED <<data, stack, iters>>
      /\ Top.pc \in DOMAIN BodyOf(Top.fn)
      /\ BodyOf(Top.fn)[Top.pc] = "prepare"
  BY DEF PrepareFails, TxInv, AtStatement, Running, Body, BodyOf
<1>2. /\ Top.fn \in Function /\ Top.pc \in Nat
      /\ Depth = 1 => Top = Outer
  BY <1>1, FramesInUse
<1>3. CASE AtOuter
  <2>1. Depth = 1 /\ Top = Outer /\ CanUndo /\ Outer \in Frame
    BY <1>1, <1>2, <1>3, FramesInUse DEF AtOuter
  <2>2. /\ Outer.fn = "cif_container_get_all_loops"
        /\ Program[Outer.fn].open = "nest"
        /\ \A i \in DOMAIN BodyOf(Outer.fn) : BodyOf(Outer.fn)[i] \in {"read", "prepare"}
    BY <1>1, <1>2, <2>1, ProgramShape DEF Shape
  <2>3. data' = before.data
    BY <1>1, <1>2, <1>3, <2>1, <2>2, ReadersDoNothing DEF AtOuter
  <2>4. Outer.way \in {"tx", "savepoint"}
    BY <1>3, <2>1, <2>2 DEF AtOuter, Frame
  <2>5. stack \in Seq(Saved) /\ Base' = Base
    BY <1>1 DEF TypeInv, Base, Autocommit
  <2>6. CASE Outer.way = "tx"
    <3>1. stack # <<>> /\ before.base = NoTx /\ Base = before.data
      BY <1>1, <1>3, <2>1, <2>6 DEF AtOuter, CanUndo, Base, Autocommit
    <3>. QED
      BY <1>1, <2>1, <2>2, <2>3, <2>5, <3>1, CallOpens DEF TypeInv
  <2>7. CASE Outer.way = "savepoint"
    <3>1. Len(stack) > 1 /\ stack[1].restore = before.base
      BY <2>1, <2>7 DEF CanUndo
    <3>2. stack # <<>>
      BY <3>1, EmptySeq
    <3>3. Base = before.base
      BY <3>1, <3>2 DEF Base, Autocommit
    <3>. QED
      BY <1>1, <2>1, <2>3, <2>5, <3>3, CallFails
  <2>. QED
    BY <2>4, <2>6, <2>7
<1>4. CASE AtInner
  <2>1. Leaf(Top.fn)
    BY <1>1, <1>4, FramesInUse, ProgramShape DEF AtInner, CallsInner, Shape
  <2>. QED
    BY <1>1, <2>1 DEF Leaf
<1>. QED
  BY <1>1, <1>3, <1>4, WhereItIs

\* SQLite rolls back to what the transaction found.
LEMMA EngineRollsBackStep ==
    ASSUME TxInv, EngineRollsBack
    PROVE  TxInv' /\ Refines
<1>1. /\ TypeInv /\ ~ Idle /\ value = "none" /\ Top.pc > 0
      /\ stack # <<>> /\ stack' = <<>> /\ data' = stack[1].restore
      /\ Leave("lost") /\ UNCHANGED iters
  BY DEF EngineRollsBack, TxInv, AtStatement, AtClose, Running, Autocommit, Rollback
<1>2. Base = stack[1].restore /\ Base # NoTx /\ Base \in SUBSET Marks
  BY <1>1, BaseIsMarks DEF TypeInv
<1>3. stack' \in Seq(Saved)
  BY <1>1, EmptySeq
<1>4. CASE AtOuter
  <2>1. Depth = 1 /\ CanUndo /\ Outer.way \in {"tx", "savepoint", "none"}
    BY <1>1, <1>4, FramesInUse DEF AtOuter, Frame
  <2>2. \/ before.base = NoTx /\ data' = before.data
        \/ before.base = Base /\ data' = Base
    BY <1>1, <1>2, <2>1 DEF CanUndo
  <2>. QED
    BY <1>1, <1>2, <2>1, <2>2, CallIsLost
<1>5. CASE AtInner
  <2>1. data' = before.data
    BY <1>1, <1>5 DEF AtInner, CallsInner, CanUndo
  <2>2. data' \in SUBSET Marks
    BY <1>1, <2>1 DEF TypeInv
  <2>. QED
    BY <1>1, <1>3, <1>5, <2>1, <2>2, LeaveToFunction DEF Refines
<1>. QED
  BY <1>1, <1>4, <1>5, WhereItIs

\* The end of the outermost function
LEMMA FinishOuter ==
    ASSUME TxInv, Finish, ~ Idle, value = "none", AtOuter
    PROVE  TxInv' /\ Refines
<1> DEFINE fn == Outer.fn
<1>1. /\ TypeInv /\ Depth = 1 /\ Top = Outer /\ fn \in Function
      /\ Outer \in Frame /\ CanUndo
  BY FramesInUse DEF TxInv, AtOuter
<1>2. /\ Outer.pc = Len(BodyOf(fn)) + 1
      /\ Leave("ok")
      /\ iters' \in {iters, iters \cup {began}}
  BY <1>1 DEF Finish, AtClose, Body, BodyOf
<1>3. data = before.data \cup Tagged(Effect[fn])
  BY <1>1, <1>2, DoneAtEnd DEF AtOuter
<1>4. iters' \in SUBSET Nat /\ stack \in Seq(Saved)
  BY <1>1, <1>2 DEF TypeInv
<1>5. /\ Program[fn].close \in {"keep", "undo", "none"}
      /\ Outer.way \in {"tx", "savepoint", "none"}
  BY <1>1, ProgramShape DEF Shape, Frame
<1>6. CASE Program[fn].close = "keep"
  <2>1. /\ stack' = IF Outer.way = "tx" THEN <<>> ELSE SubSeq(stack, 1, Len(stack) - 1)
        /\ UNCHANGED data
    BY <1>1, <1>6 DEF Finish
  <2>2. CASE Outer.way = "tx"
    <3>1. stack' \in Seq(Saved) /\ Base' = before.base
      BY <1>1, <2>1, <2>2, EmptySeq DEF CanUndo, Base, Autocommit
    <3>. QED
      BY <1>1, <1>2, <1>3, <1>4, <2>1, <3>1, CallSucceeds
  <2>3. CASE Outer.way # "tx"
    <3>1. Outer.way = "savepoint"
      BY <1>1, <1>5, <1>6, <2>3, ProgramShape DEF AtOuter, Shape
    <3>2. Len(stack) > 1 /\ stack[1].restore = before.base
      BY <1>1, <3>1 DEF CanUndo
    <3>3. /\ stack' \in Seq(Saved) /\ Len(stack') = Len(stack) - 1
          /\ stack'[1] = stack[1] /\ Len(stack) \in Nat
      BY <1>4, <2>1, <3>1, <3>2, FrontOfSeq, LenProperties
    <3>4. stack' # <<>>
      BY <3>2, <3>3, EmptySeq
    <3>5. Base' = before.base
      BY <3>2, <3>3, <3>4 DEF Base, Autocommit
    <3>. QED
      BY <1>1, <1>2, <1>3, <1>4, <2>1, <3>3, <3>5, CallSucceeds
  <2>. QED
    BY <2>2, <2>3
<1>7. CASE Program[fn].close = "undo"
  <2>1. Undo(Outer.way)
    BY <1>1, <1>7 DEF Finish
  <2>2. Tagged(Effect[fn]) = {}
    BY <1>1, <1>7, ReadersDoNothing, ProgramShape DEF Shape
  <2>3. Outer.way # "none"
    BY <1>1, <1>7, ProgramShape DEF AtOuter, Shape
  <2>4. stack' \in Seq(Saved) /\ data' = before.data /\ Base' = before.base
    BY <1>3, <2>1, <2>2, <2>3, UndoRestores
  <2>. QED
    BY <1>1, <1>2, <1>4, <2>2, <2>4, CallSucceeds
<1>8. CASE Program[fn].close = "none"
  <2>1. UNCHANGED <<data, stack>>
    BY <1>1, <1>8 DEF Finish
  <2>2. Base' = Base
    BY <2>1 DEF Base, Autocommit
  <2>3. CASE Program[fn].open = "none"
    <3>1. Base = before.base
      BY <1>1, <2>3 DEF AtOuter, CanUndo
    <3>. QED
      BY <1>1, <1>2, <1>3, <1>4, <2>1, <2>2, <3>1, CallSucceeds
  <2>4. CASE Program[fn].open # "none"
    <3>1. fn = "cif_loop_get_packets" /\ Outer.way = "tx"
      BY <1>1, <1>8, <2>4, ProgramShape DEF AtOuter, Shape
    <3>2. Tagged(Effect[fn]) = {}
      BY <1>1, <3>1, ReadersDoNothing, ProgramShape DEF Shape
    <3>3. stack # <<>> /\ before.base = NoTx /\ Base = before.data
      BY <1>1, <3>1 DEF AtOuter, CanUndo, Base, Autocommit
    <3>. QED
      BY <1>1, <1>2, <1>3, <1>4, <2>1, <2>2, <3>1, <3>2, <3>3, CallOpens
  <2>. QED
    BY <2>3, <2>4
<1>. QED
  BY <1>5, <1>6, <1>7, <1>8

\* The end of a function called by another, which releases its savepoint
LEMMA FinishInner ==
    ASSUME TxInv, Finish, AtInner
    PROVE  TxInv' /\ Refines
<1>1. TypeInv /\ ~ Idle
  BY DepthOfIdle DEF TxInv, AtInner
<1>2. /\ Top.fn \in Function /\ Outer.fn \in Function /\ Outer.pc \in Nat
      /\ Outer.pc \in DOMAIN BodyOf(Outer.fn)
      /\ BodyOf(Outer.fn)[Outer.pc] = Top.fn
  BY <1>1, FramesInUse DEF AtInner, CallsInner
<1>3. Program[Top.fn].close = "keep" /\ Leaf(Top.fn)
  BY <1>2, ProgramShape DEF Shape
<1>4. /\ Top.pc > 0 /\ Top.pc = Len(BodyOf(Top.fn)) + 1
      /\ Leave("ok") /\ UNCHANGED data
      /\ stack' = IF Top.way = "tx" THEN <<>> ELSE SubSeq(stack, 1, Len(stack) - 1)
  BY <1>3 DEF Finish, AtClose, Running, Body, BodyOf
<1>5. Top.fn # "cif_loop_get_packets"
  BY <1>2, ProgramShape, ProgramsByName DEF Shape, GetPackets, Tx
<1>6. UNCHANGED iters
  BY <1>5 DEF Finish
<1>7. Top.way = "savepoint" /\ Len(stack) > 1 /\ stack \in Seq(Saved)
  BY <1>1, <1>4 DEF AtInner, TypeInv
<1>8. /\ stack' \in Seq(Saved) /\ Len(stack') = Len(stack) - 1
      /\ stack'[1] = stack[1] /\ Len(stack) \in Nat
  BY <1>4, <1>7, FrontOfSeq, LenProperties
<1>9. stack' # <<>> /\ stack # <<>>
  BY <1>7, <1>8, EmptySeq
<1>10. Done(Outer.fn, Outer.pc + 1) = Done(Outer.fn, Outer.pc) \cup Done(Top.fn, Top.pc)
  <2>1. Done(Top.fn, Top.pc) = OwnEffect(Top.fn)
    BY <1>2, <1>3, <1>4, DoneAtEnd
  <2>2. Top.fn # "write"
    BY <1>2, FunctionNames
  <2>3. Done(Outer.fn, Outer.pc + 1) = Done(Outer.fn, Outer.pc) \cup OwnEffect(Top.fn)
    BY <1>2, <2>2, DoneSteps
  <2>. QED
    BY <2>1, <2>3
<1>11. data' = before.data \cup Tagged(Done(Outer.fn, Outer.pc + 1))
  BY <1>4, <1>10 DEF AtInner, Tagged
<1>12. data' \in SUBSET Marks
  BY <1>1, <1>4 DEF TypeInv
<1>. QED
  BY <1>4, <1>6, <1>8, <1>9, <1>11, <1>12, LeaveToFunction DEF Refines

\* A function ends.
LEMMA FinishStep ==
    ASSUME TxInv, Finish
    PROVE  TxInv' /\ Refines
<1>1. ~ Idle /\ value = "none" /\ Top.pc > 0
  BY DEF Finish, AtClose, Running
<1>. QED
  BY <1>1, WhereItIs, FinishOuter, FinishInner

-----------------------------------------------------------------------------

\* Before the first call
LEMMA TxInvInit == Init => TxInv
BY EmptySeq DEF Init, TxInv, TypeInv, Idle

\* Every step keeps the invariant and is one of AtomicCalls or a stutter.
LEMMA StepRefines == TxInv /\ [Next]_vars => TxInv' /\ Refines
<1>1. ASSUME TxInv, UNCHANGED vars PROVE TxInv' /\ Refines
  <2>1. UNCHANGED <<Idle, Outer, Top, Depth, Base>>
    BY <1>1 DEF vars, Idle, Outer, Top, Depth, Base, Autocommit
  <2>2. UNCHANGED <<TypeInv, CanUndo, CallsInner>>
    BY <1>1, <2>1 DEF vars, TypeInv, CanUndo, CallsInner
  <2>3. UNCHANGED <<NotOpened, AtOuter, InnerLeft, AtInner>>
    BY <1>1, <2>1, <2>2 DEF vars, NotOpened, AtOuter, InnerLeft, AtInner, Tagged,
       Body, BodyOf, TakesIterator
  <2>. QED
    BY <1>1, <2>1, <2>2, <2>3 DEF vars, TxInv, Refines, Contents, Restored
<1>2. ASSUME TxInv, Next PROVE TxInv' /\ Refines
  BY <1>2, CallStep, CallWithStep, CloseStep, OpenTxStep, FailToOpenStep,
     ExecuteStep, StatementFailsStep, PrepareFailsStep, EngineRollsBackStep,
     CallInnerStep, InnerSucceededStep, InnerFailedStep, FinishStep DEF Next
<1>. QED
  BY <1>1, <1>2

\* Whenever a function is about to release its savepoint or to roll back to
\* it, that is the innermost one: although all are named s, and although one
\* that was rolled back to stays.
THEOREM SavepointsAreOwn == Spec => []SavepointIsOwn
<1>1. TxInv => SavepointIsOwn
  <2>1. SUFFICES ASSUME TxInv, ~ Idle, Top.way = "savepoint", value # "lost"
                 PROVE  stack[Len(stack)].owner = Owner
    BY DEF SavepointIsOwn
  <2>2. Depth = 1 => Top = Outer
    BY <2>1, FramesInUse DEF TxInv
  <2>3. CASE NotOpened
    BY <2>1, <2>2, <2>3 DEF NotOpened
  <2>4. CASE AtOuter /\ InnerLeft
    <3>1. Top = Outer /\ Depth = 1 /\ CanUndo /\ Outer.way = "savepoint"
      BY <2>1, <2>2, <2>4 DEF AtOuter
    <3>. QED
      BY <3>1 DEF CanUndo, Owner
  <2>5. CASE AtInner
    <3>1. Depth = 2 /\ Top.pc > 0
      BY <2>1, <2>5, FramesInUse DEF TxInv, AtInner
    <3>. QED
      BY <2>5, <3>1 DEF AtInner, Owner
  <2>. QED
    BY <2>1, <2>3, <2>4, <2>5 DEF TxInv
<1>. QED
  BY <1>1, TxInvInit, StepRefines, PTL DEF Spec

\* Whatever fails within it, a call has all of its effect or none, and leaves
\* open the transaction that it found: the statements implement AtomicCalls.
THEOREM CallsTakeEffectAtOnce == Spec => CallsAreAtomic
<1>1. Init => Atomic!Init
  BY DEF Init, Atomic!Init, Idle, Base, Autocommit
<1>2. TxInv /\ [Next]_vars => Refines
  BY StepRefines
<1>. QED
  BY <1>1, <1>2, TxInvInit, StepRefines, PTL
     DEF Spec, CallsAreAtomic, Atomic!Spec, Refines, Contents, Restored
=============================================================================
