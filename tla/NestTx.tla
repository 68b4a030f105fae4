-------------------------------- MODULE NestTx --------------------------------
(***************************************************************************)
(* The transaction protocol of the library, statement by statement: the    *)
(* macros BEGIN, SAVE, BEGIN_NESTTX and their counterparts of              *)
(* internal/utils.h, the order in which each function uses them, and what  *)
(* becomes of the data when a statement fails.  Module CifStore takes each *)
(* call for one step; this module is why it may.                           *)
(*                                                                         *)
(* A function is a program: how it opens its transaction, the statements   *)
(* it then executes, and how it closes.  A statement is "read", "write",   *)
(* "prepare" (PREPARE_STMT, which returns from the function when it fails) *)
(* or the name of another function, called inside the transaction.  One    *)
(* write stands for a loop of them, and the statements prepared before the *)
(* transaction is opened are part of opening it.  The rows written are     *)
(* abstracted to a mark for each write.  ROLLBACK and ROLLBACK TO fail     *)
(* only for want of a transaction or savepoint.                            *)
(***************************************************************************)
EXTENDS Integers, Sequences, FiniteSets

CONSTANTS MaxCalls,   \* bound: the number of calls in a behaviour
          NoTx        \* no transaction is open


Tx(open, body, close) == [open |-> open, body |-> body, close |-> close]

\* cif_container_create_frame is like cif_create_block.
CreateBlock == Tx("begin", <<"write", "write">>, "keep")

CreateLoopInternal == Tx("nest", <<"write", "read", "write">>, "keep")

AddItemInternal == Tx("nest", <<"write", "write">>, "keep")

AddPacket == Tx("nest", <<"write", "read", "write">>, "keep")

\* cif_container_set_value of an item there is
SetValue == Tx("begin", <<"read", "write">>, "keep")

\* cif_container_set_value of a new item: cif_container_add_scalar.  Where the
\* scalar loop or a packet exists already it does less.
AddScalar ==
    Tx("begin", <<"read", "cif_container_create_loop_internal",
                  "cif_loop_add_item_internal", "cif_loop_add_packet">>, "keep")

RemoveItem == Tx("begin", <<"read", "write">>, "keep")

\* validates the container, prepares and reads, and never commits
GetAllLoops == Tx("nest", <<"read", "prepare", "read">>, "undo")

GetNamesInternal == Tx("nest", <<"read">>, "undo")

\* cif_loop_set_category, and the other functions of a single statement
SetCategory == Tx("none", <<"write">>, "none")

\* leaves its transaction open for the iterator
GetPackets == Tx("begin", <<"read">>, "none")

UpdatePacket == Tx("save", <<"write", "write">>, "keep")

RemovePacket == Tx("save", <<"write", "write">>, "keep")

Program == [cif_create_block                   |-> CreateBlock,
            cif_container_create_loop_internal |-> CreateLoopInternal,
            cif_loop_add_item_internal         |-> AddItemInternal,
            cif_loop_add_packet                |-> AddPacket,
            cif_container_set_value            |-> SetValue,
            cif_container_add_scalar           |-> AddScalar,
            cif_container_remove_item          |-> RemoveItem,
            cif_container_get_all_loops        |-> GetAllLoops,
            cif_loop_get_names                 |-> GetNamesInternal,
            cif_loop_set_category              |-> SetCategory,
            cif_loop_get_packets               |-> GetPackets,
            cif_pktitr_update_packet           |-> UpdatePacket,
            cif_pktitr_remove_packet           |-> RemovePacket]

OwnEffect(fn) == {<<fn, i>> : i \in {i \in DOMAIN Program[fn].body :
                                       Program[fn].body[i] = "write"}}

\* The marks of all the writes of a call
Effect == [fn \in DOMAIN Program |->
             OwnEffect(fn) \cup
             UNION {OwnEffect(g) : g \in DOMAIN Program \cap
                                        {Program[fn].body[i] :
                                           i \in DOMAIN Program[fn].body}}]

\* A mark tells the call, the function and the place of the write.
Marks == Nat \X ((DOMAIN Program) \X Nat)

ASSUME NoTxAssumption == MaxCalls \in Nat /\ NoTx \notin SUBSET Marks

VARIABLES data,    \* the writes in force, as the connection sees them
          stack,   \* the open transaction and its savepoints: what each
                   \* restores and (a ghost) whose it is
          frames,  \* the functions being executed, the innermost last
          value,   \* what the function just left returns to its caller
          iters,   \* open iterators, each by the transaction it opened
          began,   \* the number of transactions begun (a ghost)
          before,  \* data and Base when the call under way was made (a ghost)
          ret      \* the last call: its number, function and outcome

vars == <<data, stack, frames, value, iters, began, before, ret>>

Autocommit == stack = <<>>   \* sqlite3_get_autocommit

Base == IF Autocommit THEN NoTx ELSE stack[1].restore

Init == /\ data = {}
        /\ stack = <<>>
        /\ frames = <<>>
        /\ value = "none"
        /\ iters = {}
        /\ began = 0
        /\ before = [data |-> {}, base |-> NoTx]
        /\ ret = [call |-> 0, fn |-> "cif_create", outcome |-> "ok"]

Idle   == frames = <<>>
Depth  == Len(frames)
Top    == frames[Depth]
Body   == Program[Top.fn].body
Caller == SubSeq(frames, 1, Depth - 1)
Owner  == <<ret.call, Depth>>

Returns(fn, outcome) ==
    ret' = [call |-> ret.call + 1, fn |-> fn, outcome |-> outcome]

\* The innermost function returns, to its caller or to the application.
Leave(outcome) ==
    /\ frames' = Caller
    /\ IF Depth = 1
       THEN Returns(Top.fn, outcome) /\ value' = "none"
       ELSE value' = outcome /\ UNCHANGED ret
    /\ UNCHANGED <<began, before>>

-----------------------------------------------------------------------------
(* Undoing. *)

\* ROLLBACK
Rollback == /\ data' = IF Autocommit THEN data ELSE stack[1].restore
            /\ stack' = <<>>

\* ROLLBACK_TO, of the innermost savepoint, which stays in place
RollbackTo == /\ data' = IF Len(stack) > 1 THEN stack[Len(stack)].restore ELSE data
              /\ UNCHANGED stack

\* Mutation: always ROLLBACK.
UndoWhole(way) == Rollback

\* ROLLBACK_NESTTX, according to _top_tx; ROLLBACK or ROLLBACK_TO where a
\* function always uses the one; nothing after a single statement
Undo(way) == CASE way = "tx"        -> Rollback
               [] way = "savepoint" -> RollbackTo
               [] way = "none"      -> UNCHANGED <<data, stack>>

-----------------------------------------------------------------------------
(* The application's calls.  An iterator whose transaction is gone is told *)
(* by Autocommit alone.                                                    *)

TakesIterator(fn) == Program[fn].open = "save"

Enter(fn, it) ==
    frames' = Append(frames, [fn |-> fn, pc |-> 0, way |-> "none", iter |-> it])

Call(fn) ==
    /\ Idle /\ ret.call < MaxCalls
    /\ ~ TakesIterator(fn)
    /\ before' = [data |-> data, base |-> Base]
    /\ Enter(fn, 0)
    /\ UNCHANGED <<data, stack, value, iters, began, ret>>

CallWith(fn, it) ==
    /\ Idle /\ ret.call < MaxCalls
    /\ TakesIterator(fn)
    /\ IF Autocommit
       THEN Returns(fn, "failed") /\ UNCHANGED <<before, frames>>
       ELSE /\ before' = [data |-> data, base |-> Base]
            /\ Enter(fn, it)
            /\ UNCHANGED ret
    /\ UNCHANGED <<data, stack, value, iters, began>>

\* COMMIT, or ROLLBACK should it fail
CloseIterator(it) ==
    /\ Idle /\ ret.call < MaxCalls
    /\ iters' = iters \ {it}
    /\ \/ /\ Returns("cif_pktitr_close", IF Autocommit THEN "failed" ELSE "ok")
          /\ stack' = <<>>
          /\ UNCHANGED data
       \/ /\ Returns("cif_pktitr_close", "failed")
          /\ Rollback
    /\ UNCHANGED <<frames, value, began, before>>

AbortIterator(it) ==
    /\ Idle /\ ret.call < MaxCalls
    /\ iters' = iters \ {it}
    /\ Returns("cif_pktitr_abort", IF Autocommit THEN "failed" ELSE "ok")
    /\ Rollback
    /\ UNCHANGED <<frames, value, began, before>>

-----------------------------------------------------------------------------
(* The steps of a function. *)

\* Mutation: set_value made to nest like the functions it calls.
OpensNested(fn) ==
    IF fn = "cif_container_add_scalar" THEN "nest" ELSE Program[fn].open

OpensBy(fn) == Program[fn].open

\* BEGIN_NESTTX saves when a transaction is open and begins one otherwise.
WayOf(fn) == IF OpensBy(fn) = "none" THEN "none"
             ELSE IF OpensBy(fn) = "begin" \/ (OpensBy(fn) = "nest" /\ Autocommit)
             THEN "tx" ELSE "savepoint"

OpenTx ==
    /\ ~ Idle /\ value = "none" /\ Top.pc = 0
    /\ OpensBy(Top.fn) = "begin" => Autocommit
    /\ frames' = Append(Caller, [Top EXCEPT !.pc = 1, !.way = WayOf(Top.fn)])
    /\ stack' = IF WayOf(Top.fn) = "none" THEN stack
                ELSE Append(stack, [restore |-> data, owner |-> Owner])
    /\ began' = IF WayOf(Top.fn) = "tx" THEN began + 1 ELSE began
    /\ UNCHANGED <<data, value, iters, before, ret>>

\* The statements cannot be prepared, or BEGIN or SAVE fails.
FailToOpen ==
    /\ ~ Idle /\ value = "none" /\ Top.pc = 0
    /\ Leave("failed")
    /\ UNCHANGED <<data, stack, iters>>

Running == ~ Idle /\ value = "none" /\ Top.pc > 0

AtStatement(kinds) ==
    Running /\ Top.pc \in DOMAIN Body /\ Body[Top.pc] \in kinds

AtClose == Running /\ Top.pc = Len(Body) + 1

Advance == frames' = Append(Caller, [Top EXCEPT !.pc = @ + 1])

Execute ==
    /\ AtStatement({"read", "write", "prepare"})
    /\ data' = IF Body[Top.pc] = "write"
               THEN data \cup {<<ret.call + 1, <<Top.fn, Top.pc>>>>} ELSE data
    /\ Advance
    /\ UNCHANGED <<stack, value, iters, began, before, ret>>

CallInner ==
    /\ AtStatement(DOMAIN Program)
    /\ Enter(Body[Top.pc], 0)
    /\ UNCHANGED <<data, stack, value, iters, began, before, ret>>

InnerSucceeded ==
    /\ value = "ok"
    /\ value' = "none"
    /\ Advance
    /\ UNCHANGED <<data, stack, iters, began, before, ret>>

InnerFailed ==
    /\ value \in {"failed", "lost"}
    /\ Undo(Top.way)
    /\ Leave(value)
    /\ UNCHANGED iters

\* A statement is refused (a constraint, no memory) with no effect of its own,
\* or a COMMIT or RELEASE is.
StatementFails ==
    /\ \/ AtStatement({"read", "write"})
       \/ AtClose /\ Program[Top.fn].close = "keep"
    /\ Undo(Top.way)
    /\ Leave("failed")
    /\ UNCHANGED iters

\* PREPARE_STMT returns from the function: nothing is undone.
PrepareFails ==
    /\ AtStatement({"prepare"})
    /\ Leave("failed")
    /\ UNCHANGED <<data, stack, iters>>

\* A failure upon which SQLite rolls back the whole transaction (disk full,
\* i/o error, no memory); the function's own undoing then fails.
EngineRollsBack ==
    /\ ~ Autocommit
    /\ \/ AtStatement({"read", "write"})
       \/ AtClose /\ Program[Top.fn].close = "keep"
    /\ Rollback
    /\ Leave("lost")
    /\ UNCHANGED iters

\* COMMIT_NESTTX, ROLLBACK_NESTTX (after reading), or neither
Finish ==
    /\ AtClose
    /\ CASE Program[Top.fn].close = "keep" ->
              /\ stack' = IF Top.way = "tx" THEN <<>>
                          ELSE SubSeq(stack, 1, Len(stack) - 1)
              /\ UNCHANGED data
         [] Program[Top.fn].close = "undo" -> Undo(Top.way)
         [] Program[Top.fn].close = "none" -> UNCHANGED <<data, stack>>
    /\ iters' = IF Top.fn = "cif_loop_get_packets" THEN iters \cup {began} ELSE iters
    /\ Leave("ok")

Function == DOMAIN Program

Next == \/ \E fn \in Function : \/ Call(fn)
                                \/ \E it \in iters : CallWith(fn, it)
        \/ \E it \in iters : CloseIterator(it) \/ AbortIterator(it)
        \/ OpenTx \/ FailToOpen
        \/ Execute \/ StatementFails \/ PrepareFails \/ EngineRollsBack
        \/ CallInner \/ InnerSucceeded \/ InnerFailed
        \/ Finish

Spec == Init /\ [][Next]_vars

-----------------------------------------------------------------------------
(* Properties. *)

\* Every call takes place at the moment it returns, as AtomicCalls says: with
\* all its writes or none, leaving open the transaction it found open, and no
\* other (but for get_packets, whose purpose it is, and a get_all_loops that
\* could not prepare its statement).
Atomic == INSTANCE AtomicCalls WITH
            data <- IF Idle THEN data ELSE before.data,
            base <- IF Idle THEN Base ELSE before.base

CallsAreAtomic == Atomic!Spec

\* All savepoints are named s, and one that is rolled back to stays on the
\* stack: still, whenever a function comes to release its savepoint or to
\* roll back to it, the innermost savepoint is its own.
SavepointIsOwn ==
    ~ Idle /\ Top.way = "savepoint" /\ value # "lost"
        => stack[Len(stack)].owner = Owner
=============================================================================
