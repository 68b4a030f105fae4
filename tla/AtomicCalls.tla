------------------------------ MODULE AtomicCalls ------------------------------
(***************************************************************************)
(* What the functions of the library promise of the managed CIF, whatever  *)
(* fails inside them: a call has all of its effect or none, and it says    *)
(* which; what is done while a packet iterator is open is made permanent   *)
(* or undone as a whole when the iterator is closed or aborted.  Module    *)
(* NestTx implements this with the transactions and savepoints of SQLite.  *)
(***************************************************************************)
EXTENDS Integers

CONSTANTS Function,  \* the functions of the library that touch the data
          Effect,      \* the effect of each, as a set of marks
          NoTx         \* no transaction is open

VARIABLES data,  \* the effects in force, each tagged with its call's number
          base,  \* what aborting restores, or NoTx
          ret    \* the last call: its number, function and outcome

Init == /\ data = {}
        /\ base = NoTx
        /\ ret = [call |-> 0, fn |-> "cif_create", outcome |-> "ok"]

Returns(fn, outcome) ==
    ret' = [call |-> ret.call + 1, fn |-> fn, outcome |-> outcome]

Succeed(fn) == /\ data' = data \cup {<<ret.call + 1, e>> : e \in Effect[fn]}
               /\ Returns(fn, "ok")
               /\ UNCHANGED base

Fail(fn) == /\ Returns(fn, "failed")
            /\ UNCHANGED <<data, base>>

\* SQLite itself has given up the transaction that the call was part of.
Lose(fn) == /\ data' = IF base = NoTx THEN data ELSE base
            /\ base' = NoTx
            /\ Returns(fn, "lost")

\* cif_loop_get_packets; and cif_container_get_all_loops when it fails, which
\* should have ended the transaction it began.
Open(fn) == /\ base = NoTx
            /\ base' = data
            /\ \/ fn = "cif_loop_get_packets" /\ Returns(fn, "ok")
               \/ fn = "cif_container_get_all_loops" /\ Returns(fn, "failed")
            /\ UNCHANGED data

Close == /\ base # NoTx
         /\ base' = NoTx
         /\ \/ Returns("cif_pktitr_close", "ok") /\ UNCHANGED data
            \/ Returns("cif_pktitr_close", "failed") /\ data' = base

Abort == /\ base # NoTx
         /\ data' = base
         /\ base' = NoTx
         /\ Returns("cif_pktitr_abort", "ok")

\* The iterator has outlived its transaction.
EndNothing(fn) == base = NoTx /\ Fail(fn)

Next == \/ \E fn \in Function : Succeed(fn) \/ Fail(fn) \/ Lose(fn) \/ Open(fn)
        \/ Close
        \/ Abort
        \/ EndNothing("cif_pktitr_close") \/ EndNothing("cif_pktitr_abort")

Spec == Init /\ [][Next]_<<data, base, ret>>
=============================================================================
