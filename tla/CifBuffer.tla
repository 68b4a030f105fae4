------------------------------ MODULE CifBuffer ------------------------------
(***************************************************************************)
(* The buffer that a list or a table is serialized into (value.c,          *)
(* cif_buf_create, cif_buf_write, cif_buf_read).  The loop that looks for  *)
(* a larger capacity is a step per iteration.  What is written does not    *)
(* matter, only where.  A value is written from the start to the end; then *)
(* the bytes go to the database, and what comes back is only read.         *)
(***************************************************************************)
EXTENDS Integers, TLAPS

CONSTANTS
    Modulus,    \* SIZE_MAX + 1
    Initial,    \* the capacity asked for; DEFAULT_SERIALIZATION_CAP
    Lengths     \* the lengths of what is written and read

\* The values of a size_t; what is assumed of the constants by the proof.
SizesFit ==
    /\ Modulus \in Nat \ {0} /\ Initial \in 0..(Modulus - 1)
    /\ Lengths \subseteq 0..(Modulus - 1)

VARIABLES
    size,       \* the bytes that are allocated
    capacity, limit, position,  \* the fields of the buffer
    pc,         \* "ready", "reading", or in cif_buf_write: "growing",
                \* "allocating", "copying"
    len,        \* its argument
    needed_cap, working_cap, proposed_cap,  \* its variables
    result      \* what it returned last

buf   == <<size, capacity, limit, position>>
local == <<len, needed_cap, working_cap, proposed_cap>>
vars  == <<buf, pc, local, result>>

\* The sum of two sizes wraps around.
Plus(a, b) == IF a + b < Modulus THEN a + b ELSE a + b - Modulus

\* cif_buf_create
Init ==
    /\ size = Initial /\ capacity = Initial /\ limit = 0 /\ position = 0
    /\ pc = "ready" /\ result = "ok"
    /\ len = 0 /\ needed_cap = 0 /\ working_cap = 0 /\ proposed_cap = 0

\* cif_buf_write is called.
Write(l) ==
    /\ pc = "ready"
    /\ len' = l /\ needed_cap' = Plus(position, l) /\ working_cap' = capacity
    /\ IF needed_cap' < position
       THEN pc' = "ready" /\ result' = "error"
       ELSE pc' = (IF needed_cap' > capacity THEN "growing" ELSE "copying") /\ UNCHANGED result
    /\ UNCHANGED <<buf, proposed_cap>>

\* The body of its loop
Propose ==
    LET half == (working_cap * 3 % Modulus) \div 2 IN
    /\ pc = "growing"
    /\ proposed_cap' = IF half < working_cap THEN needed_cap ELSE half
    /\ pc' = IF proposed_cap' < needed_cap THEN "growing" ELSE "allocating"
    /\ UNCHANGED <<buf, len, needed_cap, working_cap, result>>

\* What realloc may do: give what is proposed, give only what is needed, or fail.
Reallocate ==
    /\ pc = "allocating"
    /\ \/ /\ size' \in {proposed_cap, needed_cap}
          /\ pc' = "copying" /\ UNCHANGED result
       \/ pc' = "ready" /\ result' = "memory" /\ UNCHANGED size
    /\ UNCHANGED <<capacity, limit, position, local>>

\* memcpy, and the end
Copy ==
    /\ pc = "copying"
    /\ position' = position + len
    /\ limit' = IF position' > limit THEN position' ELSE limit
    /\ pc' = "ready" /\ result' = "ok"
    /\ UNCHANGED <<size, capacity, local>>

\* cif_value_deserialize: a buffer for reading what was written
StartReading ==
    /\ pc = "ready"
    /\ size' = limit /\ capacity' = limit /\ position' = 0 /\ pc' = "reading"
    /\ UNCHANGED <<limit, local, result>>

\* cif_buf_read of at most l bytes
Read(l) ==
    /\ pc = "reading" /\ position < limit
    /\ position' = IF l > limit - position THEN limit ELSE position + l
    /\ UNCHANGED <<size, capacity, limit, pc, local, result>>

Running == Propose \/ Reallocate \/ Copy
Next == \/ \E l \in Lengths : Write(l) \/ Read(l)
        \/ StartReading \/ Running

\* cif_buf_write is a function that runs: its next step is taken.
Spec == Init /\ [][Next]_vars /\ WF_vars(Running)

---------------------------------------------------------------------------
(* Properties *)

\* cif_buf_write returns: the comment at its loop says that capacity is expanded
\* "by a factor 1.5, as many times as necessary" (value.c:1660).
WriteReturns == [](pc = "growing" => <>(pc # "growing"))

\* Nothing is written or read beyond what is allocated, whatever the recorded
\* capacity says.
NeverOverrun ==
    /\ position <= limit /\ limit <= size
    /\ pc = "copying" => position + len <= size

---------------------------------------------------------------------------
(* The proof that NeverOverrun holds.  Until the buffer is read the position   *)
(* is its end, so that a call that gets past the overflow test needs exactly   *)
(* position + len bytes; the recorded capacity is never more than there are.   *)

BufferTypes ==
    /\ size \in Nat /\ capacity \in Nat /\ limit \in Nat /\ position \in Nat
    /\ len \in Nat /\ needed_cap \in Int /\ working_cap \in Int /\ proposed_cap \in Int
    /\ pc \in {"ready", "growing", "allocating", "copying", "reading"}

BufferInv ==
    /\ BufferTypes
    /\ NeverOverrun
    /\ capacity <= size
    /\ pc # "reading" => position = limit
    /\ pc \in {"growing", "allocating"} => needed_cap = position + len /\ needed_cap > capacity
    /\ pc = "allocating" => needed_cap <= proposed_cap

\* cif_buf_create makes a buffer that satisfies the invariant.
LEMMA InitBuffer == SizesFit /\ Init => BufferInv
BY DEF SizesFit, Init, BufferInv, BufferTypes, NeverOverrun

\* A call of cif_buf_write that does not report an overflow has not overflowed.
LEMMA WriteKeepsBuffer == ASSUME SizesFit, BufferInv, NEW l \in Lengths, Write(l) PROVE BufferInv'
<1>1. l \in 0..(Modulus - 1) /\ Modulus \in Nat
  BY DEF SizesFit
<1>2. needed_cap' >= position => needed_cap' = position + l
  BY <1>1 DEF Write, Plus, BufferInv, BufferTypes
<1>3. needed_cap' \in Int
  BY <1>1 DEF Write, Plus, BufferInv, BufferTypes
<1>. QED
  BY <1>1, <1>2, <1>3 DEF Write, BufferInv, BufferTypes, NeverOverrun, buf

\* An iteration of the loop touches nothing but the proposed capacity.
LEMMA ProposeKeepsBuffer == ASSUME SizesFit, BufferInv, Propose PROVE BufferInv'
<1>1. (working_cap * 3 % Modulus) \div 2 \in Int
  BY DEF SizesFit, BufferInv, BufferTypes
<1>2. proposed_cap' \in Int
  BY <1>1 DEF Propose, BufferInv, BufferTypes
<1>. QED
  BY <1>2 DEF Propose, BufferInv, BufferTypes, NeverOverrun, buf

\* Every call leaves the invariant as it was.
LEMMA NextKeepsBuffer == SizesFit /\ BufferInv /\ [Next]_vars => BufferInv'
<1>. SUFFICES ASSUME SizesFit, BufferInv, [Next]_vars PROVE BufferInv'
  OBVIOUS
<1>1. CASE UNCHANGED vars
  BY <1>1 DEF BufferInv, BufferTypes, NeverOverrun, vars, buf, local
<1>2. ASSUME NEW l \in Lengths, Write(l) PROVE BufferInv'
  BY <1>2, WriteKeepsBuffer
<1>3. ASSUME NEW l \in Lengths, Read(l) PROVE BufferInv'
  BY <1>3 DEF SizesFit, Read, BufferInv, BufferTypes, NeverOverrun, local
<1>4. CASE StartReading
  BY <1>4 DEF StartReading, BufferInv, BufferTypes, NeverOverrun, local
<1>5. CASE Propose
  BY <1>5, ProposeKeepsBuffer
<1>6. CASE Reallocate
  BY <1>6 DEF Reallocate, BufferInv, BufferTypes, NeverOverrun, local
<1>7. CASE Copy
  BY <1>7 DEF Copy, BufferInv, BufferTypes, NeverOverrun, local
<1>. QED
  BY <1>1, <1>2, <1>3, <1>4, <1>5, <1>6, <1>7 DEF Next, Running

\* Nothing is written or read beyond what is allocated, for every size of the
\* buffer and of what is written to it.
THEOREM BufferSafe == ASSUME SizesFit PROVE Spec => []NeverOverrun
<1>1. BufferInv => NeverOverrun
  BY DEF BufferInv
<1>2. Init => BufferInv
  BY InitBuffer
<1>3. BufferInv /\ [Next]_vars => BufferInv'
  BY NextKeepsBuffer
<1>. QED
  BY <1>1, <1>2, <1>3, PTL DEF Spec

=============================================================================
