------------------------------ MODULE CifValue ------------------------------
(***************************************************************************)
(* Value objects (value.c): characters, numbers, lists, tables, unknown    *)
(* and not-applicable values.  A list holds pointers to value objects, a   *)
(* table entry holds one, and the application holds pointers to whatever   *)
(* objects it created or looked up, so the state is the heap of objects.   *)
(* The keys of a table and the strings they own are the business of CifMap.*)
(* No allocation fails.  The application frees only what it owns, and does *)
(* not have a part of an object copied onto that object: the target is     *)
(* cleaned first, as cif.h says, and the part would be gone.  Calls that   *)
(* the kind of an object or an index out of range make fail at once change *)
(* nothing and are left out.                                               *)
(***************************************************************************)
EXTENDS CifNumb, CifChars, SequencesExt, TLC

CONSTANTS
    MaxObjects, \* bound: the objects that exist at a time
    Kinds,      \* the kinds it creates values of
    Keys,       \* the keys of tables
    Texts,      \* the texts the application sets and parses
    InitCalls,  \* the <<n, su, scale, leading>> it initializes numbers with
    AutoCalls,  \* the <<n, su, rule>> it has numbers scaled with
    CommonTexts, CommonInits, \* bound: the texts, and the numbers, that it uses
                              \* when there are several objects
    Growth      \* the slots that a short list grows by; 4 in the code

\* The numbers n and uncertainties su are in eighths.
ASSUME ValueAssumption ==
    /\ Kinds \subseteq {"char", "numb", "list", "table", "na", "unk"}
    /\ MaxObjects \in Nat /\ Growth \in Nat \ {0}
    /\ \A c \in InitCalls : c[2] \in Nat /\ c[4] \in Nat
    /\ \A c \in AutoCalls : c[2] \in Nat /\ c[3] \in Nat \ {0, 1}

VARIABLES
    heap,   \* the objects: Free, or what they hold
    held,   \* the objects that the application has to free
    call    \* the last call: what, on which object, from which, with which other
            \* argument, and its result

vars == <<heap, held, call>>

Ids  == 1..MaxObjects
Free == [kind |-> "free"]
Unk  == [kind |-> "unk"]
Na   == [kind |-> "na"]
Char(text, quoted)       == [kind |-> "char", text |-> text, quoted |-> quoted]
List(elements, capacity) == [kind |-> "list", elements |-> elements, capacity |-> capacity]
Table(entries)           == [kind |-> "table", entries |-> entries]
Nobody == 0     \* a NULL value pointer

Live == {id \in Ids : heap[id] # Free}

\* The objects that an object owns directly.
Parts(v) ==
    IF v.kind = "list" THEN {v.elements[i] : i \in DOMAIN v.elements}
    ELSE IF v.kind = "table" THEN {v.entries[i].val : i \in DOMAIN v.entries}
    ELSE {}

RECURSIVE Below(_, _)
Below(h, id) == UNION {{e} \cup Below(h, e) : e \in Parts(h[id])}

\* What an object looks like from outside: its contents without addresses.  No
\* digits are as good as one zero.
RECURSIVE Tree(_, _)
Tree(h, id) ==
    LET v == h[id] IN
    IF v.kind = "list"
    THEN [kind |-> "list", elements |-> [i \in DOMAIN v.elements |-> Tree(h, v.elements[i])]]
    ELSE IF v.kind = "table"
    THEN [kind |-> "table",
          entries |-> [i \in DOMAIN v.entries |->
                         [key |-> v.entries[i].key, val |-> Tree(h, v.entries[i].val)]]]
    ELSE IF v.kind = "numb" /\ v.digits = <<>> THEN [v EXCEPT !.digits = <<"0">>]
    ELSE v

---------------------------------------------------------------------------
(* Making and copying objects *)

\* malloc: which object it returns makes no difference.
Fresh(h) == Min({id \in Ids : h[id] = Free})

CleanLeavingParts(h, id) == [h EXCEPT ![id] = Unk]

\* cif_value_clean, and the functions that clean each kind
Clean(h, id) == [e \in Ids |-> IF e = id THEN Unk ELSE IF e \in Below(h, id) THEN Free ELSE h[e]]

\* cif_value_create, cif_value_init: what a new value of a kind holds
Default(kind) ==
    CASE kind = "char"  -> Char(<<>>, TRUE)
      [] kind = "numb"  -> InitNumb(0, 0, 0, 1)
      [] kind = "list"  -> List(<<>>, 0)
      [] kind = "table" -> Table(<<>>)
      [] kind = "na"    -> Na
      [] OTHER          -> Unk

\* cif_value_clone onto an existing object, which is cleaned first.  The copy of
\* a list grows in place, so that a list which contains the target copies what
\* the target holds by then; the copy of a table is put in place at the end.
RECURSIVE Clone(_, _, _)
Clone(h, from, to) ==
    LET c == Clean(h, to)
        v == c[from]
        CopyOf(g, e) == Clone([g EXCEPT ![Fresh(g)] = Unk], e, Fresh(g))
    IN  IF v.kind = "list"
        THEN FoldLeft(LAMBDA g, e : [CopyOf(g, e) EXCEPT ![to].elements = Append(@, Fresh(g))],
                      [c EXCEPT ![to] = List(<<>>, Len(v.elements))], v.elements)
        ELSE IF v.kind = "table"
        THEN LET copied == FoldLeft(
                    LAMBDA a, e : [heap |-> CopyOf(a.heap, e.val),
                                   entries |-> Append(a.entries, [e EXCEPT !.val = Fresh(a.heap)])],
                    [heap |-> c, entries |-> <<>>], v.entries)
             IN  [copied.heap EXCEPT ![to] = Table(copied.entries)]
        ELSE [c EXCEPT ![to] = v]

\* cif_value_clone with no object to put the clone in
NewClone(h, from) == Clone([h EXCEPT ![Fresh(h)] = Unk], from, Fresh(h))

---------------------------------------------------------------------------
(* Quoting *)

\* cif_value_set_quoted and, with brackets that are no error, cif_value_try_quoted:
\* the value and the result.
SetQuoted(v, quoted, bracketResult) ==
    LET became(x) == [val |-> x, result |-> "ok"]
        refused   == [val |-> v, result |-> "argument"]
    IN  CASE v.kind \in {"list", "table"} -> IF quoted THEN refused ELSE became(v)
          [] v = Unk -> became(IF quoted THEN Char(UnkText, TRUE) ELSE v)
          [] v = Na  -> became(IF quoted THEN Char(NaText, TRUE) ELSE v)
          [] v.kind = "numb" \/ quoted \/ ~v.quoted -> became([v EXCEPT !.quoted = quoted])
          [] OTHER ->
                CASE v.text = <<>>     -> refused
                  [] v.text = UnkText  -> became(Unk)
                  [] v.text = NaText   -> became(Na)
                  [] Reserved(v.text) \/ Has(v.text, Whitespace) -> refused
                  [] Has(v.text, Brackets) -> [val |-> v, result |-> bracketResult]
                  [] OTHER -> became([v EXCEPT !.quoted = FALSE])

\* cif_value_convert_to_numb: a number keeps the quoting it had as text.
Converted(v) ==
    LET n == ParseNumb(v.text) IN IF n = Invalid THEN v ELSE [n EXCEPT !.quoted = v.quoted]

---------------------------------------------------------------------------
(* Storing *)

\* SERIALIZE: a value as a sequence of units.
RECURSIVE Serialize(_, _)
Serialize(h, id) ==
    LET v == h[id]
        Entry(e) == <<0, e.key>> \o Serialize(h, e.val)
    IN  <<v.kind>> \o
        CASE v.kind \in {"char", "numb"} -> <<v.text, v.quoted>>
          [] v.kind = "list" ->
                <<Len(v.elements)>> \o FoldLeft(LAMBDA s, e : s \o Serialize(h, e), <<>>, v.elements)
          [] v.kind = "table" -> FoldLeft(LAMBDA s, e : s \o Entry(e), <<>>, v.entries) \o <<-1>>
          [] OTHER -> <<>>

\* DESERIALIZE onto an object of kind UNK: the heap, and the units left over.
\* The digits of a number are parsed from its text again.
RECURSIVE Deserialize(_, _, _), ReadEntries(_, _, _)
Deserialize(h, s, id) ==
    LET is(v, k) == [heap |-> [h EXCEPT ![id] = v], rest |-> SubSeq(s, k + 1, Len(s))]
        Next1(a, i) ==
            LET new == Fresh(a.heap)
                r   == Deserialize([a.heap EXCEPT ![new] = Unk], a.rest, new)
            IN  [r EXCEPT !.heap[id].elements = Append(@, new)]
    IN  CASE s[1] = "char"  -> is(Char(s[2], s[3]), 3)
          [] s[1] = "numb"  -> is([ParseNumb(s[2]) EXCEPT !.quoted = s[3]], 3)
          [] s[1] = "list"  -> FoldLeft(Next1, is(List(<<>>, s[2]), 2), [i \in 1..s[2] |-> i])
          [] s[1] = "table" -> ReadEntries([h EXCEPT ![id] = Table(<<>>)], SubSeq(s, 2, Len(s)), id)
          [] OTHER          -> is([kind |-> s[1]], 1)
ReadEntries(h, s, id) ==
    IF s[1] = -1 THEN [heap |-> h, rest |-> Tail(s)]
    ELSE LET new == Fresh(h)
             r   == Deserialize([h EXCEPT ![new] = Unk], SubSeq(s, 3, Len(s)), new)
         IN  ReadEntries([r.heap EXCEPT ![id].entries = Append(@, [key |-> s[2], val |-> new])],
                         r.rest, id)

\* Whether the schema accepts the row of a value.
Storable(v) == v.kind = "numb" => v.digits # <<>>

StoredLosingQuotes(h, from, to) ==
    IF h[from].kind \in {"list", "table"}
    THEN Deserialize([h EXCEPT ![to] = Unk], Serialize(h, from), to).heap
    ELSE IF h[from].kind = "char" THEN [h EXCEPT ![to] = Char(h[from].text, FALSE)]
    ELSE [h EXCEPT ![to] = h[from]]

\* SET_VALUE_PROPS, then GET_VALUE_PROPS onto a new object: lists and tables are
\* serialized; a number keeps its columns, except that its sign is in its text.
Stored(h, from, to) ==
    LET v == h[from]
        g == [h EXCEPT ![to] = Unk]
    IN  CASE v.kind \in {"list", "table"} -> Deserialize(g, Serialize(h, from), to).heap
          [] v.kind = "numb" -> [g EXCEPT ![to] = [v EXCEPT !.sign = IF v.text[1] = "-" THEN -1 ELSE 1]]
          [] OTHER -> [g EXCEPT ![to] = v]

---------------------------------------------------------------------------
(* The calls *)

Called(op, id, from, arg, result) ==
    call' = [op |-> op, on |-> id, from |-> from, arg |-> arg, result |-> result]

\* The rest of the state after a call that leaves the application's objects
\* as they are.
Returns(op, id, from, result) == Called(op, id, from, <<>>, result) /\ UNCHANGED held

\* A scalar value takes the place of whatever an object holds.
Becomes(op, id, v) ==
    IF v = Invalid
    THEN Returns(op, id, Nobody, "invalid") /\ UNCHANGED heap
    ELSE Returns(op, id, Nobody, "ok") /\ heap' = [Clean(heap, id) EXCEPT ![id] = v]

\* Bounds: there is room for a copy of `from' and `more' objects, and other
\* objects are made only when what there is is common.
Room(from, more) ==
    /\ Cardinality(Ids \ Live)
        >= more + (IF from = Nobody THEN 0 ELSE Cardinality(Below(heap, from)))
    /\ \A id \in Live : heap[id].kind \in {"char", "numb"} => heap[id].text \in CommonTexts

Alone == Cardinality(Live) = 1

\* cif_value_create
Create(kind) ==
    /\ Room(Nobody, 1)
    /\ heap' = [heap EXCEPT ![Fresh(heap)] = Default(kind)]
    /\ held' = held \cup {Fresh(heap)}
    /\ Called("create", Fresh(heap), Nobody, <<>>, "ok")

\* cif_value_free
FreeValue(id) ==
    /\ id \in held
    /\ heap' = [Clean(heap, id) EXCEPT ![id] = Free]
    /\ held' = held \ {id}
    /\ Called("free", id, Nobody, <<>>, "ok")

\* cif_value_clean and cif_value_init
Init_(id, kind) == Becomes("init", id, Default(kind))

\* cif_value_init_char, cif_value_copy_char
CopyChar(id, text) == Becomes("copy_char", id, Char(text, TRUE))

ParseText(id, text) == Becomes("parse_numb", id, ParseNumb(text))

InitNumber(id, c) == Becomes("init_numb", id, InitNumb(c[1], c[2], c[3], c[4]))

\* cif_value_autoinit_numb cleans the object before it knows that it will succeed.
AutoInitNumber(id, c) ==
    LET v == AutoInitNumb(c[1], c[2], c[3]) IN
    /\ heap' = [Clean(heap, id) EXCEPT ![id] = IF v = Invalid THEN Unk ELSE v]
    /\ Called("autoinit_numb", id, Nobody, c, IF v = Invalid THEN "invalid" ELSE "ok")
    /\ UNCHANGED held

\* cif_value_set_quoted, cif_value_try_quoted
SetQuotedTo(id, quoted, bracketResult) ==
    LET r == SetQuoted(heap[id], quoted, bracketResult)
    IN  /\ heap' = [heap EXCEPT ![id] = r.val]
        /\ Returns("set_quoted", id, Nobody, r.result)

\* cif_value_get_number, cif_value_get_su: text is turned into a number first.
GetNumber(id) ==
    /\ heap' = IF heap[id].kind = "char" THEN [heap EXCEPT ![id] = Converted(heap[id])] ELSE heap
    /\ Returns("get_number", id, Nobody, IF heap'[id].kind = "numb" THEN "ok" ELSE "argument")

\* cif_value_clone into a new object
CloneNew(from) ==
    /\ Room(from, 1)
    /\ heap' = NewClone(heap, from)
    /\ held' = held \cup {Fresh(heap)}
    /\ Called("clone", Fresh(heap), from, <<>>, "ok")

\* cif_value_clone onto an object
CloneOnto(from, id) ==
    /\ Room(from, 0) /\ from \notin Below(heap, id)
    /\ heap' = Clone(heap, from, id)
    /\ Returns("clone", id, from, "ok")

\* cif_container_set_value and cif_container_get_value: a value that went
\* through the database.  The schema may refuse it.
StoreAndGet(from) ==
    /\ Room(from, 1)
    /\ IF Storable(heap[from])
       THEN /\ heap' = Stored(heap, from, Fresh(heap))
            /\ held' = held \cup {Fresh(heap)}
            /\ Called("stored", Fresh(heap), from, <<>>, "ok")
       ELSE Returns("stored", from, from, "error") /\ UNCHANGED heap

---------------------------------------------------------------------------
(* Lists and tables *)

ReplacedByMoving(target, from) ==
    IF from \in {target, Nobody} \/ target \in Below(heap, from) THEN heap
    ELSE [Clean(heap, target) EXCEPT ![target] = heap[from], ![from] = Unk]

\* What set_element_at and set_item_by_key do to an object they replace.
Replaced(target, from) ==
    IF from = target THEN heap
    ELSE IF from = Nobody THEN Clean(heap, target)
    ELSE Clone(heap, from, target)

\* What is inserted: a copy, or an unknown value.
Inserted(from) ==
    IF from = Nobody THEN [heap EXCEPT ![Fresh(heap)] = Unk] ELSE NewClone(heap, from)

Drop(h, id) == [Clean(h, id) EXCEPT ![id] = Free]

\* cif_value_set_element_at
SetElementAt(id, i, from) ==
    LET target == heap[id].elements[i] IN
    /\ from # target => Room(from, 0)
    /\ from = Nobody \/ from \notin Below(heap, target)
    /\ heap' = Replaced(target, from)
    /\ Returns("set_element", target, from, "ok")

CapacityGrownLate(v) == IF Len(v.elements) <= v.capacity THEN v.capacity ELSE v.capacity + Growth

\* cif_value_insert_element_at: the array grows when it is full.
Capacity(v) ==
    IF Len(v.elements) < v.capacity THEN v.capacity
    ELSE v.capacity + (IF v.capacity < 10 THEN Growth ELSE v.capacity \div 2)

InsertElementAt(id, i, from) ==
    LET new == Fresh(heap)
        v   == heap[id]
    IN  /\ Room(from, 1)
        /\ heap' = [Inserted(from) EXCEPT ![id] = List(InsertAt(v.elements, i, new), Capacity(v))]
        /\ Returns("insert_element", new, from, "ok")

\* cif_value_remove_element_at: the element goes to the caller or is freed.
RemoveElementAt(id, i, keep) ==
    LET gone == heap[id].elements[i]
        h == [heap EXCEPT ![id].elements = RemoveAt(@, i)]
    IN  /\ heap' = IF keep THEN h ELSE Drop(h, gone)
        /\ held' = IF keep THEN held \cup {gone} ELSE held
        /\ Called("remove_element", id, gone, <<>>, "ok")

\* The position of a key in a table, 0 if there is none.
Position(v, key) == Max({0} \cup {i \in DOMAIN v.entries : v.entries[i].key = key})

\* cif_value_set_item_by_key
SetItemByKey(id, key, from) ==
    LET v   == heap[id]
        i   == Position(v, key)
        new == Fresh(heap)
    IN  IF i = 0
        THEN /\ Room(from, 1)
             /\ heap' = [Inserted(from) EXCEPT
                            ![id].entries = Append(@, [key |-> key, val |-> new])]
             /\ Returns("set_item", new, from, "ok")
        ELSE LET target == v.entries[i].val IN
             /\ from # target => Room(from, 0)
             /\ from = Nobody \/ from \notin Below(heap, target)
             /\ heap' = Replaced(target, from)
             /\ Returns("set_item", target, from, "ok")

\* cif_value_remove_item_by_key
RemoveItemByKey(id, key, keep) ==
    LET i == Position(heap[id], key)
        gone == heap[id].entries[i].val
        h == [heap EXCEPT ![id].entries = RemoveAt(@, i)]
    IN  /\ i # 0
        /\ heap' = IF keep THEN h ELSE Drop(h, gone)
        /\ held' = IF keep THEN held \cup {gone} ELSE held
        /\ Called("remove_item", id, gone, <<>>, "ok")

Init ==
    /\ heap = [id \in Ids |-> Free]
    /\ held = {}
    /\ call = [op |-> "none", on |-> Nobody, from |-> Nobody, arg |-> <<>>, result |-> "ok"]

ScalarCall(id) ==
    \/ \E kind \in Kinds : Init_(id, kind)
    \/ \E text \in (IF Alone THEN Texts ELSE CommonTexts) : CopyChar(id, text) \/ ParseText(id, text)
    \/ \E c \in (IF Alone THEN InitCalls ELSE CommonInits) : InitNumber(id, c)
    \/ Alone /\ \E c \in AutoCalls : AutoInitNumber(id, c)
    \/ \E quoted \in BOOLEAN, r \in {"ok", "argument"} : SetQuotedTo(id, quoted, r)
    \/ GetNumber(id)

ListCall(id) ==
    /\ heap[id].kind = "list"
    /\ \/ \E i \in DOMAIN heap[id].elements :
            \/ \E from \in Live \cup {Nobody} : SetElementAt(id, i, from)
            \/ \E keep \in BOOLEAN : RemoveElementAt(id, i, keep)
       \/ \E i \in 1..(Len(heap[id].elements) + 1), from \in Live \cup {Nobody} :
            InsertElementAt(id, i, from)

TableCall(id) ==
    /\ heap[id].kind = "table"
    /\ \E key \in Keys :
        \/ \E from \in Live \cup {Nobody} : SetItemByKey(id, key, from)
        \/ \E keep \in BOOLEAN : RemoveItemByKey(id, key, keep)

Next ==
    \/ \E kind \in Kinds : Create(kind)
    \/ \E id \in Live :
        \/ FreeValue(id)
        \/ ScalarCall(id) \/ ListCall(id) \/ TableCall(id)
        \/ CloneNew(id) \/ StoreAndGet(id)
        \/ \E from \in Live : CloneOnto(from, id)

Spec == Init /\ [][Next]_vars

---------------------------------------------------------------------------
(* Properties *)

\* The values form a forest: every object that was allocated and not freed is
\* either the application's to free or belongs to exactly one list or table,
\* whatever was copied, replaced and removed before; so nothing leaks and
\* nothing is freed twice.
EveryValueHasOneOwner ==
    LET places(id) ==
            {<<p, i>> \in Live \X (1..MaxObjects) :
                LET v == heap[p] IN
                \/ v.kind = "list" /\ i \in DOMAIN v.elements /\ v.elements[i] = id
                \/ v.kind = "table" /\ i \in DOMAIN v.entries /\ v.entries[i].val = id}
    IN  /\ held \subseteq Live
        /\ \A id \in Ids :
             Cardinality(places(id)) = IF id \in Live \ held THEN 1 ELSE 0

\* A list never holds more elements than its array has slots, however it came to
\* be: grown, copied or read back from the database.
ListsFitTheirArrays ==
    \A id \in Live : heap[id].kind = "list" => Len(heap[id].elements) <= heap[id].capacity

SameNumber(v, w) ==
    /\ w # Invalid
    /\ NatOf(v.digits, 1, Len(v.digits)) = NatOf(w.digits, 1, Len(w.digits))
    /\ v.sign = w.sign /\ v.scale = w.scale /\ v.su = w.su

\* The text of a number says what the number is: whether it was parsed or written
\* in decimal or in scientific notation, reading it gives the same sign, digits,
\* scale and uncertainty.
NumberReadsItsText ==
    \A id \in Live : heap[id].kind = "numb" => SameNumber(heap[id], ParseNumb(heap[id].text))

\* cif_value_autoinit_numb keeps as many digits as the rule allows: the
\* uncertainty, as rounded, does not exceed the rule, and would exceed it with
\* one more decimal place.
AutoScaleIsLargest ==
    [][LET v == heap'[call'.on]
           c == call'.arg
       IN  call'.op = "autoinit_numb" /\ call'.result = "ok" /\ c[2] # 0 =>
            /\ NatOf(v.su, 1, Len(v.su)) <= c[3]
            /\ Rounded(c[2], v.scale + 1) > c[3]]_vars

\* A copy is a copy: what a call copies into a new object, over an element or an
\* item, or out of the database is what the original was, when the original
\* does not contain the copy.
CopiesAreFaithful ==
    [][LET c == call' IN
       c.op \in {"clone", "insert_element", "set_element", "set_item", "stored"}
       /\ c.result = "ok" /\ c.from \notin {Nobody, c.on} /\ c.on \notin Below(heap, c.from) =>
            Tree(heap', c.on) = Tree(heap, c.from)]_vars

\* A call changes only the object it is given and what contains it: no other
\* object that outlives the call looks different after it, whatever had been
\* copied from or to it earlier.
CallsAreLocal ==
    [][\A id \in Live :
         /\ heap'[id] # Free
         /\ call'.on # id /\ call'.on \notin Below(heap', id) /\ call'.on \notin Below(heap, id)
         /\ id \notin Below(heap, call'.on)
         => Tree(heap', id) = Tree(heap, id)]_vars

---------------------------------------------------------------------------
(* Which object is which makes no difference to any call or property: states   *)
(* are told apart by what the application's objects look like, with the slots  *)
(* of their lists, and by whether they are a forest.                           *)

RECURSIVE Slots(_, _)
Slots(h, id) ==
    LET v == h[id] IN
    IF v.kind = "list"
    THEN <<v.capacity, [i \in DOMAIN v.elements |-> Slots(h, v.elements[i])]>>
    ELSE IF v.kind = "table"
    THEN <<0, [i \in DOMAIN v.entries |-> Slots(h, v.entries[i].val)]>>
    ELSE <<>>

View ==
    IF EveryValueHasOneOwner
    THEN LET look == [id \in held |-> <<Tree(heap, id), Slots(heap, id)>>]
         IN  {<<l, Cardinality({id \in held : look[id] = l})>> : l \in Range(look)}
    ELSE {vars}
=============================================================================
