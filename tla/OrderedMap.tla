---------------------------- MODULE OrderedMap ----------------------------
(***************************************************************************)
(* What a packet or a table value promises its user: a finite map from     *)
(* items to values that remembers the order in which the items came and    *)
(* the spelling last used for each.  Nothing is said of strings, of their  *)
(* owners or of hash tables: CifMap has those and implements this module.  *)
(***************************************************************************)
EXTENDS Integers, Sequences, Functions, Selections

CONSTANTS
    Maps,       \* the handles the application may hold
    Items,      \* the items, whatever the spelling of their names
    Forms,      \* the spellings of a name; 0 is the normalized one
    Values,     \* the values an item may have
    Unk,        \* the unknown value
    MaxNames    \* bound: the longest list of names given at once

VARIABLES
    omap,   \* for each handle in use a sequence of [name, val]
    call    \* the last call: the operation, the handle and what was passed

Spelling == [item : Items, form : Forms]

Vals == Values \cup {Unk}

\* The lists of names without duplicates (up to spelling) made from a set.
NameLists(S) ==
    {s \in UNION {[1..n -> S] : n \in 0..MaxNames} :
        \A i, j \in DOMAIN s : s[i].item = s[j].item => i = j}

ItemsOf(e) == {e[i].name.item : i \in DOMAIN e}

Without(e, it) == Selected(e, {i \in DOMAIN e : e[i].name.item # it})

\* An item already there gets the value and the spelling; another is appended.
With(e, nm, v) ==
    IF nm.item \in ItemsOf(e)
    THEN [i \in DOMAIN e |->
            IF e[i].name.item = nm.item THEN [name |-> nm, val |-> v] ELSE e[i]]
    ELSE Append(e, [name |-> nm, val |-> v])

\* The contents of a map that takes over the row of a loop: its items that the
\* loop has keep their places and spellings, the loop's others follow in the
\* order of the loop, under their normalized names.
Overlay(e, row) ==
    LET kept == Selected(e, {i \in DOMAIN e : e[i].name.item \in ItemsOf(row)})
        new  == Selected(row, {j \in DOMAIN row : row[j].name.item \notin ItemsOf(e)})
        ValOf(it) == row[CHOOSE i \in DOMAIN row : row[i].name.item = it].val
    IN  [i \in DOMAIN kept |-> [kept[i] EXCEPT !.val = ValOf(kept[i].name.item)]] \o new

---------------------------------------------------------------------------
Init == omap = [m \in {} |-> <<>>] /\ call = <<>>

Calls(op, m, args) == call' = <<op, m, args>>

Put(m, e) == omap' = [h \in DOMAIN omap \cup {m} |-> IF h = m THEN e ELSE omap[h]]

Create(m) ==
    /\ m \notin DOMAIN omap
    /\ \E nms \in NameLists(Spelling) :
          /\ Calls("create", m, nms)
          /\ Put(m, [i \in DOMAIN nms |-> [name |-> nms[i], val |-> Unk]])

Set(m) ==
    /\ m \in DOMAIN omap
    /\ \E nm \in Spelling, v \in Vals :
          Calls("set", m, <<nm, v>>) /\ Put(m, With(omap[m], nm, v))

Drop(m) ==
    /\ m \in DOMAIN omap
    /\ \E nm \in Spelling :
          /\ nm.item \in ItemsOf(omap[m])
          /\ Calls("remove", m, nm)
          /\ Put(m, Without(omap[m], nm.item))

\* A row of a loop is read into a new map or over an existing one.
ReadRow(m) ==
    \E nms \in NameLists([item : Items, form : {0}]) :
    \E vs \in [1..Len(nms) -> Vals] :
       LET row == [i \in DOMAIN nms |-> [name |-> nms[i], val |-> vs[i]]]
       IN  /\ Calls("read", m, row)
           /\ Put(m, IF m \in DOMAIN omap THEN Overlay(omap[m], row) ELSE row)

Copy(m) ==
    /\ m \notin DOMAIN omap
    /\ \E n \in DOMAIN omap : Calls("copy", m, n) /\ Put(m, omap[n])

Discard(m) ==
    /\ m \in DOMAIN omap
    /\ Calls("free", m, <<>>)
    /\ omap' = Restrict(omap, DOMAIN omap \ {m})

Next ==
    \E m \in Maps :
       Create(m) \/ Set(m) \/ Drop(m) \/ ReadRow(m) \/ Copy(m) \/ Discard(m)

Spec == Init /\ [][Next]_<<omap, call>>

===========================================================================
