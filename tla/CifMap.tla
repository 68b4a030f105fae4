------------------------------ MODULE CifMap ------------------------------
(***************************************************************************)
(* Packets and table values (map.c, packet.c, the packets of pktitr.c, the *)
(* tables of value.c): hash tables whose entries hold two strings each,    *)
(* the normalized name `key' and the name as it was given, `key_orig'.     *)
(* The two may be one string.  The model is about who owns which string:   *)
(* strings live in blocks of memory, and an operation takes and frees      *)
(* blocks as the code does.  Every map the interface hands out is          *)
(* standalone, that is, its strings are its own.  Values are atoms here.   *)
(***************************************************************************)
EXTENDS Integers, Sequences, FiniteSets, Functions, Selections

CONSTANTS
    Maps,       \* the handles the application may hold
    Items,      \* the items, whatever the spelling of their names
    Forms,      \* the spellings of a name; 0 is the normalized one
    Values, Unk,
    MaxNames,   \* bound: the longest list of names given at once
    RespellNormalized   \* whether the application ever sets, under another
                        \* spelling, an item whose two strings are one

ASSUME MapAssumption ==
    /\ 0 \in Forms /\ Unk \notin Values \cup Maps
    /\ MaxNames \in Nat
    /\ RespellNormalized \in BOOLEAN

VARIABLES
    mem,    \* the strings: a function from allocated blocks to spellings
    maps,   \* for each handle in use its entries [key, orig, val] in order
    tables, \* the handles that are table values; the others are packets
    itr,    \* the item_names of the open packet iterator, as blocks
    call    \* the last call that concerned a map, with its arguments

vars == <<mem, maps, tables, itr, call>>

\* What the application sees of entries, their strings being as in `strings',
\* and of the maps
Shown(strings, es) == [i \in DOMAIN es |-> [name |-> strings[es[i].orig], val |-> es[i].val]]

Seen == [m \in DOMAIN maps |-> Shown(mem, maps[m])]

OM == INSTANCE OrderedMap WITH omap <- Seen

Spelling == [item : Items, form : Forms]
Vals     == Values \cup {Unk}
Names    == OM!NameLists(Spelling)

\* cif_normalize_item_name, cif_normalize_table_index
Norm(s) == [s EXCEPT !.form = 0]

---------------------------------------------------------------------------
(* Strings *)

\* malloc.  Which block it returns makes no difference to the code; here blocks
\* have names: the handle and the item they are first used for, and a number.
Block(h, s, k) ==
    LET free == {n \in 1..3 : <<h, s.item, n>> \notin DOMAIN mem}
    IN  <<h, s.item, Ascending(free)[k]>>

\* free
Free(freed) == mem' = Restrict(mem, DOMAIN mem \ freed)

\* cif_u_strdup and free: the blocks of `freed' go, the strings `new' are added.
Store(new, freed) ==
    mem' = [b \in (DOMAIN mem \ freed) \cup DOMAIN new |->
              IF b \in DOMAIN new THEN new[b] ELSE mem[b]]

CleanMetadataKeepingKey(e) == {e.orig}

\* cif_map_entry_clean_metadata_internal, on a standalone map
CleanMetadata(e) == (IF e.key # e.orig THEN {e.key} ELSE {}) \cup {e.orig}

\* The strings of the entries of es at the positions P.
CleanAll(es, P) == UNION {CleanMetadata(es[i]) : i \in P}

\* HASH_FIND
Matches(es, nm) == {i \in DOMAIN es : mem[es[i].key] = Norm(nm)}

\* New entries of map m, named nms, with the values vs.  Each has its key in a
\* block of its own; those in `two' have one for the name as given as well.
NewEntries(m, nms, vs, two) ==
    [i \in DOMAIN nms |-> [key  |-> Block(m, nms[i], 1),
                           orig |-> Block(m, nms[i], IF i \in two THEN 2 ELSE 1),
                           val  |-> vs[i]]]

\* The strings of those entries.
NewStrings(m, nms, two) ==
    LET keys  == {Block(m, nms[i], 1) : i \in DOMAIN nms}
        names == {Block(m, nms[i], 2) : i \in two}
        Named(b) == nms[CHOOSE i \in DOMAIN nms : b \in {Block(m, nms[i], 1), Block(m, nms[i], 2)}]
    IN  [b \in keys \cup names |-> IF b \in keys THEN Norm(Named(b)) ELSE Named(b)]

---------------------------------------------------------------------------
(* Operations *)

\* A key or a name read after it was freed: what the code does then is
\* undefined, and the model goes no further.
KeysBelongToEntries ==
    \A m \in DOMAIN maps : \A i \in DOMAIN maps[m] :
        {maps[m][i].key, maps[m][i].orig} \subseteq DOMAIN mem

SetMap(m, es) == maps' = [h \in DOMAIN maps \cup {m} |-> IF h = m THEN es ELSE maps[h]]

Calls(op, m, args) == call' = <<op, m, args>>

\* A new map whose entries have the names nms and the values vs.
NewMap(m, nms, vs, two) ==
    /\ SetMap(m, NewEntries(m, nms, vs, two))
    /\ Store(NewStrings(m, nms, two), {})

\* cif_packet_create: the names are normalized into strings the packet keeps;
\* a name that differs from its normalized form gets a string of its own.
PacketCreate(m) ==
    /\ m \notin DOMAIN maps
    /\ \E nms \in Names :
          /\ NewMap(m, nms, [i \in DOMAIN nms |-> Unk], {i \in DOMAIN nms : nms[i].form # 0})
          /\ Calls("create", m, nms)
    /\ tables' = tables \ {m}
    /\ UNCHANGED itr

\* cif_value_create(CIF_TABLE_KIND)
TableCreate(m) ==
    /\ m \notin DOMAIN maps
    /\ SetMap(m, <<>>)
    /\ Calls("create", m, <<>>)
    /\ tables' = tables \cup {m}
    /\ UNCHANGED <<mem, itr>>

SetExistingAsNamed(m, nm, v, i) == SetMap(m, [maps[m] EXCEPT ![i].val = v]) /\ UNCHANGED mem

\* cif_map_set_item where the item is there: a copy of another spelling takes
\* the place of key_orig, which is freed although it may be the key as well.
\* (The copy is given the name of the block it replaces, unless that is the key.)
SetExisting(m, nm, v, i) ==
    LET e == maps[m][i]
        copy == IF e.key = e.orig THEN Block(m, nm, 1) ELSE e.orig
    IN  /\ RespellNormalized \/ e.key # e.orig \/ mem[e.orig] = nm
        /\ IF mem[e.orig] = nm
           THEN SetMap(m, [maps[m] EXCEPT ![i].val = v]) /\ UNCHANGED mem
           ELSE /\ Store([b \in {copy} |-> nm], {e.orig})
                /\ SetMap(m, [maps[m] EXCEPT ![i] = [@ EXCEPT !.orig = copy, !.val = v]])

\* cif_map_set_item where it is not: the entry has two strings of its own.
SetNew(m, nm, v) ==
    /\ Matches(maps[m], nm) = {}
    /\ SetMap(m, maps[m] \o NewEntries(m, <<nm>>, <<v>>, {1}))
    /\ Store(NewStrings(m, <<nm>>, {1}), {})

\* cif_packet_set_item, cif_value_set_item_by_key
SetItem(m) ==
    /\ m \in DOMAIN maps
    /\ \E nm \in Spelling, v \in Vals :
          /\ Calls("set", m, <<nm, v>>)
          /\ \/ \E i \in Matches(maps[m], nm) : SetExisting(m, nm, v, i)
             \/ SetNew(m, nm, v)
    /\ UNCHANGED <<tables, itr>>

\* cif_map_retrieve_item with do_remove: the entry leaves the map, its strings
\* are freed; its value is freed, too, or becomes the caller's.
RemoveItem(m) ==
    /\ m \in DOMAIN maps
    /\ \E nm \in Spelling : \E i \in Matches(maps[m], nm) :
          /\ Calls("remove", m, nm)
          /\ Free(CleanMetadata(maps[m][i]))
          /\ SetMap(m, Selected(maps[m], DOMAIN maps[m] \ {i}))
    /\ UNCHANGED <<tables, itr>>

\* cif_packet_free, cif_value_free
MapFree(m) ==
    /\ m \in DOMAIN maps
    /\ Calls("free", m, <<>>)
    /\ Free(CleanAll(maps[m], DOMAIN maps[m]))
    /\ maps' = Restrict(maps, DOMAIN maps \ {m})
    /\ tables' = tables \ {m}
    /\ UNCHANGED itr

\* cif_value_clone_table: both strings of each entry are copied.
CloneTable(n, m) ==
    /\ n \in tables \cap DOMAIN maps /\ m \notin DOMAIN maps
    /\ Calls("copy", m, n)
    /\ LET es == maps[n] IN
       NewMap(m, [i \in DOMAIN es |-> mem[es[i].orig]], [i \in DOMAIN es |-> es[i].val],
              DOMAIN es)
    /\ tables' = tables \cup {m}
    /\ UNCHANGED itr

\* Whether each entry has its key in one string and its key_orig in another
Storable(es) == \A i \in DOMAIN es : es[i].key # es[i].orig

\* cif_table_serialize, later cif_table_deserialize into a new value.  A key that
\* is its key_orig is written with NULL for the latter, whose length of -1 does
\* not fit the buffer: a table with such an entry is refused, and all stays.
StoreTable(n, m) ==
    /\ n \in tables \cap DOMAIN maps /\ m \notin DOMAIN maps
    /\ Storable(maps[n])
    /\ Calls("copy", m, n)
    /\ LET es == maps[n] IN
       NewMap(m, [i \in DOMAIN es |-> mem[es[i].orig]], [i \in DOMAIN es |-> es[i].val],
              DOMAIN es)
    /\ tables' = tables \cup {m}
    /\ UNCHANGED itr

---------------------------------------------------------------------------
(* The packets of an iterator *)

\* cif_loop_get_packets: the iterator has normalized names of its own.
OpenIterator ==
    /\ itr = <<>>
    /\ \E nms \in Names \ {<<>>} :
          /\ \A i \in DOMAIN nms : nms[i].form = 0
          /\ itr' = [i \in DOMAIN nms |-> Block(Unk, nms[i], 1)]
          /\ Store(NewStrings(Unk, nms, {}), {})
    /\ UNCHANGED <<maps, tables, call>>

\* cif_pktitr_free
CloseIterator ==
    /\ itr # <<>>
    /\ itr' = <<>>
    /\ Free(Range(itr))
    /\ UNCHANGED <<maps, tables, call>>

RowNames == [i \in DOMAIN itr |-> mem[itr[i]]]

\* cif_packet_create_norm with avoid_aliasing, filled in from the database
Row(vs) == [i \in DOMAIN itr |-> [name |-> mem[itr[i]], val |-> vs[i]]]

\* cif_pktitr_next_packet for a caller that has no packet.
NextPacketNew(m) ==
    /\ itr # <<>> /\ m \notin DOMAIN maps
    /\ \E vs \in [DOMAIN itr -> Vals] :
          NewMap(m, RowNames, vs, {}) /\ Calls("read", m, Row(vs))
    /\ tables' = tables \ {m}
    /\ UNCHANGED itr

\* The name of the row that is an entry's key, if there is one
Source(e) == {j \in DOMAIN itr : mem[itr[j]] = mem[e.key]}

\* The entries of a packet that the loop has, and the names they lack
Kept(es) == {i \in DOMAIN es : Source(es[i]) # {}}
Left(es) == {j \in DOMAIN itr : \A i \in DOMAIN es : mem[es[i].key] # mem[itr[j]]}

\* The entries that stay get the values of the row.
Refilled(es, vs) ==
    LET old == Selected(es, Kept(es))
    IN  [i \in DOMAIN old |-> [old[i] EXCEPT !.val = vs[CHOOSE j \in Source(old[i]) : TRUE]]]

\* cif_pktitr_next_packet into the packet of the caller: entries the loop does
\* not have are freed, those it has get the row's values, and the entries left
\* in the temporary packet are moved over: the temporary key becomes key_orig
\* next to a new copy.
NextPacketInto(m) ==
    /\ itr # <<>> /\ m \in DOMAIN maps \ tables
    /\ LET es  == maps[m]
           nms == Selected(RowNames, Left(es))
       IN  \E vs \in [DOMAIN itr -> Vals] :
             /\ Calls("read", m, Row(vs))
             /\ SetMap(m, Refilled(es, vs)
                          \o NewEntries(m, nms, Selected(vs, Left(es)), DOMAIN nms))
             /\ Store(NewStrings(m, nms, DOMAIN nms), CleanAll(es, DOMAIN es \ Kept(es)))
    /\ UNCHANGED <<tables, itr>>

---------------------------------------------------------------------------
Init ==
    /\ mem = [b \in {} |-> <<>>] /\ maps = [m \in {} |-> <<>>]
    /\ tables = {} /\ itr = <<>> /\ call = <<>>

Next ==
    /\ KeysBelongToEntries
    /\ \/ \E m \in Maps :
            \/ PacketCreate(m) \/ TableCreate(m) \/ SetItem(m) \/ RemoveItem(m) \/ MapFree(m)
            \/ NextPacketNew(m) \/ NextPacketInto(m)
       \/ \E n, m \in Maps : CloneTable(n, m) \/ StoreTable(n, m)
       \/ OpenIterator \/ CloseIterator

Spec == Init /\ [][Next]_vars

\* The variable call is an output: no action reads it.
View == <<mem, maps, tables, itr>>

---------------------------------------------------------------------------
(* Properties *)

\* The strings of an entry, one or two.
Held(m, i) == {maps[m][i].key, maps[m][i].orig}

Owners == UNION {{<<m, i>> : i \in DOMAIN maps[m]} : m \in DOMAIN maps}

\* Every string in memory has one owner, an entry of one map or the iterator:
\* none is shared or leaked, and none an owner has was freed.  The strings of
\* a packet read through an iterator are no exception: they do not depend on
\* the iterator, nor on the temporary packet they came in.
StringsHaveOneOwner ==
    LET held == UNION {Held(o[1], o[2]) : o \in Owners} IN
    /\ \A o, p \in Owners : o # p => Held(o[1], o[2]) \cap Held(p[1], p[2]) = {}
    /\ held \cap Range(itr) = {}
    /\ held \cup Range(itr) = DOMAIN mem
    /\ IsInjective(itr)

\* Seen through the interface, a packet or a table is a map that remembers
\* the order and the spelling of its names, whichever strings are shared: the
\* operations implement those of OrderedMap.
ActsAsMap == OM!Spec

===========================================================================
