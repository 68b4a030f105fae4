------------------------------- MODULE CifStore -------------------------------
(***************************************************************************)
(* A managed CIF as an application of the library sees it: the functions   *)
(* of cif.c, container.c, loop.c and pktitr.c over the relational store of *)
(* module CifTables.  The library is single threaded and runs no callback  *)
(* inside these functions, so a call is one step.  What interleaves are    *)
(* the calls themselves: the calls made while a packet iterator holds the  *)
(* connection's transaction open, and the calls made through handles that  *)
(* cache data other calls have changed since.                              *)
(*                                                                         *)
(* SQLite's hard failures (no memory, disk full) are left to module        *)
(* NestTx, which takes the transaction protocol apart.                     *)
(***************************************************************************)
EXTENDS CifTables, Sequences

CONSTANTS CodeSpelling,  \* block and frame codes as an application writes them
          NormCode,      \* what cif_normalize_name makes of each
          ItemSpelling,  \* data names as an application writes them
          NormItem,      \* what cif_normalize_item_name makes of each
          Invalid,       \* the normalization of an invalid code or name
          LoopCategory,  \* categories given to cif_container_create_loop
          NewCategory,   \* categories given to cif_loop_set_category
          Slot,          \* variables in which the application keeps loop handles
          NameLists,     \* lists of names given to cif_container_create_loop
          Packets,       \* packets the application builds
          UnsetsScalar,  \* the application gives the scalar loop no category
          MaxId, MaxLoopNum, MaxRow   \* bounds of the model

ASSUME NormAssumption ==
    /\ NormCode \in [CodeSpelling -> Code \cup {Invalid}]
    /\ NormItem \in [ItemSpelling -> ItemName \cup {Invalid}]
    /\ Invalid \notin Code
    /\ Invalid \notin ItemName

ASSUME ArgumentAssumption ==
    /\ LoopCategory \subseteq AnyCategory
    /\ NewCategory \subseteq AnyCategory
    /\ NameLists \subseteq Seq(ItemSpelling)
    /\ \A pkt \in Packets : /\ DOMAIN pkt \subseteq ItemName
                            /\ \A nm \in DOMAIN pkt : pkt[nm] \in Value
    /\ UnsetsScalar \in BOOLEAN

CONSTANT Unknown   \* the value of kind CIF_UNK_KIND

ASSUME UnknownAssumption == Unknown \in Value

VARIABLES
    db,          \* the tables as the connection sees them
    autocommit,  \* sqlite3_get_autocommit: no transaction is open
    saved,       \* the tables "rollback" restores while one is open
    cont,        \* container handles given out; each may have been copied
    lh,          \* loop handles the application holds, by slot
    iters,       \* open packet iterators
    ret          \* the last call: function, arguments and result code

vars == <<db, autocommit, saved, cont, lh, iters, ret>>

ContHandle == [id : Nat, parent_id : Int, code : Code]
LoopRef    == [container_id : Nat, loop_num : Nat, category : AnyCategory]
Iterator   == [slot : Slot, names : SUBSET ItemName,
               rows : SUBSET ValueRow, previous_row_num : Int]

Init == /\ db = EmptyDatabase
        /\ autocommit = TRUE
        /\ saved = EmptyDatabase
        /\ cont = {}
        /\ lh = [s \in {} |-> {}]
        /\ iters = {}
        /\ ret = [op |-> "cif_create", arg |-> <<>>, rc |-> "CIF_OK"]

Return(op, arg, rc) == ret' = [op |-> op, arg |-> arg, rc |-> rc]

-----------------------------------------------------------------------------
(* Transactions.  A function body yields the database it leaves and its    *)
(* result code; a transaction keeps that database only on success.         *)

Result(d, rc) == [db |-> d, rc |-> rc]

\* Mutation: the work done before the failure is kept.
AtomicallyNot(d, r) == r

\* BEGIN_NESTTX ... COMMIT_NESTTX or ROLLBACK_NESTTX, and equally
\* BEGIN ... COMMIT or ROLLBACK once BEGIN has succeeded
Atomically(d, r) == IF r.rc = "CIF_OK" THEN r ELSE Result(d, r.rc)

\* BEGIN, which SQLite refuses inside a transaction
TopLevel(d, r) ==
    IF autocommit THEN Atomically(d, r) ELSE Result(d, "CIF_ERROR")

-----------------------------------------------------------------------------
(* The internal functions, from a database to a result. *)

Names(nn) == {nn[i] : i \in DOMAIN nn}

\* GET_LOOPNUM_SQL: how create_loop learns the number of its new loop
MaxLoopNumOf(d, c) ==
    LET nums == {r.loop_num : r \in {r \in d.loop : r.container_id = c}}
    IN  CHOOSE n \in nums : \A m \in nums : m <= n

\* nn is the list of normalized names
CreateLoopInternal(d, c, cat, nn) ==
    LET d1    == InsertLoop(d, c, cat)
        n     == MaxLoopNumOf(d1, c)
        twice == \E i, j \in DOMAIN nn : i # j /\ nn[i] = nn[j]
        taken == \E nm \in Names(nn) : ItemExists(d, c, nm)
    IN  Atomically(d,
          IF DuplicatesScalarLoop(d, c, cat) THEN Result(d, "CIF_RESERVED_LOOP")
          ELSE IF ~ ContainerExists(d, c)    THEN Result(d, "CIF_INVALID_HANDLE")
          ELSE IF twice \/ taken             THEN Result(d1, "CIF_DUP_ITEMNAME")
          ELSE Result(InsertItems(d1, c, Names(nn), n), "CIF_OK"))

\* c and n come from a loop handle and need not denote an existing loop
AddItemInternal(d, c, n, nm, val) ==
    Atomically(d,
        IF CanInsertItem(d, c, nm, n)
        THEN Result(SetAllValues(InsertItems(d, c, {nm}, n), c, nm, val), "CIF_OK")
        ELSE Result(d, "CIF_DUP_ITEMNAME"))

\* A packet with both an item of another loop and one whose value exists
\* gets the code of whichever comes first; here it is always CIF_WRONG_LOOP.
AddPacketInternal(d, c, n, pkt) ==
    LET d1  == IncrementPacketNum(d, c, n)
        row == PacketNum(d1, c, n)
    IN  Atomically(d,
          IF DOMAIN pkt = {}              THEN Result(d, "CIF_INVALID_PACKET")
          ELSE IF ExceedsScalar(d, c, n)  THEN Result(d, "CIF_RESERVED_LOOP")
          ELSE IF ~ LoopExists(d, c, n)   THEN Result(d, "CIF_INTERNAL_ERROR")
          ELSE IF ~ (DOMAIN pkt \subseteq LoopNames(d, c, n))
                                          THEN Result(d1, "CIF_WRONG_LOOP")
          ELSE IF ~ CanInsertPacket(d1, c, pkt, row)
                                          THEN Result(d1, "CIF_ERROR")
          ELSE Result(InsertPacket(d1, c, pkt, row), "CIF_OK"))

\* The scalar loop, made if need be, gets the item, and a packet for it if it
\* has none to extend.
AddScalar(d, c, nm, val) ==
    LET r1 == IF CategoryLoops(d, c, Scalars) = {}
              THEN CreateLoopInternal(d, c, Scalars, <<>>)
              ELSE Result(d, "CIF_OK")
        n  == (CHOOSE r \in CategoryLoops(r1.db, c, Scalars) : TRUE).loop_num
        r2 == AddItemInternal(r1.db, c, n, nm, val)
        r3 == AddPacketInternal(r2.db, c, n, [x \in {nm} |-> val])
    IN  IF r1.rc # "CIF_OK" THEN r1
        ELSE IF r2.rc # "CIF_OK" \/ RowsOfItemLoop(r2.db, c, nm) # {} THEN r2
        ELSE r3

SetValueInternal(d, c, nm, val) ==
    IF ItemLoops(d, c, nm) = {}
    THEN AddScalar(d, c, nm, val)
    ELSE Result(SetAllValues(d, c, nm, val), "CIF_OK")

\* Mutation: the size of the item's loop is not looked at.
RemoveItemAlone(d, c, nm) ==
    IF ItemExists(d, c, nm) THEN Result(DeleteItem(d, c, nm), "CIF_OK")
                            ELSE Result(d, "CIF_NOSUCH_ITEM")

RemoveItemInternal(d, c, nm) ==
    LET peers == UNION {LoopItems(d, c, r.loop_num) : r \in ItemLoops(d, c, nm)}
    IN  IF peers = {} THEN Result(d, "CIF_NOSUCH_ITEM")
        ELSE IF Cardinality(peers) = 1
             THEN Result(DeleteLoops(d, ItemLoops(d, c, nm)), "CIF_OK")
             ELSE Result(DeleteItem(d, c, nm), "CIF_OK")

-----------------------------------------------------------------------------
(* What the application does.  The documentation leaves undefined what     *)
(* happens when a loop under iteration is accessed otherwise, forbids to   *)
(* change the category of the scalar loop, and implies that a handle       *)
(* obtained under an iterator goes the way of the iterator's changes; the  *)
(* application respects all this (the second unless UnsetsScalar).         *)

Denotes(l, c, n) == l.container_id = c /\ l.loop_num = n

Iterated(c, n) == \E it \in iters : Denotes(lh[it.slot], c, n)

MayAccess(c, n) == ~ Iterated(c, n)

MayAccessAll(c) == ~ \E it \in iters : lh[it.slot].container_id = c

\* An iterator keeps a pointer to the loop handle it was made from.
Idle(s) == \A it \in iters : it.slot # s

\* The bounds of the model.
RoomForContainer == db.seq < MaxId
RoomForLoop(c) ==
    \A r \in db.container : r.id = c => r.next_loop_num < MaxLoopNum
RoomForPacket(c, n) ==
    \A r \in db.loop : Denotes(r, c, n) /\ r.category # Scalars
                          => r.last_row_num < MaxRow

Ids == {k.id : k \in cont}

Keep(s, l) == lh' = [x \in DOMAIN lh \cup {s} |-> IF x = s THEN l ELSE lh[x]]

Drop(S) == lh' = [x \in DOMAIN lh \ S |-> lh[x]]

RefTo(r) == [container_id |-> r.container_id, loop_num |-> r.loop_num,
             category |-> r.category]

-----------------------------------------------------------------------------
(* cif.c and container.c: blocks and frames. *)

\* What create_block and create_frame have in common: the row of the container
\* and that of the block or frame in one transaction, and a handle.
CreateContainer(op, arg, parent, code, invalid, inserted) ==
    LET r == IF code = Invalid THEN Result(db, invalid)
                               ELSE TopLevel(db, inserted)
    IN  /\ RoomForContainer
        /\ db' = r.db
        /\ cont' = cont \cup (IF r.rc = "CIF_OK"
                              THEN {[id |-> NewContainerId(db),
                                     parent_id |-> parent, code |-> code]}
                              ELSE {})
        /\ Return(op, arg, r.rc)
        /\ UNCHANGED <<autocommit, saved, lh, iters>>

CreateBlock(sp) ==
    LET code == NormCode[sp]
        d1   == InsertContainer(db)
    IN  CreateContainer("cif_create_block", <<sp>>, -1, code,
            "CIF_INVALID_BLOCKCODE",
            IF CanInsertBlock(db, code)
            THEN Result(InsertBlock(d1, NewContainerId(db), code), "CIF_OK")
            ELSE Result(d1, "CIF_DUP_BLOCKCODE"))

CreateFrame(c, sp) ==
    LET code == NormCode[sp]
        d1   == InsertContainer(db)
    IN  CreateContainer("cif_container_create_frame", <<c, sp>>, c, code,
            "CIF_INVALID_FRAMECODE",
            IF CanInsertFrame(db, c, code)
            THEN Result(InsertFrame(d1, NewContainerId(db), c, code), "CIF_OK")
            ELSE Result(d1, "CIF_DUP_FRAMECODE"))

\* cif_get_block (and, for each of its results, cif_get_all_blocks)
GetBlock(sp) ==
    LET found == {b \in db.data_block : b.name = NormCode[sp]}
    IN  /\ cont' = cont \cup {[id |-> b.container_id, parent_id |-> -1,
                               code |-> b.name] : b \in found}
        /\ Return("cif_get_block", <<sp>>,
                  IF found = {} THEN "CIF_NOSUCH_BLOCK" ELSE "CIF_OK")
        /\ UNCHANGED <<db, autocommit, saved, lh, iters>>

\* cif_container_get_frame (and, for each of its results, ..._get_all_frames)
GetFrame(c, sp) ==
    LET found == {f \in db.save_frame : f.parent_id = c /\ f.name = NormCode[sp]}
    IN  /\ cont' = cont \cup {[id |-> f.container_id, parent_id |-> c,
                               code |-> f.name] : f \in found}
        /\ Return("cif_container_get_frame", <<c, sp>>,
                  IF NormCode[sp] = Invalid THEN "CIF_INVALID_FRAMECODE"
                  ELSE IF found = {} THEN "CIF_NOSUCH_FRAME" ELSE "CIF_OK")
        /\ UNCHANGED <<db, autocommit, saved, lh, iters>>

\* The handle is freed, but the application may have others on the container.
DestroyContainer(c) ==
    /\ MayAccessAll(c)
    /\ db' = DeleteContainer(db, c)
    /\ Return("cif_container_destroy", <<c>>,
              IF ContainerExists(db, c) THEN "CIF_OK" ELSE "CIF_INVALID_HANDLE")
    /\ UNCHANGED <<autocommit, saved, cont, lh, iters>>

-----------------------------------------------------------------------------
(* container.c: loops and items. *)

CreateLoop(c, cat, names, s) ==
    LET nn == [i \in DOMAIN names |-> NormItem[names[i]]]
        r  == IF names = <<>> THEN Result(db, "CIF_NULL_LOOP")
              ELSE IF Invalid \in Names(nn) THEN Result(db, "CIF_INVALID_ITEMNAME")
              ELSE CreateLoopInternal(db, c, cat, nn)
    IN  /\ RoomForLoop(c)
        /\ Idle(s)
        /\ db' = r.db
        /\ IF r.rc = "CIF_OK"
           THEN Keep(s, [container_id |-> c, loop_num |-> MaxLoopNumOf(r.db, c),
                         category |-> cat])
           ELSE UNCHANGED lh
        /\ Return("cif_container_create_loop", <<c, cat, names>>, r.rc)
        /\ UNCHANGED <<autocommit, saved, cont, iters>>

\* get_category_loop and get_item_loop: a handle on the one loop found
GetLoop(op, arg, found, none, many, s) ==
    /\ Idle(s)
    /\ IF Cardinality(found) = 1
       THEN \E r \in found : Keep(s, RefTo(r))
       ELSE UNCHANGED lh
    /\ Return(op, arg, IF found = {} THEN none
                       ELSE IF Cardinality(found) = 1 THEN "CIF_OK" ELSE many)
    /\ UNCHANGED <<db, autocommit, saved, cont, iters>>

GetCategoryLoop(c, cat, s) ==
    IF cat = NoCategory
    THEN GetLoop("cif_container_get_category_loop", <<c, cat>>, {},
                 "CIF_INVALID_CATEGORY", "CIF_CAT_NOT_UNIQUE", s)
    ELSE GetLoop("cif_container_get_category_loop", <<c, cat>>,
                 CategoryLoops(db, c, cat), "CIF_NOSUCH_LOOP",
                 "CIF_CAT_NOT_UNIQUE", s)

GetItemLoop(c, sp, s) ==
    GetLoop("cif_container_get_item_loop", <<c, sp>>,
            ItemLoops(db, c, NormItem[sp]),
            "CIF_NOSUCH_ITEM", "CIF_INTERNAL_ERROR", s)

\* The application keeps one of the handles it gets and frees the others.  The
\* nested transaction is rolled back whatever happens, having changed nothing.
GetAllLoops(c, s) ==
    LET found == {r \in db.loop : r.container_id = c}
    IN  /\ Idle(s)
        /\ \/ \E r \in found : Keep(s, RefTo(r))
           \/ found = {} /\ UNCHANGED lh
        /\ Return("cif_container_get_all_loops", <<c>>,
                  IF ContainerExists(db, c) THEN "CIF_OK" ELSE "CIF_INVALID_HANDLE")
        /\ UNCHANGED <<db, autocommit, saved, cont, iters>>

PruneContainer(c) ==
    /\ MayAccessAll(c)
    /\ db' = Prune(db, c)
    /\ Return("cif_container_prune", <<c>>, "CIF_OK")
    /\ UNCHANGED <<autocommit, saved, cont, lh, iters>>

GetValue(c, sp) ==
    LET vs == ItemValues(db, c, NormItem[sp])
    IN  /\ MayAccessAll(c)
        /\ Return("cif_container_get_value", <<c, NormItem[sp]>>,
                  IF vs = {} THEN "CIF_NOSUCH_ITEM"
                  ELSE IF Cardinality(vs) = 1 THEN "CIF_OK"
                  ELSE "CIF_AMBIGUOUS_ITEM")
        /\ UNCHANGED <<db, autocommit, saved, cont, lh, iters>>

SetValue(c, sp, val) ==
    LET nm == NormItem[sp]
        r  == IF nm = Invalid THEN Result(db, "CIF_INVALID_ITEMNAME")
              ELSE TopLevel(db, SetValueInternal(db, c, nm, val))
    IN  /\ RoomForLoop(c)
        /\ db' = r.db
        /\ Return("cif_container_set_value", <<c, nm, val>>, r.rc)
        /\ UNCHANGED <<autocommit, saved, cont, lh, iters>>

RemoveItem(c, sp) ==
    LET nm == NormItem[sp]
        r  == IF nm = Invalid THEN Result(db, "CIF_NOSUCH_ITEM")
              ELSE TopLevel(db, RemoveItemInternal(db, c, nm))
    IN  /\ db' = r.db
        /\ Return("cif_container_remove_item", <<c, nm>>, r.rc)
        /\ UNCHANGED <<autocommit, saved, cont, lh, iters>>

-----------------------------------------------------------------------------
(* loop.c: s is the slot of the loop handle. *)

LoopFree(s) ==
    /\ Idle(s)
    /\ Drop({s})
    /\ Return("cif_loop_free", <<s>>, "CIF_OK")
    /\ UNCHANGED <<db, autocommit, saved, cont, iters>>

LoopDestroy(s) ==
    LET l == lh[s]
    IN  /\ Idle(s)
        /\ MayAccess(l.container_id, l.loop_num)
        /\ db' = DeleteLoop(db, l.container_id, l.loop_num)
        /\ IF LoopExists(db, l.container_id, l.loop_num)
           THEN Drop({s}) /\ Return("cif_loop_destroy", <<s>>, "CIF_OK")
           ELSE UNCHANGED lh /\ Return("cif_loop_destroy", <<s>>, "CIF_INVALID_HANDLE")
        /\ UNCHANGED <<autocommit, saved, cont, iters>>

\* NULL is not checked against the category the loop has.
LoopSetCategory(s, cat) ==
    LET l        == lh[s]
        reserved == \/ cat = Scalars
                    \/ cat # NoCategory /\ l.category = Scalars
    IN  /\ MayAccess(l.container_id, l.loop_num)
        /\ cat = NoCategory /\ l.category = Scalars
              => UnsetsScalar
        /\ \/ /\ reserved
              /\ Return("cif_loop_set_category", <<s, cat>>, "CIF_RESERVED_LOOP")
              /\ UNCHANGED <<db, lh>>
           \/ /\ ~ reserved
              /\ db' = UpdateCategory(db, l.container_id, l.loop_num, cat)
              /\ Keep(s, [l EXCEPT !.category = cat])
              /\ Return("cif_loop_set_category", <<s, cat>>,
                        IF LoopExists(db, l.container_id, l.loop_num)
                        THEN "CIF_OK" ELSE "CIF_INVALID_HANDLE")
        /\ UNCHANGED <<autocommit, saved, cont, iters>>

LoopGetNames(s) ==
    LET l == lh[s]
    IN  /\ MayAccess(l.container_id, l.loop_num)
        /\ Return("cif_loop_get_names", <<s>>,
                  IF LoopItems(db, l.container_id, l.loop_num) = {}
                  THEN "CIF_INVALID_HANDLE" ELSE "CIF_OK")
        /\ UNCHANGED <<db, autocommit, saved, cont, lh, iters>>

LoopAddItem(s, sp, val) ==
    LET l  == lh[s]
        nm == NormItem[sp]
        r  == IF nm = Invalid THEN Result(db, "CIF_INVALID_ITEMNAME")
              ELSE AddItemInternal(db, l.container_id, l.loop_num, nm, val)
    IN  /\ MayAccess(l.container_id, l.loop_num)
        /\ db' = r.db
        /\ Return("cif_loop_add_item", <<l, nm, val>>, r.rc)
        /\ UNCHANGED <<autocommit, saved, cont, lh, iters>>

LoopAddPacket(s, pkt) ==
    LET l == lh[s]
        r == AddPacketInternal(db, l.container_id, l.loop_num, pkt)
    IN  /\ RoomForPacket(l.container_id, l.loop_num)
        /\ MayAccess(l.container_id, l.loop_num)
        /\ db' = r.db
        /\ Return("cif_loop_add_packet", <<l, pkt>>, r.rc)
        /\ UNCHANGED <<autocommit, saved, cont, lh, iters>>

\* The query is sorted, so that its first step reads all its rows: the
\* iteration runs over the loop as it is now.  The transaction stays open.
LoopGetPackets(s) ==
    LET l    == lh[s]
        rows == LoopValues(db, l.container_id, l.loop_num)
        rc   == IF LoopItems(db, l.container_id, l.loop_num) = {}
                THEN "CIF_INVALID_HANDLE"
                ELSE IF ~ autocommit THEN "CIF_ERROR"
                ELSE IF rows = {} THEN "CIF_EMPTY_LOOP" ELSE "CIF_OK"
    IN  /\ MayAccess(l.container_id, l.loop_num)
        /\ \/ /\ rc = "CIF_OK"
              /\ autocommit' = FALSE
              /\ saved' = db
              /\ iters' = iters \cup
                    {[slot |-> s, rows |-> rows, previous_row_num |-> -1,
                      names |-> LoopNames(db, l.container_id, l.loop_num)]}
           \/ rc # "CIF_OK" /\ UNCHANGED <<autocommit, saved, iters>>
        /\ Return("cif_loop_get_packets", <<s>>, rc)
        /\ UNCHANGED <<db, cont, lh>>

-----------------------------------------------------------------------------
(* pktitr.c *)

Replace(it, new) == iters' = (iters \ {it}) \cup {new}

\* No row of the query is left: the iterator's "finished" flag.
Finished(it) == it.rows = {}

\* Mutation: the query is not ordered by row number.
IsNextRowUnordered(it, row) == row \in RowNums(it.rows)

\* The rows of a packet come together, those of the lowest number first.
IsNextRow(it, row) ==
    /\ row \in RowNums(it.rows)
    /\ \A other \in RowNums(it.rows) : row <= other

\* The packet made of the first rows: every name the iterator knows, unknown
\* unless a row says otherwise.
PacketAt(it, row) ==
    [nm \in it.names |->
        IF \E v \in it.rows : v.row_num = row /\ v.name = nm
        THEN (CHOOSE v \in it.rows : v.row_num = row /\ v.name = nm).val
        ELSE Unknown]

NextPacket(it) ==
    /\ IF Finished(it)
       THEN /\ UNCHANGED iters
            /\ Return("cif_pktitr_next_packet", <<it.slot>>, "CIF_FINISHED")
       ELSE IF autocommit
       THEN /\ UNCHANGED iters
            /\ Return("cif_pktitr_next_packet", <<it.slot>>, "CIF_INVALID_HANDLE")
       ELSE \E row \in RowNums(it.rows) :
                /\ IsNextRow(it, row)
                /\ Replace(it, [it EXCEPT
                      !.rows = {v \in @ : v.row_num # row},
                      !.previous_row_num = row])
                /\ Return("cif_pktitr_next_packet",
                          <<it.slot, row, PacketAt(it, row)>>, "CIF_OK")
    /\ UNCHANGED <<db, autocommit, saved, cont, lh>>

UpdatePacket(it, pkt) ==
    LET c   == lh[it.slot].container_id
        d1  == ReplacePacket(db, c, pkt, it.previous_row_num)
        r   == IF autocommit THEN Result(db, "CIF_INVALID_HANDLE")
               ELSE IF it.previous_row_num <= 0 THEN Result(db, "CIF_MISUSE")
               ELSE Atomically(db,
                      IF ~ (DOMAIN pkt \subseteq it.names)
                      THEN Result(d1, "CIF_WRONG_LOOP")
                      ELSE IF \E nm \in DOMAIN pkt : ~ ItemExists(db, c, nm)
                      THEN Result(d1, "CIF_ERROR")
                      ELSE Result(d1, "CIF_OK"))
    IN  /\ db' = r.db
        /\ Return("cif_pktitr_update_packet", <<it.slot, pkt>>, r.rc)
        /\ UNCHANGED <<autocommit, saved, cont, lh, iters>>

\* Mutation: the packet count starts over whatever the loop is.
StartsOverAlways(l) == TRUE

\* Only the scalar loop's packet count starts over when a packet is removed;
\* that it is the scalar loop is decided by what the handle remembers.
StartsOver(l) == l.category = Scalars

RemovePacket(it) ==
    LET l   == lh[it.slot]
        d1  == DeletePacket(db, l.container_id, l.loop_num, it.previous_row_num)
        rc  == IF autocommit THEN "CIF_INVALID_HANDLE"
               ELSE IF it.previous_row_num <= 0 THEN "CIF_MISUSE" ELSE "CIF_OK"
    IN  /\ \/ /\ rc = "CIF_OK"
              /\ db' = IF StartsOver(l)
                       THEN ResetPacketNum(d1, l.container_id, l.loop_num) ELSE d1
              /\ Replace(it, [it EXCEPT !.previous_row_num = -1])
           \/ rc # "CIF_OK" /\ UNCHANGED <<db, iters>>
        /\ Return("cif_pktitr_remove_packet", <<it.slot>>, rc)
        /\ UNCHANGED <<autocommit, saved, cont, lh>>

\* Mutation: the iterator is freed without COMMIT or ROLLBACK.
ReleaseLeavingOpen(it, restored) ==
    /\ iters' = iters \ {it}
    /\ UNCHANGED <<db, autocommit, saved, cont>>

\* Ends the transaction; COMMIT and ROLLBACK fail when none is open.
Release(it, restored) ==
    /\ iters' = iters \ {it}
    /\ autocommit' = TRUE
    /\ saved' = EmptyDatabase
    /\ db' = restored
    /\ UNCHANGED cont

CloseIterator(it) ==
    /\ Release(it, db)
    /\ Return("cif_pktitr_close", <<it.slot>>,
              IF autocommit THEN "CIF_ERROR" ELSE "CIF_OK")
    /\ UNCHANGED lh

\* Loop handles made since the iterator was opened stand for loops that go.
MadeSince(l) == \E r \in saved.container :
                   r.id = l.container_id /\ l.loop_num >= r.next_loop_num

AbortIterator(it) ==
    /\ Release(it, IF autocommit THEN db ELSE saved)
    /\ Return("cif_pktitr_abort", <<it.slot>>,
              IF autocommit THEN "CIF_ERROR" ELSE "CIF_OK")
    /\ IF autocommit
       THEN UNCHANGED lh
       ELSE Drop({s \in DOMAIN lh : MadeSince(lh[s])})

-----------------------------------------------------------------------------
BlockCall == \E sp \in CodeSpelling : CreateBlock(sp) \/ GetBlock(sp)

ContainerCall(c) ==
    \/ \E sp \in CodeSpelling : CreateFrame(c, sp) \/ GetFrame(c, sp)
    \/ DestroyContainer(c)
    \/ PruneContainer(c)
    \/ \E s \in Slot : GetAllLoops(c, s)
    \/ \E s \in Slot, cat \in AnyCategory : GetCategoryLoop(c, cat, s)
    \/ \E s \in Slot, cat \in LoopCategory, names \in NameLists :
          CreateLoop(c, cat, names, s)
    \/ \E sp \in ItemSpelling : \/ GetValue(c, sp)
                                \/ RemoveItem(c, sp)
                                \/ \E s \in Slot : GetItemLoop(c, sp, s)
                                \/ \E val \in Value : SetValue(c, sp, val)

LoopCall(s) ==
    \/ LoopFree(s)
    \/ LoopDestroy(s)
    \/ \E cat \in NewCategory : LoopSetCategory(s, cat)
    \/ LoopGetNames(s)
    \/ \E sp \in ItemSpelling, val \in Value : LoopAddItem(s, sp, val)
    \/ \E pkt \in Packets : LoopAddPacket(s, pkt)
    \/ LoopGetPackets(s)

IteratorCall(it) ==
    \/ NextPacket(it)
    \/ \E pkt \in Packets : UpdatePacket(it, pkt)
    \/ RemovePacket(it)
    \/ CloseIterator(it)
    \/ AbortIterator(it)

Next == \/ BlockCall
        \/ \E c \in Ids : ContainerCall(c)
        \/ \E s \in DOMAIN lh : LoopCall(s)
        \/ \E it \in iters : IteratorCall(it)

Spec == Init /\ [][Next]_vars

-----------------------------------------------------------------------------
(* Type invariant. *)

\* Every variable stays in its domain: the tables hold well-typed rows and the
\* handles and iterators are records of the C structures' fields.
TypeOK ==
    /\ db \in Database
    /\ autocommit \in BOOLEAN
    /\ saved \in Database
    /\ cont \subseteq ContHandle
    /\ DOMAIN lh \subseteq Slot
    /\ \A s \in DOMAIN lh : lh[s] \in LoopRef
    /\ iters \subseteq Iterator

-----------------------------------------------------------------------------
(* Safety of the stored data. *)

\* The primary and unique keys of misc/cif_schema.sql are keys: no block code,
\* frame code (within its parent), data name (within its container) or value
\* (within its packet) occurs twice, whatever the calls were.
KeysUnique == Keys(db)

\* No row outlives what it belongs to: a value has its item, an item its loop,
\* a loop, block or frame its container (the foreign keys and their cascades).
ReferentialIntegrity == ForeignKeys(db)

\* A loop number already given out in a container is never the next one, so
\* that "select max(loop_num)" after the insertion finds the loop just made
\* (schema: "loop numbers are guaranteed to increase monotonically").
LoopNumbersBelowNext == LoopNumsBelowNext(db)

\* No loop is without items: remove_item takes the loop with its last item,
\* and set_value never leaves a scalar loop behind without its item.
NoLoopWithoutItems ==
    \A r \in db.loop : LoopItems(db, r.container_id, r.loop_num) # {}

\* A container has one scalar loop at most (triggers tr1_loop, tr2_loop), and
\* that loop one packet at most: the triggers promise the latter only as long
\* as row numbers come from last_row_num.
ScalarsAreScalar ==
    /\ \A r1, r2 \in db.loop :
          /\ r1.container_id = r2.container_id
          /\ r1.category = Scalars /\ r2.category = Scalars
          => r1 = r2
    /\ \A r \in db.loop : r.category = Scalars =>
          \A v1, v2 \in LoopValues(db, r.container_id, r.loop_num) :
             v1.row_num = v2.row_num

\* The packets of a loop are numbered from 1 to its last_row_num, so that the
\* number the next packet gets is free; resetting the counter of a loop that
\* still has packets would make add_packet collide with them.
RowsBelowLast ==
    \A r \in db.loop : \A v \in LoopValues(db, r.container_id, r.loop_num) :
        0 < v.row_num /\ v.row_num <= r.last_row_num

-----------------------------------------------------------------------------
(* Safety of transactions, handles and iterators. *)

\* The connection has a transaction open exactly while one iterator is open:
\* no function returns with a transaction of its own left open, and none ends
\* the iterator's.
TransactionIsIterators ==
    /\ autocommit <=> iters = {}
    /\ \A i1, i2 \in iters : i1 = i2

\* What an iterator has still to deliver is what its loop holds: the rows it
\* read when it was opened are in the table, unchanged, and those of the
\* table that it no longer has are of packets before them.
IterationCurrent ==
    \A it \in iters :
        LET l    == lh[it.slot]
            rows == LoopValues(db, l.container_id, l.loop_num)
        IN  /\ it.rows \subseteq rows
            /\ it.names = LoopNames(db, l.container_id, l.loop_num)
            /\ \A v \in rows \ it.rows, v1 \in it.rows : v.row_num < v1.row_num
            /\ \A v1 \in it.rows : it.previous_row_num < v1.row_num

\* Two handles with one container id stand for one container: the id of a
\* destroyed container is never given to another (AUTOINCREMENT, and no block
\* or frame is created inside a transaction that may yet be rolled back).
ContainerIdsNeverReused ==
    \A k1, k2 \in cont : k1.id = k2.id => k1 = k2

-----------------------------------------------------------------------------
(* Action properties. *)

\* A call that does not return CIF_OK leaves the stored data as it found
\* them, though several of its statements may have succeeded before the one
\* that failed.
FailureChangesNothing == [][ret'.rc # "CIF_OK" => db' = db]_vars

\* A loop handle whose loop is gone never comes to denote a loop again,
\* except that aborting an iterator brings back what was destroyed under it.
StaleHandleStaysStale ==
    [][\A s \in DOMAIN lh \cap DOMAIN lh' :
          /\ lh'[s].container_id = lh[s].container_id
          /\ lh'[s].loop_num = lh[s].loop_num
          /\ LoopExists(db', lh[s].container_id, lh[s].loop_num)
          => \/ LoopExists(db, lh[s].container_id, lh[s].loop_num)
             \/ ret'.op = "cif_pktitr_abort"
             \/ ret'.op = "cif_container_create_loop" /\ lh[s] # lh'[s]]_vars
=============================================================================
