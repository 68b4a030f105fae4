------------------------------ MODULE CifTables ------------------------------
(***************************************************************************)
(* The relational store behind a managed CIF: the tables, constraints,     *)
(* cascades and triggers of misc/cif_schema.sql and the SQL statements of  *)
(* src/internal/sql.h, as functions from a database to a database.         *)
(*                                                                         *)
(* A table is a set of rows and a database a record of tables.  SQLite     *)
(* refuses a statement that breaks a constraint; here a statement that     *)
(* may be refused has a predicate Can... stating the constraint, and it is *)
(* the caller (module CifStore) that tests it, as the C code tests the     *)
(* result of sqlite3_step.  Left out: the name_orig columns and the        *)
(* columns that encode a value (a value is an element of Value), for no    *)
(* control depends on them.                                                *)
(***************************************************************************)
EXTENDS Integers, FiniteSets

CONSTANTS Code,        \* normalized block and frame codes
          ItemName,    \* normalized data names
          Category,    \* ordinary loop categories
          NoCategory,  \* NULL: a loop without an explicit category
          Scalars,     \* the empty string, category of the scalar loop
          Value        \* data values; the unknown value is one of them

ASSUME CategoryAssumption ==
    /\ NoCategory \notin Category
    /\ Scalars \notin Category
    /\ NoCategory # Scalars

AnyCategory == Category \cup {NoCategory, Scalars}

ContainerRow == [id : Nat, next_loop_num : Nat]
BlockRow     == [container_id : Nat, name : Code]
FrameRow     == [container_id : Nat, parent_id : Nat, name : Code]
LoopRow      == [container_id : Nat, loop_num : Nat,
                 category : AnyCategory, last_row_num : Nat]
ItemRow      == [container_id : Nat, name : ItemName, loop_num : Nat]
ValueRow     == [container_id : Nat, name : ItemName, row_num : Nat,
                 val : Value]

\* seq is the entry of sqlite_sequence that AUTOINCREMENT maintains.
Database == [seq        : Nat,
             container  : SUBSET ContainerRow,
             data_block : SUBSET BlockRow,
             save_frame : SUBSET FrameRow,
             loop       : SUBSET LoopRow,
             loop_item  : SUBSET ItemRow,
             item_value : SUBSET ValueRow]

EmptyDatabase ==
    [seq |-> 0, container |-> {}, data_block |-> {}, save_frame |-> {},
     loop |-> {}, loop_item |-> {}, item_value |-> {}]

-----------------------------------------------------------------------------
(* Queries. *)

ContainerExists(d, c) == \E r \in d.container : r.id = c

LoopExists(d, c, n) == \E r \in d.loop : r.container_id = c /\ r.loop_num = n

ItemExists(d, c, nm) ==
    \E i \in d.loop_item : i.container_id = c /\ i.name = nm

\* GET_CAT_LOOP_SQL
CategoryLoops(d, c, cat) ==
    {r \in d.loop : r.container_id = c /\ r.category = cat}

\* GET_LOOP_NAMES_SQL
LoopItems(d, c, n) ==
    {i \in d.loop_item : i.container_id = c /\ i.loop_num = n}

LoopNames(d, c, n) == {i.name : i \in LoopItems(d, c, n)}

\* GET_LOOP_VALUES_SQL (COUNT_LOOP_PACKETS_SQL counts its row numbers)
LoopValues(d, c, n) ==
    {v \in d.item_value : /\ v.container_id = c
                          /\ v.name \in LoopNames(d, c, n)}

\* GET_VALUE_SQL
ItemValues(d, c, nm) ==
    {v \in d.item_value : v.container_id = c /\ v.name = nm}

RowNums(vs) == {v.row_num : v \in vs}

\* GET_ITEM_LOOP_SQL: the loops (one at most) that hold the item.
ItemLoops(d, c, nm) ==
    {r \in d.loop : /\ r.container_id = c
                    /\ \E i \in LoopItems(d, c, r.loop_num) : i.name = nm}

\* Mutation: the next number computed from the loops there are.
NextLoopNumReused(d, c) ==
    Cardinality({r \in d.loop : r.container_id = c})

\* The number the next loop of container c gets.
NextLoopNum(d, c) ==
    (CHOOSE r \in d.container : r.id = c).next_loop_num

-----------------------------------------------------------------------------
(* Deletions, with the "on delete cascade" of the foreign keys. *)

DeleteItems(d, S) ==
    [d EXCEPT
       !.loop_item  = @ \ S,
       !.item_value = {v \in @ : ~ \E i \in S : /\ i.container_id = v.container_id
                                                /\ i.name = v.name}]

DeleteLoops(d, S) ==
    [DeleteItems(d, {i \in d.loop_item :
                        \E r \in S : /\ r.container_id = i.container_id
                                     /\ r.loop_num = i.loop_num})
       EXCEPT !.loop = @ \ S]

\* Mutation: no "on delete cascade" from parent to save_frame.
DeleteContainerKeepingFrames(d, c) ==
    [DeleteLoops(d, {r \in d.loop : r.container_id = c})
       EXCEPT !.container  = {r \in @ : r.id # c},
              !.data_block = {b \in @ : b.container_id # c},
              !.save_frame = {f \in @ : f.container_id # c}]

\* DESTROY_CONTAINER_SQL: the row of every child frame goes with its parent's
\* container row, but the child's own container row does not.
DeleteContainer(d, c) ==
    [DeleteLoops(d, {r \in d.loop : r.container_id = c})
       EXCEPT !.container  = {r \in @ : r.id # c},
              !.data_block = {b \in @ : b.container_id # c},
              !.save_frame = {f \in @ : f.container_id # c /\ f.parent_id # c}]

\* DESTROY_LOOP_SQL
DeleteLoop(d, c, n) ==
    DeleteLoops(d, {r \in d.loop : r.container_id = c /\ r.loop_num = n})

\* REMOVE_ITEM_SQL
DeleteItem(d, c, nm) ==
    DeleteItems(d, {i \in d.loop_item : i.container_id = c /\ i.name = nm})

\* PRUNE_SQL: the loops of the container of which no item has a value.
Prune(d, c) ==
    DeleteLoops(d, {r \in d.loop : /\ r.container_id = c
                                   /\ LoopValues(d, c, r.loop_num) = {}})

\* REMOVE_PACKET_SQL
DeletePacket(d, c, n, row) ==
    [d EXCEPT !.item_value = @ \ {v \in LoopValues(d, c, n) : v.row_num = row}]

-----------------------------------------------------------------------------
(* Insertions and updates. *)

\* Mutation: an integer primary key without AUTOINCREMENT.
NewContainerIdReused(d) ==
    CHOOSE n \in 1..(d.seq + 1) :
        /\ \A r \in d.container : r.id < n
        /\ n = 1 \/ ContainerExists(d, n - 1)

\* "insert into container(id) values (null)"
NewContainerId(d) == d.seq + 1

InsertContainer(d) ==
    [d EXCEPT !.seq = NewContainerId(d),
              !.container = @ \cup {[id |-> NewContainerId(d),
                                     next_loop_num |-> 0]}]

\* CREATE_BLOCK_SQL
CanInsertBlock(d, code) == \A b \in d.data_block : b.name # code

InsertBlock(d, c, code) ==
    [d EXCEPT !.data_block = @ \cup {[container_id |-> c, name |-> code]}]

\* Mutation: no unique key (parent_id, name).
CanInsertFrameTwice(d, p, code) == ContainerExists(d, p)

\* CREATE_FRAME_SQL: unique (parent_id, name), and the parent must exist.
CanInsertFrame(d, p, code) ==
    /\ ContainerExists(d, p)
    /\ \A f \in d.save_frame : f.parent_id = p => f.name # code

\* Mutation: the parent id bound is that in the parent's own handle.
InsertFrameUnparented(d, c, p, code) ==
    [d EXCEPT !.save_frame = @ \cup {[container_id |-> c, parent_id |-> -1,
                                      name |-> code]}]

InsertFrame(d, c, p, code) ==
    [d EXCEPT !.save_frame = @ \cup {[container_id |-> c, parent_id |-> p,
                                      name |-> code]}]

\* Mutation: no trigger tr1_loop.
DuplicatesScalarLoopNever(d, c, cat) == FALSE

\* Trigger tr1_loop
DuplicatesScalarLoop(d, c, cat) ==
    cat = Scalars /\ CategoryLoops(d, c, Scalars) # {}

\* Mutation: the trigger inserts the loop without advancing next_loop_num.
InsertLoopUncounted(d, c, cat) ==
    [d EXCEPT !.loop = @ \cup
        {[container_id |-> c, loop_num |-> NextLoopNum(d, c),
          category |-> cat, last_row_num |-> 0]}]

\* CREATE_LOOP_SQL, through the view unnumbered_loop and its trigger
InsertLoop(d, c, cat) ==
    [d EXCEPT
       !.loop = @ \cup {[container_id |-> c, loop_num |-> NextLoopNum(d, c),
                         category |-> cat, last_row_num |-> 0]},
       !.container = {IF r.id = c
                      THEN [r EXCEPT !.next_loop_num = @ + 1]
                      ELSE r : r \in @}]

\* ADD_LOOP_ITEM_SQL: primary key (container_id, name), foreign key to loop.
CanInsertItem(d, c, nm, n) == ~ ItemExists(d, c, nm) /\ LoopExists(d, c, n)

InsertItems(d, c, names, n) ==
    [d EXCEPT !.loop_item =
        @ \cup {[container_id |-> c, name |-> nm, loop_num |-> n] : nm \in names}]

\* SET_CATEGORY_SQL
UpdateCategory(d, c, n, cat) ==
    [d EXCEPT !.loop = {IF r.container_id = c /\ r.loop_num = n
                        THEN [r EXCEPT !.category = cat]
                        ELSE r : r \in @}]

\* Trigger tr4_loop: the update of last_row_num that it aborts.
ExceedsScalar(d, c, n) ==
    \E r \in CategoryLoops(d, c, Scalars) : r.loop_num = n /\ r.last_row_num >= 1

\* UPDATE_PACKET_NUM_SQL
IncrementPacketNum(d, c, n) ==
    [d EXCEPT !.loop = {IF r.container_id = c /\ r.loop_num = n
                        THEN [r EXCEPT !.last_row_num = @ + 1]
                        ELSE r : r \in @}]

\* GET_PACKET_NUM_SQL
PacketNum(d, c, n) ==
    (CHOOSE r \in d.loop : r.container_id = c /\ r.loop_num = n).last_row_num

\* RESET_PACKET_NUM_SQL
ResetPacketNum(d, c, n) ==
    [d EXCEPT !.loop = {IF r.container_id = c /\ r.loop_num = n
                        THEN [r EXCEPT !.last_row_num = 0]
                        ELSE r : r \in @}]

\* The rows of item_value that a packet (a function from names to values)
\* stands for at row number row.
PacketRows(c, pkt, row) ==
    {[container_id |-> c, name |-> nm, row_num |-> row, val |-> pkt[nm]] :
        nm \in DOMAIN pkt}

\* INSERT_VALUE_SQL for each item of a packet: primary key
\* (container_id, name, row_num).
CanInsertPacket(d, c, pkt, row) ==
    \A nm \in DOMAIN pkt : row \notin RowNums(ItemValues(d, c, nm))

InsertPacket(d, c, pkt, row) ==
    [d EXCEPT !.item_value = @ \cup PacketRows(c, pkt, row)]

\* UPDATE_VALUE_SQL ("insert or replace") for each item of a packet
ReplacePacket(d, c, pkt, row) ==
    [d EXCEPT !.item_value =
        {v \in @ : ~ (/\ v.container_id = c
                      /\ v.row_num = row
                      /\ v.name \in DOMAIN pkt)}
        \cup PacketRows(c, pkt, row)]

\* The packets SET_ALL_VALUES_SQL selects: the row numbers that occur in the
\* loop of the item.
RowsOfItemLoop(d, c, nm) ==
    UNION {RowNums(LoopValues(d, c, r.loop_num)) : r \in ItemLoops(d, c, nm)}

\* SET_ALL_VALUES_SQL
SetAllValues(d, c, nm, val) ==
    LET rows == RowsOfItemLoop(d, c, nm)
    IN  [d EXCEPT !.item_value =
            {v \in @ : ~ (/\ v.container_id = c
                          /\ v.name = nm
                          /\ v.row_num \in rows)}
            \cup {[container_id |-> c, name |-> nm, row_num |-> row,
                   val |-> val] : row \in rows}]
-----------------------------------------------------------------------------
(* What the declarations of the schema say of a database. *)

ContainerKeys(d) ==
    /\ \A r \in d.container : 0 < r.id /\ r.id <= d.seq
    /\ \A r1, r2 \in d.container : r1.id = r2.id => r1 = r2

BlockKeys(d) ==
    \A b1, b2 \in d.data_block :
        b1.container_id = b2.container_id \/ b1.name = b2.name => b1 = b2

FrameKeys(d) ==
    \A f1, f2 \in d.save_frame :
        \/ f1.container_id = f2.container_id
        \/ f1.parent_id = f2.parent_id /\ f1.name = f2.name
        => f1 = f2

LoopKeys(d) ==
    \A r1, r2 \in d.loop :
        r1.container_id = r2.container_id /\ r1.loop_num = r2.loop_num => r1 = r2

ItemKeys(d) ==
    \A i1, i2 \in d.loop_item :
        i1.container_id = i2.container_id /\ i1.name = i2.name => i1 = i2

ValueKeys(d) ==
    \A v1, v2 \in d.item_value :
        /\ v1.container_id = v2.container_id
        /\ v1.name = v2.name
        /\ v1.row_num = v2.row_num
        => v1 = v2

Keys(d) == /\ ContainerKeys(d) /\ BlockKeys(d) /\ FrameKeys(d)
           /\ LoopKeys(d) /\ ItemKeys(d) /\ ValueKeys(d)

ForeignKeys(d) ==
    /\ \A b \in d.data_block : ContainerExists(d, b.container_id)
    /\ \A f \in d.save_frame : /\ ContainerExists(d, f.container_id)
                               /\ ContainerExists(d, f.parent_id)
    /\ \A r \in d.loop : ContainerExists(d, r.container_id)
    /\ \A i \in d.loop_item : LoopExists(d, i.container_id, i.loop_num)
    /\ \A v \in d.item_value : ItemExists(d, v.container_id, v.name)

LoopNumsBelowNext(d) ==
    \A r \in d.container, l \in d.loop :
        l.container_id = r.id => l.loop_num < r.next_loop_num

\* What each statement of a call preserves (module CifStoreProofs).
Sound(d) == /\ d \in Database
            /\ Keys(d)
            /\ ForeignKeys(d)
            /\ LoopNumsBelowNext(d)
=============================================================================
