--------------------------- MODULE CifStoreProofs ---------------------------
(***************************************************************************)
(* Theorems about CifStore for every value of its constants.  The tables   *)
(* stay sound because every SQL statement of CifTables leaves a sound      *)
(* database sound, given what SQLite checks before it lets the statement   *)
(* through, and because each function hands the statements only what       *)
(* SQLite has been asked to check; the tables a rollback restores stay     *)
(* sound because they were once the tables.  The later parts are about     *)
(* container handles, loop handles, and loops with their packets and       *)
(* iterators; each says at its beginning what is inductive there.          *)
(***************************************************************************)
EXTENDS CifStore, TLAPS, FiniteSetTheorems

-----------------------------------------------------------------------------
(* The statements. *)

\* The database cif_create_internal makes is sound.
LEMMA EmptySound == Sound(EmptyDatabase)
BY DEF Sound, EmptyDatabase, Database, Keys, ContainerKeys, BlockKeys, FrameKeys,
       LoopKeys, ItemKeys, ValueKeys, ForeignKeys, LoopNumsBelowNext

-----------------------------------------------------------------------------
(* Deletions. *)

\* Deleting rows of loop_item takes their values along (schema: foreign key
\* of item_value, "on delete cascade").
LEMMA DeleteItemsSound ==
    ASSUME NEW d, Sound(d), NEW S
    PROVE  Sound(DeleteItems(d, S))
<1> DEFINE e == DeleteItems(d, S)
<1>1. /\ e \in Database
      /\ e.seq = d.seq /\ e.container = d.container
      /\ e.data_block = d.data_block /\ e.save_frame = d.save_frame
      /\ e.loop = d.loop
      /\ e.loop_item = d.loop_item \ S
      /\ e.item_value \subseteq d.item_value
      /\ \A v \in e.item_value :
            ~ \E i \in S : i.container_id = v.container_id /\ i.name = v.name
  BY DEF Sound, Database, DeleteItems
<1>2. Keys(e)
  BY <1>1 DEF Sound, Keys, ContainerKeys, BlockKeys, FrameKeys, LoopKeys,
              ItemKeys, ValueKeys
<1>3. ForeignKeys(e)
  BY <1>1 DEF Sound, ForeignKeys, ContainerExists, LoopExists, ItemExists
<1>4. LoopNumsBelowNext(e)
  BY <1>1 DEF Sound, LoopNumsBelowNext
<1>5. QED
  BY <1>1, <1>2, <1>3, <1>4 DEF Sound

\* Deleting rows of loop takes their items and values along.
LEMMA DeleteLoopsSound ==
    ASSUME NEW d, Sound(d), NEW S
    PROVE  Sound(DeleteLoops(d, S))
<1> DEFINE I == {i \in d.loop_item :
                    \E r \in S : /\ r.container_id = i.container_id
                                 /\ r.loop_num = i.loop_num}
           d1 == DeleteItems(d, I)
           e  == DeleteLoops(d, S)
<1>1. Sound(d1)
  BY DeleteItemsSound
<1>2. d1.loop_item = d.loop_item \ I
  BY DEF Sound, Database, DeleteItems
<1> HIDE DEF d1
<1>3. e = [d1 EXCEPT !.loop = @ \ S]
  BY DEF DeleteLoops, d1
<1>4. /\ e \in Database
      /\ e.seq = d1.seq /\ e.container = d1.container
      /\ e.data_block = d1.data_block /\ e.save_frame = d1.save_frame
      /\ e.loop = d1.loop \ S
      /\ e.loop_item = d1.loop_item
      /\ e.item_value = d1.item_value
  BY <1>1, <1>3 DEF Sound, Database
<1>5. Keys(e)
  BY <1>1, <1>4 DEF Sound, Keys, ContainerKeys, BlockKeys, FrameKeys, LoopKeys,
                    ItemKeys, ValueKeys
<1>6. ForeignKeys(e)
  <2>1. \A i \in e.loop_item : LoopExists(e, i.container_id, i.loop_num)
    BY <1>1, <1>2, <1>4 DEF Sound, ForeignKeys, LoopExists
  <2>2. QED
    BY <1>1, <1>4, <2>1 DEF Sound, ForeignKeys, ContainerExists, ItemExists
<1>7. LoopNumsBelowNext(e)
  BY <1>1, <1>4 DEF Sound, LoopNumsBelowNext
<1>8. QED
  BY <1>4, <1>5, <1>6, <1>7 DEF Sound

\* DESTROY_CONTAINER_SQL: the cascades leave no row of the container, and no
\* save_frame row of a child, behind.
LEMMA DeleteContainerSound ==
    ASSUME NEW d, Sound(d), NEW c
    PROVE  Sound(DeleteContainer(d, c))
<1> DEFINE L  == {r \in d.loop : r.container_id = c}
           d1 == DeleteLoops(d, L)
           e  == DeleteContainer(d, c)
<1>1. Sound(d1)
  BY DeleteLoopsSound
<1>2. d1.loop = d.loop \ L
  BY DEF Sound, Database, DeleteLoops, DeleteItems
<1> HIDE DEF d1
<1>3. /\ e \in Database
      /\ e.seq = d1.seq
      /\ e.container = {r \in d1.container : r.id # c}
      /\ e.data_block = {b \in d1.data_block : b.container_id # c}
      /\ e.save_frame = {f \in d1.save_frame : f.container_id # c /\ f.parent_id # c}
      /\ e.loop = d1.loop
      /\ e.loop_item = d1.loop_item
      /\ e.item_value = d1.item_value
  BY <1>1 DEF DeleteContainer, d1, Sound, Database
<1>4. Keys(e)
  BY <1>1, <1>3 DEF Sound, Keys, ContainerKeys, BlockKeys, FrameKeys, LoopKeys,
                    ItemKeys, ValueKeys
<1>5. ForeignKeys(e)
  <2>1. \A r \in e.loop : ContainerExists(e, r.container_id)
    BY <1>1, <1>2, <1>3 DEF Sound, ForeignKeys, ContainerExists
  <2>2. QED
    BY <1>1, <1>3, <2>1 DEF Sound, ForeignKeys, ContainerExists, LoopExists, ItemExists
<1>6. LoopNumsBelowNext(e)
  BY <1>1, <1>3 DEF Sound, LoopNumsBelowNext
<1>7. QED
  BY <1>3, <1>4, <1>5, <1>6 DEF Sound

\* DESTROY_LOOP_SQL
LEMMA DeleteLoopSound ==
    ASSUME NEW d, Sound(d), NEW c, NEW n
    PROVE  Sound(DeleteLoop(d, c, n))
BY DeleteLoopsSound DEF DeleteLoop

\* PRUNE_SQL
LEMMA PruneSound ==
    ASSUME NEW d, Sound(d), NEW c
    PROVE  Sound(Prune(d, c))
BY DeleteLoopsSound DEF Prune

\* REMOVE_ITEM_SQL
LEMMA DeleteItemSound ==
    ASSUME NEW d, Sound(d), NEW c, NEW nm
    PROVE  Sound(DeleteItem(d, c, nm))
BY DeleteItemsSound DEF DeleteItem

\* What holds of a database holds of it with other, equally sound, values.
LEMMA ValuesSound ==
    ASSUME NEW d, Sound(d), NEW V,
           V \subseteq ValueRow,
           ValueKeys([d EXCEPT !.item_value = V]),
           \A v \in V : ItemExists(d, v.container_id, v.name)
    PROVE  Sound([d EXCEPT !.item_value = V])
<1> DEFINE e == [d EXCEPT !.item_value = V]
<1>1. /\ e \in Database
      /\ e.seq = d.seq /\ e.container = d.container
      /\ e.data_block = d.data_block /\ e.save_frame = d.save_frame
      /\ e.loop = d.loop /\ e.loop_item = d.loop_item
      /\ e.item_value = V
  BY DEF Sound, Database
<1>2. Keys(e)
  BY <1>1 DEF Sound, Keys, ContainerKeys, BlockKeys, FrameKeys, LoopKeys, ItemKeys
<1>3. ForeignKeys(e)
  BY <1>1 DEF Sound, ForeignKeys, ContainerExists, LoopExists, ItemExists
<1>4. LoopNumsBelowNext(e)
  BY <1>1 DEF Sound, LoopNumsBelowNext
<1>5. QED
  BY <1>1, <1>2, <1>3, <1>4 DEF Sound

\* REMOVE_PACKET_SQL
LEMMA DeletePacketSound ==
    ASSUME NEW d, Sound(d), NEW c, NEW n, NEW row
    PROVE  Sound(DeletePacket(d, c, n, row))
<1> DEFINE V == d.item_value \ {v \in LoopValues(d, c, n) : v.row_num = row}
<1>1. DeletePacket(d, c, n, row) = [d EXCEPT !.item_value = V]
  BY DEF DeletePacket
<1>2. V \subseteq ValueRow /\ \A v \in V : ItemExists(d, v.container_id, v.name)
  BY DEF Sound, Database, ForeignKeys
<1>3. ValueKeys([d EXCEPT !.item_value = V])
  BY DEF Sound, Database, Keys, ValueKeys
<1> HIDE DEF V
<1>4. QED
  BY <1>1, <1>2, <1>3, ValuesSound

-----------------------------------------------------------------------------
(* Insertions and updates. *)

\* A new container has an id above all there are (AUTOINCREMENT).
LEMMA InsertContainerSound ==
    ASSUME NEW d, Sound(d)
    PROVE  /\ Sound(InsertContainer(d))
           /\ ContainerExists(InsertContainer(d), NewContainerId(d))
           /\ NewContainerId(d) \in Nat
           /\ ~ ContainerExists(d, NewContainerId(d))
<1> DEFINE e   == InsertContainer(d)
           id  == NewContainerId(d)
           row == [id |-> id, next_loop_num |-> 0]
<1>1. id \in Nat /\ id = d.seq + 1 /\ id > 0
  BY DEF NewContainerId, Sound, Database
<1>2. row \in ContainerRow
  BY <1>1 DEF ContainerRow
<1>3. /\ e \in Database
      /\ e.seq = id
      /\ e.container = d.container \cup {row}
      /\ e.data_block = d.data_block /\ e.save_frame = d.save_frame
      /\ e.loop = d.loop /\ e.loop_item = d.loop_item
      /\ e.item_value = d.item_value
  BY <1>1, <1>2 DEF InsertContainer, Sound, Database
<1>4. \A r \in d.container : r.id \in Nat /\ 0 < r.id /\ r.id < id
  BY <1>1 DEF Sound, Keys, ContainerKeys, Database, ContainerRow
<1>5. ~ ContainerExists(d, id) /\ ContainerExists(e, id)
  <2>1. row.id = id
    OBVIOUS
  <2> HIDE DEF row, e, id
  <2>2. QED
    BY <1>1, <1>3, <1>4, <2>1 DEF ContainerExists
<1>6. Keys(e)
  <2>1. ContainerKeys(e)
    BY <1>1, <1>3, <1>4 DEF Sound, Keys, ContainerKeys
  <2>2. QED
    BY <1>3, <2>1 DEF Sound, Keys, BlockKeys, FrameKeys, LoopKeys, ItemKeys, ValueKeys
<1>7. ForeignKeys(e)
  BY <1>3 DEF Sound, ForeignKeys, ContainerExists, LoopExists, ItemExists
<1>8. LoopNumsBelowNext(e)
  BY <1>3, <1>5 DEF Sound, LoopNumsBelowNext, ForeignKeys, ContainerExists
<1>9. QED
  BY <1>1, <1>3, <1>5, <1>6, <1>7, <1>8 DEF Sound

\* cif_create_block inserts both rows of a new block.
LEMMA NewBlockSound ==
    ASSUME NEW d, Sound(d), NEW code \in Code, CanInsertBlock(d, code)
    PROVE  Sound(InsertBlock(InsertContainer(d), NewContainerId(d), code))
<1> DEFINE id  == NewContainerId(d)
           d1  == InsertContainer(d)
           row == [container_id |-> id, name |-> code]
           e   == InsertBlock(d1, id, code)
<1>1. Sound(d1) /\ ContainerExists(d1, id) /\ id \in Nat /\ ~ ContainerExists(d, id)
  BY InsertContainerSound
<1>2. d1.data_block = d.data_block
  BY DEF InsertContainer, Sound, Database
<1>3. \A b \in d1.data_block : b.container_id # id /\ b.name # code
  BY <1>1, <1>2 DEF Sound, ForeignKeys, CanInsertBlock
<1>4. row \in BlockRow /\ row.container_id = id /\ row.name = code
  BY <1>1 DEF BlockRow
<1> HIDE DEF id, d1, row
<1>5. /\ e \in Database
      /\ e.seq = d1.seq /\ e.container = d1.container
      /\ e.data_block = d1.data_block \cup {row} /\ e.save_frame = d1.save_frame
      /\ e.loop = d1.loop /\ e.loop_item = d1.loop_item
      /\ e.item_value = d1.item_value
  BY <1>1, <1>4 DEF InsertBlock, Sound, Database, row
<1>6. Keys(e)
  <2>1. BlockKeys(e)
    BY <1>1, <1>3, <1>4, <1>5 DEF Sound, Keys, BlockKeys
  <2>2. QED
    BY <1>1, <1>5, <2>1 DEF Sound, Keys, ContainerKeys, FrameKeys, LoopKeys,
                            ItemKeys, ValueKeys
<1>7. ForeignKeys(e)
  BY <1>1, <1>4, <1>5 DEF Sound, ForeignKeys, ContainerExists, LoopExists, ItemExists
<1>8. LoopNumsBelowNext(e)
  BY <1>1, <1>5 DEF Sound, LoopNumsBelowNext
<1>9. QED
  BY <1>5, <1>6, <1>7, <1>8 DEF Sound, id, d1

\* cif_container_create_frame inserts both rows of a new frame.
LEMMA NewFrameSound ==
    ASSUME NEW d, Sound(d), NEW code \in Code, NEW p \in Nat,
           CanInsertFrame(d, p, code)
    PROVE  Sound(InsertFrame(InsertContainer(d), NewContainerId(d), p, code))
<1> DEFINE id  == NewContainerId(d)
           d1  == InsertContainer(d)
           row == [container_id |-> id, parent_id |-> p, name |-> code]
           e   == InsertFrame(d1, id, p, code)
<1>1. Sound(d1) /\ ContainerExists(d1, id) /\ id \in Nat /\ ~ ContainerExists(d, id)
  BY InsertContainerSound
<1>2. d1.save_frame = d.save_frame /\ d.container \subseteq d1.container
  BY DEF InsertContainer, Sound, Database
<1>3. /\ \A f \in d1.save_frame : /\ f.container_id # id
                                  /\ ~ (f.parent_id = p /\ f.name = code)
      /\ ContainerExists(d1, p)
  BY <1>1, <1>2 DEF Sound, ForeignKeys, CanInsertFrame, ContainerExists
<1>4. /\ row \in FrameRow
      /\ row.container_id = id /\ row.parent_id = p /\ row.name = code
  BY <1>1 DEF FrameRow
<1> HIDE DEF id, d1, row
<1>5. /\ e \in Database
      /\ e.seq = d1.seq /\ e.container = d1.container
      /\ e.data_block = d1.data_block /\ e.save_frame = d1.save_frame \cup {row}
      /\ e.loop = d1.loop /\ e.loop_item = d1.loop_item
      /\ e.item_value = d1.item_value
  BY <1>1, <1>4 DEF InsertFrame, Sound, Database, row
<1>6. Keys(e)
  <2>1. FrameKeys(e)
    BY <1>1, <1>3, <1>4, <1>5 DEF Sound, Keys, FrameKeys
  <2>2. QED
    BY <1>1, <1>5, <2>1 DEF Sound, Keys, ContainerKeys, BlockKeys, LoopKeys,
                            ItemKeys, ValueKeys
<1>7. ForeignKeys(e)
  BY <1>1, <1>3, <1>4, <1>5
     DEF Sound, ForeignKeys, ContainerExists, LoopExists, ItemExists
<1>8. LoopNumsBelowNext(e)
  BY <1>1, <1>5 DEF Sound, LoopNumsBelowNext
<1>9. QED
  BY <1>5, <1>6, <1>7, <1>8 DEF Sound, id, d1

\* The next loop number of an existing container is in its row.
LEMMA NextLoopNumOfRow ==
    ASSUME NEW d, Sound(d), NEW r \in d.container
    PROVE  NextLoopNum(d, r.id) = r.next_loop_num
BY DEF NextLoopNum, Sound, Keys, ContainerKeys

\* CREATE_LOOP_SQL: the new loop has a number above those of the container's
\* other loops, and the one after it is above that.
LEMMA InsertLoopSound ==
    ASSUME NEW d, Sound(d), NEW c, ContainerExists(d, c), NEW cat \in AnyCategory
    PROVE  LET e == InsertLoop(d, c, cat)
               n == NextLoopNum(d, c)
           IN  /\ Sound(e)
               /\ c \in Nat /\ n \in Nat
               /\ e.loop = d.loop \cup {[container_id |-> c, loop_num |-> n,
                                         category |-> cat, last_row_num |-> 0]}
               /\ e.loop_item = d.loop_item
               /\ e.item_value = d.item_value
               /\ \A r \in d.loop : r.container_id = c => r.loop_num < n
<1> DEFINE n   == NextLoopNum(d, c)
           row == [container_id |-> c, loop_num |-> n,
                   category |-> cat, last_row_num |-> 0]
           up(r) == IF r.id = c THEN [r EXCEPT !.next_loop_num = @ + 1] ELSE r
           e   == InsertLoop(d, c, cat)
<1>1. PICK k \in d.container : k.id = c
  BY DEF ContainerExists
<1>2. n = k.next_loop_num
  BY <1>1, NextLoopNumOfRow
<1>3. k \in ContainerRow /\ c \in Nat /\ n \in Nat
  BY <1>1, <1>2 DEF Sound, Database, ContainerRow
<1>4. /\ row \in LoopRow
      /\ row.container_id = c /\ row.loop_num = n /\ row.category = cat
  BY <1>3 DEF LoopRow
<1>5. \A r \in d.loop : r.container_id = c => r.loop_num < n
  BY <1>1, <1>2 DEF Sound, LoopNumsBelowNext
<1>6. \A r \in d.container :
         /\ up(r) \in ContainerRow
         /\ up(r).id = r.id
         /\ r.id # c => up(r) = r
         /\ r.id = c => up(r).next_loop_num = n + 1
  <2> SUFFICES ASSUME NEW r \in d.container
               PROVE  /\ up(r) \in ContainerRow
                      /\ up(r).id = r.id
                      /\ r.id # c => up(r) = r
                      /\ r.id = c => up(r).next_loop_num = n + 1
    OBVIOUS
  <2>1. r \in ContainerRow
    BY DEF Sound, Database
  <2>2. r.id = c => r = k
    BY <1>1 DEF Sound, Keys, ContainerKeys
  <2>3. QED
    BY <1>2, <1>3, <2>1, <2>2 DEF ContainerRow
<1> DEFINE C == {up(r) : r \in d.container}
           L == d.loop \cup {row}
<1>7. C \subseteq ContainerRow /\ L \subseteq LoopRow
  BY <1>4, <1>6 DEF Sound, Database
<1>8. e = [d EXCEPT !.loop = L, !.container = C]
  BY DEF InsertLoop
<1> HIDE DEF C, L, e
<1>9. /\ e \in Database
      /\ e.seq = d.seq /\ e.container = C
      /\ e.data_block = d.data_block /\ e.save_frame = d.save_frame
      /\ e.loop = L
      /\ e.loop_item = d.loop_item /\ e.item_value = d.item_value
  BY <1>7, <1>8 DEF Sound, Database
<1> USE DEF C, L
<1> HIDE DEF row, n, up
<1>10. Keys(e)
  <2>1. ContainerKeys(e)
    BY <1>6, <1>9 DEF Sound, Keys, ContainerKeys
  <2>2. LoopKeys(e)
    BY <1>3, <1>4, <1>5, <1>9 DEF Sound, Keys, LoopKeys
  <2>3. QED
    BY <1>9, <2>1, <2>2 DEF Sound, Keys, BlockKeys, FrameKeys, ItemKeys, ValueKeys
<1>11. \A x : ContainerExists(d, x) => ContainerExists(e, x)
  BY <1>6, <1>9 DEF ContainerExists
<1>12. ForeignKeys(e)
  BY <1>4, <1>9, <1>11 DEF Sound, ForeignKeys, LoopExists, ItemExists
<1>13. LoopNumsBelowNext(e)
  <2> SUFFICES ASSUME NEW r \in d.container, NEW l \in e.loop,
                      l.container_id = up(r).id
               PROVE  l.loop_num < up(r).next_loop_num
    BY <1>9 DEF LoopNumsBelowNext
  <2>1. CASE l = row
    BY <1>3, <1>4, <1>6, <2>1
  <2>2. CASE l \in d.loop /\ r.id = c
    <3>1. l.loop_num \in Nat /\ l.loop_num < n
      BY <1>5, <1>6, <2>2 DEF Sound, Database, LoopRow
    <3>2. QED
      BY <1>3, <1>6, <2>2, <3>1
  <2>3. CASE l \in d.loop /\ r.id # c
    BY <1>6, <2>3 DEF Sound, LoopNumsBelowNext
  <2>4. QED
    BY <1>9, <2>1, <2>2, <2>3
<1>14. QED
  BY <1>3, <1>5, <1>9, <1>10, <1>12, <1>13 DEF Sound, e, n, row

\* ADD_LOOP_ITEM_SQL for each of some new names
LEMMA InsertItemsSound ==
    ASSUME NEW d, Sound(d), NEW c, NEW n, LoopExists(d, c, n),
           NEW names \in SUBSET ItemName,
           \A nm \in names : ~ ItemExists(d, c, nm)
    PROVE  LET e == InsertItems(d, c, names, n)
           IN  /\ Sound(e)
               /\ e.loop = d.loop
               /\ e.item_value = d.item_value
               /\ \A nm \in names : ItemExists(e, c, nm)
<1> DEFINE new == {[container_id |-> c, name |-> nm, loop_num |-> n] : nm \in names}
           e   == InsertItems(d, c, names, n)
<1>1. c \in Nat /\ n \in Nat
  BY DEF LoopExists, Sound, Database, LoopRow
<1>2. new \subseteq ItemRow
  BY <1>1 DEF ItemRow
<1>3. /\ \A i \in new : i.container_id = c /\ i.loop_num = n /\ i.name \in names
      /\ \A i1, i2 \in new : i1.name = i2.name => i1 = i2
      /\ \A nm \in names : \E i \in new : i.container_id = c /\ i.name = nm
  <2> DEFINE row(nm) == [container_id |-> c, name |-> nm, loop_num |-> n]
  <2>1. \A nm : /\ row(nm).container_id = c /\ row(nm).name = nm
                /\ row(nm).loop_num = n
    OBVIOUS
  <2>2. new = {row(nm) : nm \in names}
    OBVIOUS
  <2> HIDE DEF row, new
  <2>3. QED
    BY <2>1, <2>2
<1> HIDE DEF new
<1>4. /\ e \in Database
      /\ e.seq = d.seq /\ e.container = d.container
      /\ e.data_block = d.data_block /\ e.save_frame = d.save_frame
      /\ e.loop = d.loop /\ e.loop_item = d.loop_item \cup new
      /\ e.item_value = d.item_value
  BY <1>2 DEF InsertItems, Sound, Database, new
<1> HIDE DEF e
<1>5. Keys(e)
  <2>1. ItemKeys(e)
    BY <1>3, <1>4 DEF Sound, Keys, ItemKeys, ItemExists
  <2>2. QED
    BY <1>4, <2>1 DEF Sound, Keys, ContainerKeys, BlockKeys, FrameKeys, LoopKeys,
                      ValueKeys
<1>6. ForeignKeys(e)
  BY <1>3, <1>4 DEF Sound, ForeignKeys, ContainerExists, LoopExists, ItemExists
<1>7. LoopNumsBelowNext(e)
  BY <1>4 DEF Sound, LoopNumsBelowNext
<1>8. \A nm \in names : ItemExists(e, c, nm)
  BY <1>3, <1>4 DEF ItemExists
<1>9. QED
  BY <1>4, <1>5, <1>6, <1>7, <1>8 DEF Sound, e

\* An update of loop rows that leaves their keys alone.
LEMMA UpdateLoopsSound ==
    ASSUME NEW d, Sound(d), NEW f \in [d.loop -> LoopRow],
           \A r \in d.loop : /\ f[r].container_id = r.container_id
                             /\ f[r].loop_num = r.loop_num
    PROVE  Sound([d EXCEPT !.loop = {f[r] : r \in d.loop}])
<1> DEFINE L == {f[r] : r \in d.loop}
           e == [d EXCEPT !.loop = L]
<1>1. L \subseteq LoopRow
  OBVIOUS
<1> HIDE DEF L
<1>2. /\ e \in Database
      /\ e.seq = d.seq /\ e.container = d.container
      /\ e.data_block = d.data_block /\ e.save_frame = d.save_frame
      /\ e.loop = L /\ e.loop_item = d.loop_item
      /\ e.item_value = d.item_value
  BY <1>1 DEF Sound, Database
<1> HIDE DEF e
<1>3. Keys(e)
  <2>1. LoopKeys(e)
    BY <1>2 DEF Sound, Keys, LoopKeys, L
  <2>2. QED
    BY <1>2, <2>1 DEF Sound, Keys, ContainerKeys, BlockKeys, FrameKeys, ItemKeys,
                      ValueKeys
<1>4. \A c, n : LoopExists(d, c, n) => LoopExists(e, c, n)
  BY <1>2 DEF LoopExists, L
<1>5. ForeignKeys(e)
  BY <1>2, <1>4 DEF Sound, ForeignKeys, ContainerExists, ItemExists, L
<1>6. LoopNumsBelowNext(e)
  BY <1>2 DEF Sound, LoopNumsBelowNext, L
<1>7. QED
  BY <1>2, <1>3, <1>5, <1>6 DEF Sound, e, L

\* SET_CATEGORY_SQL
LEMMA UpdateCategorySound ==
    ASSUME NEW d, Sound(d), NEW c, NEW n, NEW cat \in AnyCategory
    PROVE  Sound(UpdateCategory(d, c, n, cat))
<1> DEFINE f == [r \in d.loop |-> IF r.container_id = c /\ r.loop_num = n
                                  THEN [r EXCEPT !.category = cat] ELSE r]
<1>1. /\ f \in [d.loop -> LoopRow]
      /\ \A r \in d.loop : /\ f[r].container_id = r.container_id
                           /\ f[r].loop_num = r.loop_num
  BY DEF Sound, Database, LoopRow
<1>2. UpdateCategory(d, c, n, cat) = [d EXCEPT !.loop = {f[r] : r \in d.loop}]
  BY DEF UpdateCategory
<1> HIDE DEF f
<1>3. QED
  BY <1>1, <1>2, UpdateLoopsSound

\* UPDATE_PACKET_NUM_SQL
LEMMA IncrementPacketNumSound ==
    ASSUME NEW d, Sound(d), NEW c, NEW n
    PROVE  Sound(IncrementPacketNum(d, c, n))
<1> DEFINE f == [r \in d.loop |-> IF r.container_id = c /\ r.loop_num = n
                                  THEN [r EXCEPT !.last_row_num = @ + 1] ELSE r]
<1>1. /\ f \in [d.loop -> LoopRow]
      /\ \A r \in d.loop : /\ f[r].container_id = r.container_id
                           /\ f[r].loop_num = r.loop_num
  BY DEF Sound, Database, LoopRow
<1>2. IncrementPacketNum(d, c, n) = [d EXCEPT !.loop = {f[r] : r \in d.loop}]
  BY DEF IncrementPacketNum
<1> HIDE DEF f
<1>3. QED
  BY <1>1, <1>2, UpdateLoopsSound

\* RESET_PACKET_NUM_SQL
LEMMA ResetPacketNumSound ==
    ASSUME NEW d, Sound(d), NEW c, NEW n
    PROVE  Sound(ResetPacketNum(d, c, n))
<1> DEFINE f == [r \in d.loop |-> IF r.container_id = c /\ r.loop_num = n
                                  THEN [r EXCEPT !.last_row_num = 0] ELSE r]
<1>1. /\ f \in [d.loop -> LoopRow]
      /\ \A r \in d.loop : /\ f[r].container_id = r.container_id
                           /\ f[r].loop_num = r.loop_num
  BY DEF Sound, Database, LoopRow
<1>2. ResetPacketNum(d, c, n) = [d EXCEPT !.loop = {f[r] : r \in d.loop}]
  BY DEF ResetPacketNum
<1> HIDE DEF f
<1>3. QED
  BY <1>1, <1>2, UpdateLoopsSound

\* The rows of a packet are rows of item_value, one for each of its items.
LEMMA PacketRowsTyped ==
    ASSUME NEW c \in Nat, NEW row \in Nat, NEW pkt,
           DOMAIN pkt \subseteq ItemName, \A nm \in DOMAIN pkt : pkt[nm] \in Value
    PROVE  /\ PacketRows(c, pkt, row) \subseteq ValueRow
           /\ \A v \in PacketRows(c, pkt, row) :
                 v.container_id = c /\ v.row_num = row /\ v.name \in DOMAIN pkt
           /\ \A v1, v2 \in PacketRows(c, pkt, row) : v1.name = v2.name => v1 = v2
<1> DEFINE r(nm) == [container_id |-> c, name |-> nm, row_num |-> row,
                     val |-> pkt[nm]]
<1>1. \A nm \in DOMAIN pkt : r(nm) \in ValueRow
  BY DEF ValueRow
<1>2. \A nm : r(nm).container_id = c /\ r(nm).name = nm /\ r(nm).row_num = row
  OBVIOUS
<1>3. PacketRows(c, pkt, row) = {r(nm) : nm \in DOMAIN pkt}
  BY DEF PacketRows
<1> HIDE DEF r
<1>4. QED
  BY <1>1, <1>2, <1>3

\* INSERT_VALUE_SQL for each item of a packet, all of them items of the
\* container, none with a value in that row
LEMMA InsertPacketSound ==
    ASSUME NEW d, Sound(d), NEW c \in Nat, NEW row \in Nat, NEW pkt,
           DOMAIN pkt \subseteq ItemName,
           \A nm \in DOMAIN pkt : pkt[nm] \in Value /\ ItemExists(d, c, nm),
           CanInsertPacket(d, c, pkt, row)
    PROVE  Sound(InsertPacket(d, c, pkt, row))
<1> DEFINE P == PacketRows(c, pkt, row)
           V == d.item_value \cup P
<1>1. /\ P \subseteq ValueRow
      /\ \A v \in P : v.container_id = c /\ v.row_num = row /\ v.name \in DOMAIN pkt
      /\ \A v1, v2 \in P : v1.name = v2.name => v1 = v2
  BY PacketRowsTyped
<1>2. \A v \in d.item_value : ~ (/\ v.container_id = c /\ v.row_num = row
                                 /\ v.name \in DOMAIN pkt)
  BY DEF CanInsertPacket, RowNums, ItemValues
<1> HIDE DEF P
<1>3. V \subseteq ValueRow /\ \A v \in V : ItemExists(d, v.container_id, v.name)
  BY <1>1 DEF Sound, Database, ForeignKeys
<1>4. ValueKeys([d EXCEPT !.item_value = V])
  <2>1. [d EXCEPT !.item_value = V].item_value = V
    BY DEF Sound, Database
  <2>2. QED
    BY <1>1, <1>2, <2>1 DEF Sound, Keys, ValueKeys
<1>5. InsertPacket(d, c, pkt, row) = [d EXCEPT !.item_value = V]
  BY DEF InsertPacket, P
<1> HIDE DEF V
<1>6. QED
  BY <1>3, <1>4, <1>5, ValuesSound

\* UPDATE_VALUE_SQL for each item of a packet, all of them items of the
\* container
LEMMA ReplacePacketSound ==
    ASSUME NEW d, Sound(d), NEW c \in Nat, NEW row \in Nat, NEW pkt,
           DOMAIN pkt \subseteq ItemName,
           \A nm \in DOMAIN pkt : pkt[nm] \in Value /\ ItemExists(d, c, nm)
    PROVE  Sound(ReplacePacket(d, c, pkt, row))
<1> DEFINE P == PacketRows(c, pkt, row)
           W == {v \in d.item_value : ~ (/\ v.container_id = c
                                         /\ v.row_num = row
                                         /\ v.name \in DOMAIN pkt)}
           V == W \cup P
<1>1. /\ P \subseteq ValueRow
      /\ \A v \in P : v.container_id = c /\ v.row_num = row /\ v.name \in DOMAIN pkt
      /\ \A v1, v2 \in P : v1.name = v2.name => v1 = v2
  BY PacketRowsTyped
<1> HIDE DEF P
<1>2. V \subseteq ValueRow /\ \A v \in V : ItemExists(d, v.container_id, v.name)
  BY <1>1 DEF Sound, Database, ForeignKeys
<1>3. ValueKeys([d EXCEPT !.item_value = V])
  <2>1. [d EXCEPT !.item_value = V].item_value = V
    BY DEF Sound, Database
  <2>2. QED
    BY <1>1, <2>1 DEF Sound, Keys, ValueKeys
<1>4. ReplacePacket(d, c, pkt, row) = [d EXCEPT !.item_value = V]
  BY DEF ReplacePacket, P
<1> HIDE DEF V
<1>5. QED
  BY <1>2, <1>3, <1>4, ValuesSound

\* SET_ALL_VALUES_SQL: an item whose loop has packets is an item of the
\* container, and their numbers are row numbers.
LEMMA SetAllValuesSound ==
    ASSUME NEW d, Sound(d), NEW c \in Nat, NEW nm \in ItemName, NEW val \in Value
    PROVE  Sound(SetAllValues(d, c, nm, val))
<1> DEFINE rows == RowsOfItemLoop(d, c, nm)
           r(n) == [container_id |-> c, name |-> nm, row_num |-> n, val |-> val]
           P == {r(n) : n \in rows}
           W == {v \in d.item_value : ~ (/\ v.container_id = c
                                         /\ v.name = nm
                                         /\ v.row_num \in rows)}
           V == W \cup P
<1>1. \A n \in rows : n \in Nat /\ ItemExists(d, c, nm)
  BY DEF RowsOfItemLoop, RowNums, LoopValues, ItemLoops, LoopItems, ItemExists,
         Sound, Database, ValueRow
<1>2. \A n : /\ r(n).container_id = c /\ r(n).name = nm /\ r(n).row_num = n
             /\ n \in Nat => r(n) \in ValueRow
  BY DEF ValueRow
<1>3. SetAllValues(d, c, nm, val) = [d EXCEPT !.item_value = V]
  BY DEF SetAllValues
<1> HIDE DEF r, rows
<1>4. V \subseteq ValueRow /\ \A v \in V : ItemExists(d, v.container_id, v.name)
  BY <1>1, <1>2 DEF Sound, Database, ForeignKeys
<1>5. ValueKeys([d EXCEPT !.item_value = V])
  <2>1. [d EXCEPT !.item_value = V].item_value = V
    BY DEF Sound, Database
  <2>2. QED
    BY <1>2, <2>1 DEF Sound, Keys, ValueKeys
<1> HIDE DEF V
<1>6. QED
  BY <1>3, <1>4, <1>5, ValuesSound

-----------------------------------------------------------------------------
(* Transactions. *)

\* A failed transaction leaves the database it found (ROLLBACK_NESTTX), and that
\* was sound.
LEMMA AtomicallySound ==
    ASSUME NEW d, Sound(d), NEW r, r.rc = "CIF_OK" => Sound(r.db)
    PROVE  Sound(Atomically(d, r).db)
BY DEF Atomically, Result

\* The same where BEGIN may itself be refused.
LEMMA TopLevelSound ==
    ASSUME NEW d, Sound(d), NEW r, r.rc = "CIF_OK" => Sound(r.db)
    PROVE  Sound(TopLevel(d, r).db)
BY AtomicallySound DEF TopLevel, Result

-----------------------------------------------------------------------------
(* The internal functions. *)

\* GET_LOOPNUM_SQL finds the loop just inserted.
LEMMA MaxLoopNumIsNew ==
    ASSUME NEW d, Sound(d), NEW c, ContainerExists(d, c), NEW cat \in AnyCategory,
           NEW e, e.loop = InsertLoop(d, c, cat).loop
    PROVE  MaxLoopNumOf(e, c) = NextLoopNum(d, c)
<1> DEFINE n    == NextLoopNum(d, c)
           row  == [container_id |-> c, loop_num |-> n,
                    category |-> cat, last_row_num |-> 0]
           nums == {r.loop_num : r \in {r \in e.loop : r.container_id = c}}
<1>1. /\ n \in Nat
      /\ e.loop = d.loop \cup {row}
      /\ \A r \in d.loop : r.container_id = c => r.loop_num < n
  BY InsertLoopSound
<1>2. \A r \in d.loop : r.loop_num \in Nat
  BY DEF Sound, Database, LoopRow
<1>3. row.container_id = c /\ row.loop_num = n
  OBVIOUS
<1> HIDE DEF row, n
<1>4. n \in nums /\ \A m \in nums : m \in Nat /\ m <= n
  BY <1>1, <1>2, <1>3
<1>5. \A m \in nums : n <= m => m = n
  BY <1>1, <1>4
<1> HIDE DEF nums
<1>6. (CHOOSE x \in nums : \A m \in nums : m <= x) = n
  BY <1>4, <1>5
<1>7. QED
  BY <1>6 DEF MaxLoopNumOf, nums, n

\* create_loop_internal keeps the tables sound, and on success the new loop is
\* the one its handle denotes.
LEMMA CreateLoopInternalSound ==
    ASSUME NEW d, Sound(d), NEW c, NEW cat \in AnyCategory,
           NEW nn, Names(nn) \subseteq ItemName
    PROVE  LET r == CreateLoopInternal(d, c, cat, nn)
               n == MaxLoopNumOf(r.db, c)
           IN  /\ Sound(r.db)
               /\ r.rc = "CIF_OK" => /\ c \in Nat /\ n \in Nat
                                     /\ CategoryLoops(r.db, c, cat) # {}
<1> DEFINE d1 == InsertLoop(d, c, cat)
           m  == NextLoopNum(d, c)
           d2 == InsertItems(d1, c, Names(nn), m)
           r  == CreateLoopInternal(d, c, cat, nn)
           ok == /\ ~ DuplicatesScalarLoop(d, c, cat)
                 /\ ContainerExists(d, c)
                 /\ ~ \E nm \in Names(nn) : ItemExists(d, c, nm)
<1>1. CASE r.rc = "CIF_OK"
  <2>1. ok /\ r.db = InsertItems(d1, c, Names(nn), MaxLoopNumOf(d1, c))
    BY <1>1 DEF CreateLoopInternal, Atomically, Result
  <2>2. MaxLoopNumOf(d1, c) = m
    BY <2>1, MaxLoopNumIsNew
  <2>3. /\ Sound(d1) /\ c \in Nat /\ m \in Nat
        /\ d1.loop = d.loop \cup {[container_id |-> c, loop_num |-> m,
                                   category |-> cat, last_row_num |-> 0]}
        /\ d1.loop_item = d.loop_item
    BY <2>1, InsertLoopSound
  <2>4. LoopExists(d1, c, m) /\ CategoryLoops(d1, c, cat) # {}
    <3> DEFINE row == [container_id |-> c, loop_num |-> m,
                       category |-> cat, last_row_num |-> 0]
    <3>1. row.container_id = c /\ row.loop_num = m /\ row.category = cat
      OBVIOUS
    <3>2. row \in d1.loop
      BY <2>3
    <3> HIDE DEF row, d1, m
    <3>3. QED
      BY <3>1, <3>2 DEF LoopExists, CategoryLoops
  <2>5. \A nm \in Names(nn) : ~ ItemExists(d1, c, nm)
    BY <2>1, <2>3 DEF ItemExists
  <2> HIDE DEF d1, m
  <2>6. Sound(d2) /\ d2.loop = d1.loop
    BY <2>3, <2>4, <2>5, InsertItemsSound
  <2> USE DEF d1, m
  <2>7. MaxLoopNumOf(d2, c) = m
    BY <2>1, <2>6, MaxLoopNumIsNew
  <2>8. CategoryLoops(d2, c, cat) # {}
    BY <2>4, <2>6 DEF CategoryLoops
  <2>9. QED
    BY <2>1, <2>2, <2>3, <2>6, <2>7, <2>8
<1>2. CASE r.rc # "CIF_OK"
  <2>1. r.db = d
    BY <1>2 DEF CreateLoopInternal, Atomically, Result
  <2>2. QED
    BY <1>2, <2>1
<1>3. QED
  BY <1>1, <1>2

\* cif_loop_add_item_internal
LEMMA AddItemInternalSound ==
    ASSUME NEW d, Sound(d), NEW c \in Nat, NEW n, NEW nm \in ItemName,
           NEW val \in Value
    PROVE  Sound(AddItemInternal(d, c, n, nm, val).db)
<1> DEFINE d1 == InsertItems(d, c, {nm}, n)
<1>1. CASE CanInsertItem(d, c, nm, n)
  <2>1. Sound(d1)
    BY <1>1, InsertItemsSound DEF CanInsertItem
  <2>2. Sound(SetAllValues(d1, c, nm, val))
    BY <2>1, SetAllValuesSound
  <2>3. QED
    BY <1>1, <2>2 DEF AddItemInternal, Atomically, Result
<1>2. CASE ~ CanInsertItem(d, c, nm, n)
  BY <1>2 DEF AddItemInternal, Atomically, Result
<1>3. QED
  BY <1>1, <1>2

\* The number of the packet to add is the counter of the one loop there is.
LEMMA PacketNumTyped ==
    ASSUME NEW d, Sound(d), NEW c, NEW n, LoopExists(d, c, n)
    PROVE  PacketNum(d, c, n) \in Nat
BY DEF PacketNum, LoopExists, Sound, Database, LoopRow

\* cif_loop_add_packet
LEMMA AddPacketInternalSound ==
    ASSUME NEW d, Sound(d), NEW c \in Nat, NEW n, NEW pkt,
           DOMAIN pkt \subseteq ItemName, \A nm \in DOMAIN pkt : pkt[nm] \in Value
    PROVE  Sound(AddPacketInternal(d, c, n, pkt).db)
<1> DEFINE d1  == IncrementPacketNum(d, c, n)
           row == PacketNum(d1, c, n)
           r   == AddPacketInternal(d, c, n, pkt)
<1>1. CASE r.rc = "CIF_OK"
  <2>1. /\ LoopExists(d, c, n)
        /\ DOMAIN pkt \subseteq LoopNames(d, c, n)
        /\ CanInsertPacket(d1, c, pkt, row)
        /\ r.db = InsertPacket(d1, c, pkt, row)
    BY <1>1 DEF AddPacketInternal, Atomically, Result
  <2>2. Sound(d1) /\ d1.loop_item = d.loop_item
    <3>1. d1.loop_item = d.loop_item
      BY DEF IncrementPacketNum, Sound, Database
    <3>2. QED
      BY <3>1, IncrementPacketNumSound
  <2>3. LoopExists(d1, c, n)
    <3>1. PICK k \in d.loop : k.container_id = c /\ k.loop_num = n
      BY <2>1 DEF LoopExists
    <3>2. k \in LoopRow
      BY DEF Sound, Database
    <3> DEFINE up(r1) == IF r1.container_id = c /\ r1.loop_num = n
                         THEN [r1 EXCEPT !.last_row_num = @ + 1] ELSE r1
               k1 == up(k)
    <3>3. k1.container_id = c /\ k1.loop_num = n
      BY <3>1, <3>2 DEF LoopRow
    <3>4. k1 \in d1.loop
      <4>1. d1.loop = {up(r1) : r1 \in d.loop}
        BY DEF IncrementPacketNum, Sound, Database
      <4> HIDE DEF up
      <4>2. QED
        BY <4>1
    <3>5. QED
      BY <3>3, <3>4 DEF LoopExists
  <2>4. row \in Nat
    BY <2>2, <2>3, PacketNumTyped
  <2>5. \A nm \in DOMAIN pkt : ItemExists(d1, c, nm)
    BY <2>1, <2>2 DEF LoopNames, LoopItems, ItemExists
  <2> HIDE DEF d1, row
  <2>6. QED
    BY <2>1, <2>2, <2>4, <2>5, InsertPacketSound
<1>2. CASE r.rc # "CIF_OK"
  BY <1>2 DEF AddPacketInternal, Atomically, Result
<1>3. QED
  BY <1>1, <1>2

\* add_scalar makes the scalar loop, the item and the packet, or nothing.
LEMMA AddScalarSound ==
    ASSUME NEW d, Sound(d), NEW c, NEW nm \in ItemName, NEW val \in Value
    PROVE  Sound(AddScalar(d, c, nm, val).db)
<1> DEFINE r1 == IF CategoryLoops(d, c, Scalars) = {}
                 THEN CreateLoopInternal(d, c, Scalars, <<>>)
                 ELSE Result(d, "CIF_OK")
           n  == (CHOOSE r \in CategoryLoops(r1.db, c, Scalars) : TRUE).loop_num
           r2 == AddItemInternal(r1.db, c, n, nm, val)
           r3 == AddPacketInternal(r2.db, c, n, [x \in {nm} |-> val])
<1>1. Names(<<>>) \subseteq ItemName /\ Scalars \in AnyCategory
  BY DEF Names, AnyCategory
<1>2. Sound(r1.db)
  BY <1>1, CreateLoopInternalSound DEF Result
<1>3. r1.rc = "CIF_OK" => c \in Nat
  <2>1. CategoryLoops(d, c, Scalars) # {} => c \in Nat
    BY DEF CategoryLoops, Sound, Database, LoopRow
  <2>2. QED
    BY <1>1, <2>1, CreateLoopInternalSound DEF Result
<1> HIDE DEF r1, n
<1>4. r1.rc = "CIF_OK" => Sound(r2.db)
  BY <1>2, <1>3, AddItemInternalSound
<1> HIDE DEF r2
<1>5. r1.rc = "CIF_OK" => Sound(r3.db)
  BY <1>3, <1>4, AddPacketInternalSound
<1> HIDE DEF r3
<1>6. AddScalar(d, c, nm, val) \in {r1, r2, r3}
      /\ (r1.rc # "CIF_OK" => AddScalar(d, c, nm, val) = r1)
  BY DEF AddScalar, r1, r2, r3, n
<1>7. QED
  BY <1>2, <1>4, <1>5, <1>6

\* The body of cif_container_set_value
LEMMA SetValueInternalSound ==
    ASSUME NEW d, Sound(d), NEW c, NEW nm \in ItemName, NEW val \in Value
    PROVE  Sound(SetValueInternal(d, c, nm, val).db)
<1>1. ItemLoops(d, c, nm) # {} => c \in Nat
  BY DEF ItemLoops, Sound, Database, LoopRow
<1>2. QED
  BY <1>1, AddScalarSound, SetAllValuesSound DEF SetValueInternal, Result

\* The body of cif_container_remove_item
LEMMA RemoveItemInternalSound ==
    ASSUME NEW d, Sound(d), NEW c, NEW nm
    PROVE  Sound(RemoveItemInternal(d, c, nm).db)
BY DeleteLoopsSound, DeleteItemSound DEF RemoveItemInternal, Result

-----------------------------------------------------------------------------
(* The inductive invariant.  What "rollback" restores has to be as sound   *)
(* as the tables themselves, and the functions of pktitr.c read the loop   *)
(* handle their iterator points to.                                        *)

IteratorHandleHeld == \A it \in iters : it.slot \in DOMAIN lh

Inv == /\ TypeOK
       /\ Sound(db)
       /\ Sound(saved)
       /\ TransactionIsIterators
       /\ IteratorHandleHeld

\* The managed CIF that cif_create makes satisfies the invariant.
LEMMA InitInv == Init => Inv
BY EmptySound DEF Init, Inv, Sound, TypeOK, TransactionIsIterators, IteratorHandleHeld

\* A step that changes the tables alone.
LEMMA TablesStep ==
    ASSUME Inv, Sound(db'), UNCHANGED <<autocommit, saved, cont, lh, iters>>
    PROVE  Inv'
BY DEF Inv, Sound, TypeOK, TransactionIsIterators, IteratorHandleHeld

\* A step that hands out, changes or takes back loop handles, none that an
\* iterator points to.
LEMMA HandleStep ==
    ASSUME Inv, Sound(db'), UNCHANGED <<autocommit, saved, cont, iters>>,
           DOMAIN lh' \subseteq Slot,
           \A s \in DOMAIN lh' : lh'[s] \in LoopRef,
           \A s \in DOMAIN lh : s \in DOMAIN lh' \/ Idle(s)
    PROVE  Inv'
BY DEF Inv, Sound, TypeOK, TransactionIsIterators, IteratorHandleHeld, Idle

\* A call that puts a loop handle in a slot no iterator points to.
LEMMA KeepStep ==
    ASSUME Inv, Sound(db'), UNCHANGED <<autocommit, saved, cont, iters>>,
           NEW s \in Slot, NEW l \in LoopRef, Keep(s, l)
    PROVE  Inv'
<1>1. /\ DOMAIN lh' = DOMAIN lh \cup {s}
      /\ \A x \in DOMAIN lh' : lh'[x] = IF x = s THEN l ELSE lh[x]
  BY DEF Keep
<1>2. DOMAIN lh \subseteq Slot /\ \A x \in DOMAIN lh : lh[x] \in LoopRef
  BY DEF Inv, TypeOK
<1>3. QED
  BY <1>1, <1>2, HandleStep

\* A call that takes back loop handles no iterator points to.
LEMMA DropStep ==
    ASSUME Inv, Sound(db'), UNCHANGED <<autocommit, saved, cont, iters>>,
           NEW S, \A s \in S : Idle(s), Drop(S)
    PROVE  Inv'
<1>1. /\ DOMAIN lh' = DOMAIN lh \ S
      /\ \A x \in DOMAIN lh' : lh'[x] = lh[x]
  BY DEF Drop
<1>2. DOMAIN lh \subseteq Slot /\ \A x \in DOMAIN lh : lh[x] \in LoopRef
  BY DEF Inv, TypeOK
<1>3. QED
  BY <1>1, <1>2, HandleStep

\* The handle made from a row of table loop (cif_container_get_all_loops and
\* its like) has a loop handle's fields.
LEMMA RefTyped ==
    ASSUME NEW d, Sound(d), NEW r \in d.loop
    PROVE  RefTo(r) \in LoopRef
BY DEF RefTo, LoopRef, Sound, Database, LoopRow

-----------------------------------------------------------------------------
(* The steps, by source file. *)

\* cif.c: cif_create_block, cif_get_block
LEMMA BlockCallInv ==
    ASSUME Inv, BlockCall
    PROVE  Inv'
<1>1. ASSUME NEW sp \in CodeSpelling, CreateBlock(sp)
      PROVE  Inv'
  <2> DEFINE code == NormCode[sp]
             d1   == InsertContainer(db)
             id   == NewContainerId(db)
             body == IF CanInsertBlock(db, code)
                     THEN Result(InsertBlock(d1, id, code), "CIF_OK")
                     ELSE Result(d1, "CIF_DUP_BLOCKCODE")
             r    == IF code = Invalid THEN Result(db, "CIF_INVALID_BLOCKCODE")
                     ELSE TopLevel(db, body)
             k    == [id |-> id, parent_id |-> -1, code |-> code]
  <2>1. /\ db' = r.db
        /\ cont' = cont \cup (IF r.rc = "CIF_OK" THEN {k} ELSE {})
        /\ UNCHANGED <<autocommit, saved, lh, iters>>
    BY <1>1 DEF CreateBlock, CreateContainer
  <2>2. code \in Code \cup {Invalid}
    BY NormAssumption
  <2>3. code # Invalid /\ body.rc = "CIF_OK" => Sound(body.db)
    BY <2>2, NewBlockSound DEF Inv, Result
  <2>4. Sound(r.db)
    BY <2>3, TopLevelSound DEF Inv, Result
  <2>5. r.rc = "CIF_OK" => k \in ContHandle
    BY <2>2, InsertContainerSound DEF ContHandle, Result, Inv
  <2> HIDE DEF r, k
  <2>6. QED
    BY <2>1, <2>4, <2>5
       DEF Inv, Sound, TypeOK, TransactionIsIterators, IteratorHandleHeld
<1>2. ASSUME NEW sp \in CodeSpelling, GetBlock(sp)
      PROVE  Inv'
  <2> DEFINE new == {[id |-> b.container_id, parent_id |-> -1, code |-> b.name] :
                        b \in {b \in db.data_block : b.name = NormCode[sp]}}
  <2>1. cont' = cont \cup new /\ UNCHANGED <<db, autocommit, saved, lh, iters>>
    BY <1>2 DEF GetBlock
  <2>2. new \subseteq ContHandle
    BY DEF Inv, TypeOK, Database, BlockRow, ContHandle
  <2> HIDE DEF new
  <2>3. QED
    BY <2>1, <2>2 DEF Inv, TypeOK, TransactionIsIterators, IteratorHandleHeld
<1>3. QED
  BY <1>1, <1>2 DEF BlockCall

\* container.c: cif_container_create_frame, ..._get_frame, ..._destroy
LEMMA FrameCallInv ==
    ASSUME Inv, NEW c \in Ids, NEW sp \in CodeSpelling,
           CreateFrame(c, sp) \/ GetFrame(c, sp)
    PROVE  Inv'
<1>1. c \in Nat
  BY DEF Ids, Inv, TypeOK, ContHandle
<1>2. CASE CreateFrame(c, sp)
  <2> DEFINE code == NormCode[sp]
             d1   == InsertContainer(db)
             id   == NewContainerId(db)
             body == IF CanInsertFrame(db, c, code)
                     THEN Result(InsertFrame(d1, id, c, code), "CIF_OK")
                     ELSE Result(d1, "CIF_DUP_FRAMECODE")
             r    == IF code = Invalid THEN Result(db, "CIF_INVALID_FRAMECODE")
                     ELSE TopLevel(db, body)
             k    == [id |-> id, parent_id |-> c, code |-> code]
  <2>1. /\ db' = r.db
        /\ cont' = cont \cup (IF r.rc = "CIF_OK" THEN {k} ELSE {})
        /\ UNCHANGED <<autocommit, saved, lh, iters>>
    BY <1>2 DEF CreateFrame, CreateContainer
  <2>2. code \in Code \cup {Invalid}
    BY NormAssumption
  <2>3. code # Invalid /\ body.rc = "CIF_OK" => Sound(body.db)
    BY <1>1, <2>2, NewFrameSound DEF Inv, Result
  <2>4. Sound(r.db)
    BY <2>3, TopLevelSound DEF Inv, Result
  <2>5. r.rc = "CIF_OK" => k \in ContHandle
    BY <1>1, <2>2, InsertContainerSound DEF ContHandle, Result, Inv
  <2> HIDE DEF r, k
  <2>6. QED
    BY <2>1, <2>4, <2>5
       DEF Inv, Sound, TypeOK, TransactionIsIterators, IteratorHandleHeld
<1>3. CASE GetFrame(c, sp)
  <2> DEFINE new == {[id |-> f.container_id, parent_id |-> c, code |-> f.name] :
                        f \in {f \in db.save_frame : f.parent_id = c
                                                     /\ f.name = NormCode[sp]}}
  <2>1. cont' = cont \cup new /\ UNCHANGED <<db, autocommit, saved, lh, iters>>
    BY <1>3 DEF GetFrame
  <2>2. new \subseteq ContHandle
    BY <1>1 DEF Inv, TypeOK, Database, FrameRow, ContHandle
  <2> HIDE DEF new
  <2>3. QED
    BY <2>1, <2>2 DEF Inv, TypeOK, TransactionIsIterators, IteratorHandleHeld
<1>4. QED
  BY <1>2, <1>3

\* cif_container_create_loop hands out a handle on a loop that is there.
LEMMA CreateLoopInv ==
    ASSUME Inv, NEW c \in Ids, NEW cat \in LoopCategory, NEW names \in NameLists,
           NEW s \in Slot, CreateLoop(c, cat, names, s)
    PROVE  Inv'
<1> DEFINE nn == [i \in DOMAIN names |-> NormItem[names[i]]]
           r  == IF names = <<>> THEN Result(db, "CIF_NULL_LOOP")
                 ELSE IF Invalid \in Names(nn) THEN Result(db, "CIF_INVALID_ITEMNAME")
                 ELSE CreateLoopInternal(db, c, cat, nn)
           n  == MaxLoopNumOf(r.db, c)
           l  == [container_id |-> c, loop_num |-> n, category |-> cat]
<1>1. /\ db' = r.db
      /\ IF r.rc = "CIF_OK" THEN Keep(s, l) ELSE UNCHANGED lh
      /\ UNCHANGED <<autocommit, saved, cont, iters>>
  BY DEF CreateLoop
<1>2. cat \in AnyCategory
  BY ArgumentAssumption
<1>3. Invalid \notin Names(nn) => Names(nn) \subseteq ItemName
  <2>1. \A i \in DOMAIN names : names[i] \in ItemSpelling
    <3>1. names \in Seq(ItemSpelling)
      BY ArgumentAssumption
    <3>2. QED
      BY <3>1
  <2>2. \A i \in DOMAIN nn : nn[i] \in ItemName \cup {Invalid}
    BY <2>1, NormAssumption
  <2>3. QED
    BY <2>2 DEF Names
<1> HIDE DEF nn
<1>4. Sound(r.db) /\ (r.rc = "CIF_OK" => c \in Nat /\ n \in Nat)
  BY <1>2, <1>3, CreateLoopInternalSound DEF Inv, Result
<1>5. r.rc = "CIF_OK" => l \in LoopRef
  BY <1>2, <1>4 DEF LoopRef
<1> HIDE DEF r, l
<1>6. QED
  BY <1>1, <1>4, <1>5, KeepStep, TablesStep

\* cif_container_get_category_loop and cif_container_get_item_loop
LEMMA GetLoopInv ==
    ASSUME Inv, NEW op, NEW arg, NEW found, found \subseteq db.loop,
           NEW none, NEW many, NEW s \in Slot, GetLoop(op, arg, found, none, many, s)
    PROVE  Inv'
<1>1. UNCHANGED <<db, autocommit, saved, cont, iters>> /\ Sound(db')
  BY DEF GetLoop, Inv
<1>2. \/ \E r \in found : Keep(s, RefTo(r))
      \/ UNCHANGED lh
  BY DEF GetLoop
<1>3. \A r \in found : RefTo(r) \in LoopRef
  BY RefTyped DEF Inv
<1>4. QED
  BY <1>1, <1>2, <1>3, KeepStep, TablesStep

\* container.c: every call made through a container handle
LEMMA ContainerCallInv ==
    ASSUME Inv, NEW c \in Ids, ContainerCall(c)
    PROVE  Inv'
<1>1. ASSUME NEW s \in Slot, GetAllLoops(c, s)
      PROVE  Inv'
  <2>1. UNCHANGED <<db, autocommit, saved, cont, iters>> /\ Sound(db')
    BY <1>1 DEF GetAllLoops, Inv
  <2>2. \/ \E r \in db.loop : Keep(s, RefTo(r))
        \/ UNCHANGED lh
    BY <1>1 DEF GetAllLoops
  <2>3. \A r \in db.loop : RefTo(r) \in LoopRef
    BY RefTyped DEF Inv
  <2>4. QED
    BY <2>1, <2>2, <2>3, KeepStep, TablesStep
<1>2. ASSUME NEW s \in Slot, NEW cat \in AnyCategory, GetCategoryLoop(c, cat, s)
      PROVE  Inv'
  BY <1>2, GetLoopInv DEF GetCategoryLoop, CategoryLoops
<1>3. ASSUME NEW s \in Slot, NEW sp \in ItemSpelling, GetItemLoop(c, sp, s)
      PROVE  Inv'
  BY <1>3, GetLoopInv DEF GetItemLoop, ItemLoops
<1>4. CASE DestroyContainer(c)
  BY <1>4, DeleteContainerSound, TablesStep DEF DestroyContainer, Inv
<1>5. CASE PruneContainer(c)
  BY <1>5, PruneSound, TablesStep DEF PruneContainer, Inv
<1>6. ASSUME NEW sp \in ItemSpelling, GetValue(c, sp)
      PROVE  Inv'
  BY <1>6, TablesStep DEF GetValue, Inv
<1>7. ASSUME NEW sp \in ItemSpelling, NEW val \in Value, SetValue(c, sp, val)
      PROVE  Inv'
  <2>1. NormItem[sp] # Invalid => NormItem[sp] \in ItemName
    BY NormAssumption
  <2>2. NormItem[sp] # Invalid =>
           Sound(TopLevel(db, SetValueInternal(db, c, NormItem[sp], val)).db)
    BY <2>1, SetValueInternalSound, TopLevelSound DEF Inv
  <2>3. Sound(db')
    BY <1>7, <2>2 DEF SetValue, Result, Inv
  <2>4. QED
    BY <1>7, <2>3, TablesStep DEF SetValue
<1>8. ASSUME NEW sp \in ItemSpelling, RemoveItem(c, sp)
      PROVE  Inv'
  <2>1. Sound(TopLevel(db, RemoveItemInternal(db, c, NormItem[sp])).db)
    BY RemoveItemInternalSound, TopLevelSound DEF Inv
  <2>2. Sound(db')
    BY <1>8, <2>1 DEF RemoveItem, Result, Inv
  <2>3. QED
    BY <1>8, <2>2, TablesStep DEF RemoveItem
<1>9. QED
  BY <1>1, <1>2, <1>3, <1>4, <1>5, <1>6, <1>7, <1>8, FrameCallInv, CreateLoopInv
     DEF ContainerCall

\* loop.c: every call made through a loop handle
LEMMA LoopCallInv ==
    ASSUME Inv, NEW s \in DOMAIN lh, LoopCall(s)
    PROVE  Inv'
<1>1. /\ s \in Slot
      /\ lh[s] \in LoopRef
      /\ lh[s].container_id \in Nat
      /\ Sound(db)
  BY DEF Inv, TypeOK, LoopRef
<1>2. CASE LoopFree(s)
  BY <1>1, <1>2, DropStep DEF LoopFree
<1>3. CASE LoopDestroy(s)
  <2>1. Sound(db') /\ UNCHANGED <<autocommit, saved, cont, iters>> /\ Idle(s)
    BY <1>1, <1>3, DeleteLoopSound DEF LoopDestroy
  <2>2. Drop({s}) \/ UNCHANGED lh
    BY <1>3 DEF LoopDestroy
  <2>3. QED
    BY <2>1, <2>2, DropStep, TablesStep
<1>4. ASSUME NEW cat \in NewCategory, LoopSetCategory(s, cat)
      PROVE  Inv'
  <2>1. cat \in AnyCategory
    BY ArgumentAssumption
  <2>2. [lh[s] EXCEPT !.category = cat] \in LoopRef
    BY <1>1, <2>1 DEF LoopRef
  <2>3. Sound(db') /\ UNCHANGED <<autocommit, saved, cont, iters>>
    BY <1>1, <1>4, <2>1, UpdateCategorySound DEF LoopSetCategory
  <2>4. Keep(s, [lh[s] EXCEPT !.category = cat]) \/ UNCHANGED lh
    BY <1>4 DEF LoopSetCategory
  <2>5. QED
    BY <1>1, <2>2, <2>3, <2>4, KeepStep, TablesStep
<1>5. CASE LoopGetNames(s)
  BY <1>1, <1>5, TablesStep DEF LoopGetNames
<1>6. ASSUME NEW sp \in ItemSpelling, NEW val \in Value, LoopAddItem(s, sp, val)
      PROVE  Inv'
  <2>1. NormItem[sp] # Invalid => NormItem[sp] \in ItemName
    BY NormAssumption
  <2>2. Sound(db')
    BY <1>1, <1>6, <2>1, AddItemInternalSound DEF LoopAddItem, Result
  <2>3. QED
    BY <1>6, <2>2, TablesStep DEF LoopAddItem
<1>7. ASSUME NEW pkt \in Packets, LoopAddPacket(s, pkt)
      PROVE  Inv'
  <2>1. DOMAIN pkt \subseteq ItemName /\ \A nm \in DOMAIN pkt : pkt[nm] \in Value
    BY ArgumentAssumption
  <2>2. Sound(db')
    BY <1>1, <1>7, <2>1, AddPacketInternalSound DEF LoopAddPacket
  <2>3. QED
    BY <1>7, <2>2, TablesStep DEF LoopAddPacket
<1>8. CASE LoopGetPackets(s)
  <2> DEFINE l  == lh[s]
             it == [slot |-> s, rows |-> LoopValues(db, l.container_id, l.loop_num),
                    previous_row_num |-> -1,
                    names |-> LoopNames(db, l.container_id, l.loop_num)]
  <2>1. UNCHANGED <<db, cont, lh>>
    BY <1>8 DEF LoopGetPackets
  <2>2. \/ /\ autocommit /\ autocommit' = FALSE
           /\ saved' = db
           /\ iters' = iters \cup {it}
        \/ UNCHANGED <<autocommit, saved, iters>>
    BY <1>8 DEF LoopGetPackets
  <2>3. it \in Iterator /\ it.slot = s
    <3>1. LoopValues(db, l.container_id, l.loop_num) \subseteq ValueRow
      BY <1>1 DEF LoopValues, Sound, Database
    <3>2. LoopNames(db, l.container_id, l.loop_num) \subseteq ItemName
      BY <1>1 DEF LoopNames, LoopItems, Sound, Database, ItemRow
    <3>3. QED
      BY <1>1, <3>1, <3>2 DEF Iterator
  <2> HIDE DEF it
  <2>4. CASE UNCHANGED <<autocommit, saved, iters>>
    BY <1>1, <2>1, <2>4, TablesStep
  <2>5. CASE autocommit /\ autocommit' = FALSE /\ saved' = db /\ iters' = iters \cup {it}
    BY <2>1, <2>3, <2>5
       DEF Inv, Sound, TypeOK, TransactionIsIterators, IteratorHandleHeld
  <2>6. QED
    BY <2>2, <2>4, <2>5
<1>9. QED
  BY <1>2, <1>3, <1>4, <1>5, <1>6, <1>7, <1>8 DEF LoopCall

\* A step of one iterator that only replaces it by another state of itself.
LEMMA ReplaceStep ==
    ASSUME Inv, Sound(db'), UNCHANGED <<autocommit, saved, cont, lh>>,
           NEW it \in iters, NEW new \in Iterator, new.slot = it.slot, Replace(it, new)
    PROVE  Inv'
BY DEF Inv, Sound, TypeOK, TransactionIsIterators, IteratorHandleHeld, Replace

\* pktitr.c: every call made through an iterator; closing and aborting it end
\* the one transaction there is.
LEMMA IteratorCallInv ==
    ASSUME Inv, NEW it \in iters, IteratorCall(it)
    PROVE  Inv'
<1>1. /\ it \in Iterator
      /\ it.slot \in DOMAIN lh
      /\ lh[it.slot].container_id \in Nat
      /\ Sound(db) /\ Sound(saved)
  BY DEF Inv, TypeOK, LoopRef, IteratorHandleHeld
<1>2. CASE NextPacket(it)
  <2> DEFINE new(row) == [it EXCEPT !.rows = {v \in @ : v.row_num # row},
                                    !.previous_row_num = row]
  <2>1. UNCHANGED <<db, autocommit, saved, cont, lh>> /\ Sound(db')
    BY <1>1, <1>2 DEF NextPacket
  <2>2. \/ UNCHANGED iters
        \/ \E row \in RowNums(it.rows) : Replace(it, new(row))
    BY <1>2 DEF NextPacket
  <2>3. \A row \in RowNums(it.rows) : new(row) \in Iterator /\ new(row).slot = it.slot
    <3> SUFFICES ASSUME NEW row \in RowNums(it.rows)
                 PROVE  new(row) \in Iterator /\ new(row).slot = it.slot
      OBVIOUS
    <3>1. row \in Nat
      BY <1>1 DEF Iterator, RowNums, ValueRow
    <3> DEFINE R == {v \in it.rows : v.row_num # row}
    <3>2. R \in SUBSET ValueRow
      BY <1>1 DEF Iterator
    <3>3. new(row) = [it EXCEPT !.rows = R, !.previous_row_num = row]
      OBVIOUS
    <3> HIDE DEF R, new
    <3>4. row \in Int
      BY <3>1
    <3>5. QED
      BY <1>1, <3>2, <3>3, <3>4 DEF Iterator
  <2> HIDE DEF new
  <2>4. QED
    BY <2>1, <2>2, <2>3, ReplaceStep, TablesStep
<1>3. ASSUME NEW pkt \in Packets, UpdatePacket(it, pkt)
      PROVE  Inv'
  <2> DEFINE c  == lh[it.slot].container_id
             n  == it.previous_row_num
             d1 == ReplacePacket(db, c, pkt, n)
  <2>1. DOMAIN pkt \subseteq ItemName /\ \A nm \in DOMAIN pkt : pkt[nm] \in Value
    BY ArgumentAssumption
  <2>2. n \in Int
    BY <1>1 DEF Iterator
  <2>3. ~ n <= 0 /\ (\A nm \in DOMAIN pkt : ItemExists(db, c, nm)) => Sound(d1)
    BY <1>1, <2>1, <2>2, ReplacePacketSound
  <2>4. \/ db' = db
        \/ ~ n <= 0 /\ (\A nm \in DOMAIN pkt : ItemExists(db, c, nm)) /\ db' = d1
    BY <1>3 DEF UpdatePacket, Atomically, Result
  <2>5. QED
    BY <1>1, <1>3, <2>3, <2>4, TablesStep DEF UpdatePacket
<1>4. CASE RemovePacket(it)
  <2> DEFINE l   == lh[it.slot]
             d1  == DeletePacket(db, l.container_id, l.loop_num, it.previous_row_num)
             new == [it EXCEPT !.previous_row_num = -1]
  <2>1. new \in Iterator /\ new.slot = it.slot
    BY <1>1 DEF Iterator
  <2>2. Sound(d1) /\ Sound(ResetPacketNum(d1, l.container_id, l.loop_num))
    BY <1>1, DeletePacketSound, ResetPacketNumSound
  <2>3. /\ UNCHANGED <<autocommit, saved, cont, lh>>
        /\ \/ Sound(db') /\ Replace(it, new)
           \/ UNCHANGED <<db, iters>>
    BY <1>4, <2>2 DEF RemovePacket
  <2> HIDE DEF new
  <2>4. QED
    BY <1>1, <2>1, <2>3, ReplaceStep, TablesStep
<1>5. CASE CloseIterator(it)
  BY <1>1, <1>5, EmptySound
     DEF CloseIterator, Release, Inv, Sound, TypeOK, TransactionIsIterators,
         IteratorHandleHeld
<1>6. CASE AbortIterator(it)
  <2>1. Sound(db') /\ saved' = EmptyDatabase /\ autocommit' = TRUE /\ UNCHANGED cont
    BY <1>1, <1>6 DEF AbortIterator, Release
  <2>2. iters' = {}
    BY <1>6 DEF AbortIterator, Release, Inv, TransactionIsIterators
  <2>3. DOMAIN lh' \subseteq DOMAIN lh /\ \A s \in DOMAIN lh' : lh'[s] = lh[s]
    BY <1>6 DEF AbortIterator, Drop
  <2>4. QED
    BY <2>1, <2>2, <2>3, EmptySound
       DEF Inv, Sound, TypeOK, TransactionIsIterators, IteratorHandleHeld
<1>7. QED
  BY <1>2, <1>3, <1>4, <1>5, <1>6 DEF IteratorCall

\* Every step of the application keeps the invariant.
LEMMA NextInv == Inv /\ [Next]_vars => Inv'
<1> SUFFICES ASSUME Inv, [Next]_vars
             PROVE  Inv'
  OBVIOUS
<1>1. CASE UNCHANGED vars
  BY <1>1, TablesStep DEF vars, Inv
<1>2. CASE Next
  BY <1>2, BlockCallInv, ContainerCallInv, LoopCallInv, IteratorCallInv DEF Next
<1>3. QED
  BY <1>1, <1>2

-----------------------------------------------------------------------------
(* The theorems. *)

\* The inductive invariant holds in every reachable state.
LEMMA Invariance == Spec => []Inv
BY InitInv, NextInv, PTL DEF Spec

\* Whatever calls are made and however they fail, the tables, handles and
\* iterators stay in their domains (all of cif.c, container.c, loop.c, pktitr.c).
THEOREM TypeCorrect == Spec => []TypeOK
<1>1. Inv => TypeOK
  BY DEF Inv
<1>2. QED
  BY <1>1, Invariance, PTL

\* The primary and unique keys of the schema are keys in every reachable state:
\* no sequence of calls stores two blocks, frames, items or values under one key.
THEOREM KeysStayUnique == Spec => []KeysUnique
<1>1. Inv => KeysUnique
  BY DEF Inv, Sound, KeysUnique
<1>2. QED
  BY <1>1, Invariance, PTL

\* The foreign keys hold in every reachable state: the cascades of a deletion
\* and the checks before an insertion leave no row without what it belongs to.
THEOREM RowsStayReferenced == Spec => []ReferentialIntegrity
<1>1. Inv => ReferentialIntegrity
  BY DEF Inv, Sound, ReferentialIntegrity
<1>2. QED
  BY <1>1, Invariance, PTL

\* "select max(loop_num)" finds the loop create_loop_internal has just made: no
\* loop ever has a number at or above its container's next one.
THEOREM LoopNumbersStayBelowNext == Spec => []LoopNumbersBelowNext
<1>1. Inv => LoopNumbersBelowNext
  BY DEF Inv, Sound, LoopNumbersBelowNext
<1>2. QED
  BY <1>1, Invariance, PTL

\* The transaction left open between calls is the one open iterator's.
THEOREM OpenTransactionIsIterator == Spec => []TransactionIsIterators
<1>1. Inv => TransactionIsIterators
  BY DEF Inv
<1>2. QED
  BY <1>1, Invariance, PTL

-----------------------------------------------------------------------------
(* Calls that fail. *)

\* Databases are told apart by their tables.
LEMMA SameTables ==
    ASSUME NEW d \in Database, NEW e \in Database,
           e.seq = d.seq, e.container = d.container, e.data_block = d.data_block,
           e.save_frame = d.save_frame, e.loop = d.loop, e.loop_item = d.loop_item,
           e.item_value = d.item_value
    PROVE  e = d
BY DEF Database

\* A statement that finds no row changes nothing.
LEMMA NoRowNoChange ==
    ASSUME NEW d, Sound(d), NEW c
    PROVE  /\ ~ ContainerExists(d, c) => DeleteContainer(d, c) = d
           /\ \A n : ~ LoopExists(d, c, n) => DeleteLoop(d, c, n) = d
           /\ \A n, cat : ~ LoopExists(d, c, n) => UpdateCategory(d, c, n, cat) = d
<1>1. ASSUME NEW S, S = {}
      PROVE  DeleteLoops(d, S) = d
  <2> DEFINE e == DeleteLoops(d, S)
  <2>1. e \in Database
    BY DeleteLoopsSound DEF Sound
  <2>2. /\ e.seq = d.seq /\ e.container = d.container /\ e.data_block = d.data_block
        /\ e.save_frame = d.save_frame /\ e.loop = d.loop
        /\ e.loop_item = d.loop_item /\ e.item_value = d.item_value
    BY <1>1 DEF DeleteLoops, DeleteItems, Sound, Database
  <2> HIDE DEF e
  <2>3. e = d
    BY <2>1, <2>2, SameTables DEF Sound
  <2>. QED
    BY <2>3 DEF e
<1>2. ASSUME ~ ContainerExists(d, c)
      PROVE  DeleteContainer(d, c) = d
  <2> DEFINE e == DeleteContainer(d, c)
             L == {r \in d.loop : r.container_id = c}
  <2>1. L = {}
    BY <1>2 DEF Sound, ForeignKeys
  <2>2. DeleteLoops(d, L) = d
    BY <1>1, <2>1
  <2>3. e = [d EXCEPT !.container  = {r \in @ : r.id # c},
                      !.data_block = {b \in @ : b.container_id # c},
                      !.save_frame = {f \in @ : f.container_id # c /\ f.parent_id # c}]
    BY <2>2 DEF DeleteContainer
  <2>4. e \in Database
    BY DeleteContainerSound DEF Sound
  <2> HIDE DEF e
  <2>5. /\ \A r \in d.container : r.id # c
        /\ \A b \in d.data_block : b.container_id # c
        /\ \A f \in d.save_frame : f.container_id # c /\ f.parent_id # c
    BY <1>2 DEF Sound, ForeignKeys, ContainerExists
  <2>6. /\ e.seq = d.seq /\ e.container = d.container /\ e.data_block = d.data_block
        /\ e.save_frame = d.save_frame /\ e.loop = d.loop
        /\ e.loop_item = d.loop_item /\ e.item_value = d.item_value
    BY <2>3, <2>5 DEF Sound, Database
  <2>7. e = d
    BY <2>4, <2>6, SameTables DEF Sound
  <2>. QED
    BY <2>7 DEF e
<1>3. ASSUME NEW n, ~ LoopExists(d, c, n)
      PROVE  DeleteLoop(d, c, n) = d
  <2>1. {r \in d.loop : r.container_id = c /\ r.loop_num = n} = {}
    BY <1>3 DEF LoopExists
  <2>. QED
    BY <1>1, <2>1 DEF DeleteLoop
<1>4. ASSUME NEW n, NEW cat, ~ LoopExists(d, c, n)
      PROVE  UpdateCategory(d, c, n, cat) = d
  <2> DEFINE f(r) == IF r.container_id = c /\ r.loop_num = n
                     THEN [r EXCEPT !.category = cat] ELSE r
             L == {f(r) : r \in d.loop}
  <2>1. \A r \in d.loop : f(r) = r
    BY <1>4 DEF LoopExists
  <2> HIDE DEF f
  <2>2. L = d.loop
    BY <2>1
  <2> HIDE DEF L
  <2>3. UpdateCategory(d, c, n, cat) = [d EXCEPT !.loop = L]
    BY DEF UpdateCategory, L, f
  <2>. QED
    BY <2>2, <2>3 DEF Sound, Database
<1>. QED
  BY <1>2, <1>3, <1>4

\* A transaction that fails leaves what it found.
LEMMA FailedTransaction ==
    ASSUME NEW d, NEW r
    PROVE  /\ Atomically(d, r).rc # "CIF_OK" => Atomically(d, r).db = d
           /\ TopLevel(d, r).rc # "CIF_OK" => TopLevel(d, r).db = d
BY DEF Atomically, TopLevel, Result

\* cif.c, container.c: the calls that make or find blocks, frames, loops, items
LEMMA ContainerCallFails ==
    ASSUME Inv, BlockCall \/ \E c \in Ids : ContainerCall(c), ret'.rc # "CIF_OK"
    PROVE  db' = db
<1>1. ASSUME NEW op, NEW arg, NEW parent, NEW code, NEW invalid, NEW inserted,
             CreateContainer(op, arg, parent, code, invalid, inserted)
      PROVE  db' = db
  BY <1>1, FailedTransaction DEF CreateContainer, Return, Result
<1>2. CASE BlockCall
  BY <1>1, <1>2 DEF BlockCall, CreateBlock, GetBlock
<1>3. ASSUME NEW c \in Ids, ContainerCall(c)
      PROVE  db' = db
  <2>1. ASSUME NEW sp \in CodeSpelling, CreateFrame(c, sp) \/ GetFrame(c, sp)
        PROVE  db' = db
    BY <1>1, <2>1 DEF CreateFrame, GetFrame
  <2>2. CASE DestroyContainer(c)
    BY <2>2, NoRowNoChange DEF DestroyContainer, Return, Inv
  <2>3. CASE PruneContainer(c)
    BY <2>3 DEF PruneContainer, Return
  <2>4. ASSUME \/ \E s \in Slot : GetAllLoops(c, s)
               \/ \E s \in Slot, cat \in AnyCategory : GetCategoryLoop(c, cat, s)
               \/ \E s \in Slot, sp \in ItemSpelling : GetItemLoop(c, sp, s)
               \/ \E sp \in ItemSpelling : GetValue(c, sp)
        PROVE  db' = db
    BY <2>4 DEF GetAllLoops, GetCategoryLoop, GetItemLoop, GetLoop, GetValue
  <2>5. ASSUME NEW s \in Slot, NEW cat \in LoopCategory, NEW names \in NameLists,
               CreateLoop(c, cat, names, s)
        PROVE  db' = db
    <3> DEFINE nn == [i \in DOMAIN names |-> NormItem[names[i]]]
               r  == CreateLoopInternal(db, c, cat, nn)
    <3>1. r.rc # "CIF_OK" => r.db = db
      BY FailedTransaction DEF CreateLoopInternal
    <3>2. \/ db' = db
          \/ db' = r.db /\ ret'.rc = r.rc
      BY <2>5 DEF CreateLoop, Return, Result
    <3> HIDE DEF r
    <3>. QED
      BY <3>1, <3>2
  <2>6. ASSUME NEW sp \in ItemSpelling,
               RemoveItem(c, sp) \/ \E val \in Value : SetValue(c, sp, val)
        PROVE  db' = db
    <3>1. \/ db' = db
          \/ \E r : db' = TopLevel(db, r).db /\ ret'.rc = TopLevel(db, r).rc
      BY <2>6 DEF RemoveItem, SetValue, Return, Result
    <3>. QED
      BY <3>1, FailedTransaction
  <2>. QED
    BY <1>3, <2>1, <2>2, <2>3, <2>4, <2>5, <2>6 DEF ContainerCall
<1>. QED
  BY <1>2, <1>3

\* loop.c
LEMMA LoopCallFails ==
    ASSUME Inv, NEW s \in DOMAIN lh, LoopCall(s), ret'.rc # "CIF_OK"
    PROVE  db' = db
<1> DEFINE c == lh[s].container_id
           n == lh[s].loop_num
<1>1. CASE LoopFree(s) \/ LoopGetNames(s) \/ LoopGetPackets(s)
  BY <1>1 DEF LoopFree, LoopGetNames, LoopGetPackets
<1>2. CASE LoopDestroy(s)
  BY <1>2, NoRowNoChange DEF LoopDestroy, Return, Inv
<1>3. ASSUME NEW cat \in NewCategory, LoopSetCategory(s, cat)
      PROVE  db' = db
  BY <1>3, NoRowNoChange DEF LoopSetCategory, Return, Inv
<1>4. ASSUME NEW sp \in ItemSpelling, NEW val \in Value, LoopAddItem(s, sp, val)
      PROVE  db' = db
  <2> DEFINE r == AddItemInternal(db, c, n, NormItem[sp], val)
  <2>1. r.rc # "CIF_OK" => r.db = db
    BY FailedTransaction DEF AddItemInternal
  <2>2. \/ db' = db
        \/ db' = r.db /\ ret'.rc = r.rc
    BY <1>4 DEF LoopAddItem, Return, Result
  <2> HIDE DEF r
  <2>. QED
    BY <2>1, <2>2
<1>5. ASSUME NEW pkt \in Packets, LoopAddPacket(s, pkt)
      PROVE  db' = db
  <2> DEFINE r == AddPacketInternal(db, c, n, pkt)
  <2>1. r.rc # "CIF_OK" => r.db = db
    BY FailedTransaction DEF AddPacketInternal
  <2>2. db' = r.db /\ ret'.rc = r.rc
    BY <1>5 DEF LoopAddPacket, Return
  <2> HIDE DEF r
  <2>. QED
    BY <2>1, <2>2
<1>. QED
  BY <1>1, <1>2, <1>3, <1>4, <1>5 DEF LoopCall

\* pktitr.c
LEMMA IteratorCallFails ==
    ASSUME NEW it \in iters, IteratorCall(it), ret'.rc # "CIF_OK"
    PROVE  db' = db
<1>1. CASE NextPacket(it)
  BY <1>1 DEF NextPacket
<1>2. ASSUME NEW pkt \in Packets, UpdatePacket(it, pkt)
      PROVE  db' = db
  <2>1. \/ db' = db
        \/ \E r : db' = Atomically(db, r).db /\ ret'.rc = Atomically(db, r).rc
    BY <1>2 DEF UpdatePacket, Return, Result
  <2>. QED
    BY <2>1, FailedTransaction
<1>3. CASE RemovePacket(it)
  BY <1>3 DEF RemovePacket, Return
<1>4. CASE CloseIterator(it) \/ AbortIterator(it)
  BY <1>4 DEF CloseIterator, AbortIterator, Release, Return
<1>. QED
  BY <1>1, <1>2, <1>3, <1>4 DEF IteratorCall

\* No call that returns an error code has changed the stored data, whichever of
\* its statements had succeeded: the transactions are closed by a rollback on
\* every path, and the statements outside of them find no row.
THEOREM FailuresChangeNothing == Spec => FailureChangesNothing
<1>1. Inv /\ [Next]_vars => [ret'.rc # "CIF_OK" => db' = db]_vars
  BY ContainerCallFails, LoopCallFails, IteratorCallFails DEF Next, vars
<1>. QED
  BY <1>1, Invariance, PTL DEF Spec, FailureChangesNothing

-----------------------------------------------------------------------------
(***************************************************************************)
(* Handles, for every value of the constants.  Two container handles with  *)
(* one id stand for one container: a handle is made with a new id, or from *)
(* a row, so every handle must agree with every row that has its id, in    *)
(* the tables as they are and in those a rollback would restore.  Only     *)
(* creation makes rows of containers, and inside a transaction there is    *)
(* none, so that a rollback restores all rows that handles were made from. *)
(*                                                                         *)
(* A loop handle whose loop is gone denotes no later loop: every handle    *)
(* has a number given out, and a number once given out is no new loop's,   *)
(* whatever the tables went through since.                                 *)
(***************************************************************************)

BlockHandle(b) == [id |-> b.container_id, parent_id |-> -1, code |-> b.name]
FrameHandle(f) == [id |-> f.container_id, parent_id |-> f.parent_id, code |-> f.name]

\* A container is a block or a frame.
OneKind(d) == \A b \in d.data_block, f \in d.save_frame : b.container_id # f.container_id

\* Handle k was made from the tables d or from earlier ones.
Fits(k, d) ==
    /\ k.id <= d.seq
    /\ \A b \in d.data_block : b.container_id = k.id => k = BlockHandle(b)
    /\ \A f \in d.save_frame : f.container_id = k.id => k = FrameHandle(f)

HasTables(d) == {"seq", "container", "data_block", "save_frame",
                 "loop", "loop_item", "item_value"} \subseteq DOMAIN d

\* The tables e have no container that d has not.
NoNewContainer(d, e) ==
    /\ HasTables(e)
    /\ e.seq = d.seq
    /\ e.data_block \subseteq d.data_block
    /\ e.save_frame \subseteq d.save_frame

HandlesFit ==
    /\ OneKind(db)
    /\ \A k \in cont : Fits(k, db)
    /\ ~ autocommit => /\ OneKind(saved)
                       /\ \A k \in cont : Fits(k, saved)
                       /\ NoNewContainer(saved, db)

\* What is inductive
HandleInv == Inv /\ ContainerIdsNeverReused /\ HandlesFit

-----------------------------------------------------------------------------
(* Statements and functions that make no container. *)

\* A statement on loops, items and values adds nothing to the tables of containers.
LEMMA LoopStatements ==
    ASSUME NEW d, HasTables(d), NEW S, NEW c, NEW n, NEW x
    PROVE  /\ NoNewContainer(d, DeleteItems(d, S))
           /\ NoNewContainer(d, DeleteLoops(d, S))
           /\ NoNewContainer(d, DeleteContainer(d, c))
           /\ NoNewContainer(d, DeletePacket(d, c, n, x))
           /\ NoNewContainer(d, InsertLoop(d, c, x))
           /\ NoNewContainer(d, InsertItems(d, c, S, n))
           /\ NoNewContainer(d, UpdateCategory(d, c, n, x))
           /\ NoNewContainer(d, IncrementPacketNum(d, c, n))
           /\ NoNewContainer(d, ResetPacketNum(d, c, n))
           /\ NoNewContainer(d, InsertPacket(d, c, S, n))
           /\ NoNewContainer(d, ReplacePacket(d, c, S, n))
           /\ NoNewContainer(d, SetAllValues(d, c, x, S))
<1>1. NoNewContainer(d, DeleteItems(d, S))
  BY DEF NoNewContainer, HasTables, DeleteItems
<1>2. NoNewContainer(d, DeleteLoops(d, S))
  BY DEF NoNewContainer, HasTables, DeleteItems, DeleteLoops
<1>3. NoNewContainer(d, DeleteContainer(d, c))
  BY DEF NoNewContainer, HasTables, DeleteItems, DeleteLoops, DeleteContainer
<1>4. NoNewContainer(d, DeletePacket(d, c, n, x))
  BY DEF NoNewContainer, HasTables, DeletePacket
<1>5. NoNewContainer(d, InsertLoop(d, c, x))
  BY DEF NoNewContainer, HasTables, InsertLoop
<1>6. NoNewContainer(d, InsertItems(d, c, S, n))
  BY DEF NoNewContainer, HasTables, InsertItems
<1>7. NoNewContainer(d, UpdateCategory(d, c, n, x))
  BY DEF NoNewContainer, HasTables, UpdateCategory
<1>8. NoNewContainer(d, IncrementPacketNum(d, c, n))
  BY DEF NoNewContainer, HasTables, IncrementPacketNum
<1>9. NoNewContainer(d, ResetPacketNum(d, c, n))
  BY DEF NoNewContainer, HasTables, ResetPacketNum
<1>10. NoNewContainer(d, InsertPacket(d, c, S, n))
  BY DEF NoNewContainer, HasTables, InsertPacket
<1>11. NoNewContainer(d, ReplacePacket(d, c, S, n))
  BY DEF NoNewContainer, HasTables, ReplacePacket
<1>12. NoNewContainer(d, SetAllValues(d, c, x, S))
  BY DEF NoNewContainer, HasTables, SetAllValues
<1>. QED
  BY <1>1, <1>2, <1>3, <1>4, <1>5, <1>6, <1>7, <1>8, <1>9, <1>10, <1>11, <1>12

\* Nor does a failed transaction, whatever it had done.
LEMMA AtomicallyNoNew ==
    ASSUME NEW d, HasTables(d), NEW r, r.rc = "CIF_OK" => NoNewContainer(d, r.db)
    PROVE  /\ NoNewContainer(d, Atomically(d, r).db)
           /\ NoNewContainer(d, TopLevel(d, r).db)
BY DEF Atomically, TopLevel, Result, NoNewContainer

\* One statement after another
LEMMA NoNewTransitive ==
    ASSUME NEW d, NEW e, NEW f, NoNewContainer(d, e), NoNewContainer(e, f)
    PROVE  NoNewContainer(d, f)
BY DEF NoNewContainer

\* create_loop_internal, cif_loop_add_item_internal, cif_loop_add_packet
LEMMA LoopFunctions ==
    ASSUME NEW d, HasTables(d), NEW c, NEW n, NEW cat, NEW nn, NEW nm, NEW val, NEW pkt
    PROVE  /\ NoNewContainer(d, CreateLoopInternal(d, c, cat, nn).db)
           /\ NoNewContainer(d, AddItemInternal(d, c, n, nm, val).db)
           /\ NoNewContainer(d, AddPacketInternal(d, c, n, pkt).db)
<1>. NoNewContainer(d, d)
  BY DEF NoNewContainer
<1>1. NoNewContainer(d, CreateLoopInternal(d, c, cat, nn).db)
  <2>1. NoNewContainer(d, InsertLoop(d, c, cat))
    BY LoopStatements
  <2>2. ASSUME NEW m
        PROVE  NoNewContainer(d, InsertItems(InsertLoop(d, c, cat), c, Names(nn), m))
    <3> DEFINE e == InsertLoop(d, c, cat)
    <3>1. NoNewContainer(d, e) /\ HasTables(e)
      BY <2>1 DEF NoNewContainer
    <3> HIDE DEF e
    <3>2. NoNewContainer(e, InsertItems(e, c, Names(nn), m))
      BY <3>1, LoopStatements
    <3>3. NoNewContainer(d, InsertItems(e, c, Names(nn), m))
      BY <3>1, <3>2, NoNewTransitive
    <3>. QED
      BY <3>3 DEF e
  <2>. QED
    BY <2>2 DEF CreateLoopInternal, Atomically, Result
<1>2. NoNewContainer(d, AddItemInternal(d, c, n, nm, val).db)
  <2>1. NoNewContainer(d, InsertItems(d, c, {nm}, n))
    BY LoopStatements
  <2>2. NoNewContainer(d, SetAllValues(InsertItems(d, c, {nm}, n), c, nm, val))
    <3> DEFINE e == InsertItems(d, c, {nm}, n)
    <3>1. NoNewContainer(d, e) /\ HasTables(e)
      BY <2>1 DEF NoNewContainer
    <3> HIDE DEF e
    <3>2. NoNewContainer(e, SetAllValues(e, c, nm, val))
      BY <3>1, LoopStatements
    <3>3. NoNewContainer(d, SetAllValues(e, c, nm, val))
      BY <3>1, <3>2, NoNewTransitive
    <3>. QED
      BY <3>3 DEF e
  <2>. QED
    BY <2>2 DEF AddItemInternal, Atomically, Result
<1>3. NoNewContainer(d, AddPacketInternal(d, c, n, pkt).db)
  <2>1. NoNewContainer(d, IncrementPacketNum(d, c, n))
    BY LoopStatements
  <2>2. ASSUME NEW row
        PROVE  NoNewContainer(d, InsertPacket(IncrementPacketNum(d, c, n), c, pkt, row))
    <3> DEFINE e == IncrementPacketNum(d, c, n)
    <3>1. NoNewContainer(d, e) /\ HasTables(e)
      BY <2>1 DEF NoNewContainer
    <3> HIDE DEF e
    <3>2. NoNewContainer(e, InsertPacket(e, c, pkt, row))
      BY <3>1, LoopStatements
    <3>3. NoNewContainer(d, InsertPacket(e, c, pkt, row))
      BY <3>1, <3>2, NoNewTransitive
    <3>. QED
      BY <3>3 DEF e
  <2>. QED
    BY <2>2 DEF AddPacketInternal, Atomically, Result
<1>. QED
  BY <1>1, <1>2, <1>3

\* cif_container_set_value, cif_container_remove_item
LEMMA ItemFunctions ==
    ASSUME NEW d, HasTables(d), NEW c, NEW nm, NEW val
    PROVE  /\ NoNewContainer(d, TopLevel(d, SetValueInternal(d, c, nm, val)).db)
           /\ NoNewContainer(d, TopLevel(d, RemoveItemInternal(d, c, nm)).db)
<1>1. NoNewContainer(d, AddScalar(d, c, nm, val).db)
  <2> DEFINE r1 == IF CategoryLoops(d, c, Scalars) = {}
                   THEN CreateLoopInternal(d, c, Scalars, <<>>)
                   ELSE Result(d, "CIF_OK")
             n  == (CHOOSE r \in CategoryLoops(r1.db, c, Scalars) : TRUE).loop_num
             r2 == AddItemInternal(r1.db, c, n, nm, val)
             r3 == AddPacketInternal(r2.db, c, n, [x \in {nm} |-> val])
  <2>1. NoNewContainer(d, r1.db) /\ HasTables(r1.db)
    <3>1. NoNewContainer(d, CreateLoopInternal(d, c, Scalars, <<>>).db)
      BY LoopFunctions
    <3>2. NoNewContainer(d, Result(d, "CIF_OK").db)
      BY DEF Result, NoNewContainer
    <3>3. NoNewContainer(d, r1.db)
      BY <3>1, <3>2
    <3>. QED
      BY <3>3 DEF NoNewContainer
  <2> HIDE DEF r1, n
  <2>2. NoNewContainer(d, r2.db) /\ HasTables(r2.db)
    <3>1. NoNewContainer(r1.db, r2.db)
      BY <2>1, LoopFunctions
    <3> HIDE DEF r2
    <3>2. NoNewContainer(d, r2.db)
      BY <2>1, <3>1, NoNewTransitive
    <3>. QED
      BY <3>2 DEF NoNewContainer
  <2> HIDE DEF r2
  <2>3. NoNewContainer(d, r3.db)
    <3>1. NoNewContainer(r2.db, r3.db)
      BY <2>2, LoopFunctions
    <3> HIDE DEF r3
    <3>. QED
      BY <2>2, <3>1, NoNewTransitive
  <2> HIDE DEF r3
  <2>4. AddScalar(d, c, nm, val) \in {r1, r2, r3}
    BY DEF AddScalar, r1, r2, r3, n
  <2>. QED
    BY <2>1, <2>2, <2>3, <2>4
<1>2. NoNewContainer(d, SetValueInternal(d, c, nm, val).db)
  BY <1>1, LoopStatements DEF SetValueInternal, Result
<1>3. NoNewContainer(d, RemoveItemInternal(d, c, nm).db)
  <2>. NoNewContainer(d, d)
    BY DEF NoNewContainer
  <2>1. NoNewContainer(d, DeleteItem(d, c, nm))
    BY LoopStatements DEF DeleteItem
  <2>. QED
    BY <2>1, LoopStatements DEF RemoveItemInternal, Result
<1>. QED
  BY <1>2, <1>3, AtomicallyNoNew

-----------------------------------------------------------------------------
(* Kinds of steps. *)

\* The tables of a sound database can be updated.
LEMMA SoundHasTables == ASSUME NEW d, Sound(d) PROVE HasTables(d) /\ NoNewContainer(d, d)
BY DEF Sound, Database, HasTables, NoNewContainer

\* A handle agrees with fewer rows, too.
LEMMA FewerFit ==
    ASSUME NEW d, NEW e, NoNewContainer(d, e)
    PROVE  /\ OneKind(d) => OneKind(e)
           /\ \A k : Fits(k, d) => Fits(k, e)
BY DEF NoNewContainer, OneKind, Fits

\* A row's own handle agrees with all rows: its id is that of no other.
LEMMA RowFits ==
    ASSUME NEW d, Sound(d), OneKind(d)
    PROVE  /\ \A b \in d.data_block : Fits(BlockHandle(b), d)
           /\ \A f \in d.save_frame : Fits(FrameHandle(f), d)
<1>1. /\ \A b \in d.data_block : b.container_id <= d.seq
      /\ \A f \in d.save_frame : f.container_id <= d.seq
  BY DEF Sound, ForeignKeys, ContainerExists, Keys, ContainerKeys
<1>2. BlockKeys(d) /\ FrameKeys(d)
  BY DEF Sound, Keys
<1>. QED
  BY <1>1, <1>2 DEF OneKind, Fits, BlockKeys, FrameKeys, BlockHandle, FrameHandle

\* A step that hands out no container handle and makes no container.
LEMMA QuietStep ==
    ASSUME HandleInv, Inv', UNCHANGED <<autocommit, saved, cont>>, NoNewContainer(db, db')
    PROVE  HandleInv'
<1>1. OneKind(db') /\ \A k \in cont : Fits(k, db')
  BY FewerFit DEF HandleInv, HandlesFit
<1>2. ~ autocommit => NoNewContainer(saved, db')
  BY NoNewTransitive DEF HandleInv, HandlesFit
<1>. QED
  BY <1>1, <1>2 DEF HandleInv, HandlesFit, ContainerIdsNeverReused

\* A step that hands out handles on containers there are.
LEMMA FoundStep ==
    ASSUME HandleInv, Inv', UNCHANGED <<db, autocommit, saved>>, NEW new,
           cont' = cont \cup new,
           \A k \in new : \/ \E b \in db.data_block : k = BlockHandle(b)
                          \/ \E f \in db.save_frame : k = FrameHandle(f)
    PROVE  HandleInv'
<1>1. \A k \in new : Fits(k, db)
  BY RowFits DEF HandleInv, HandlesFit, Inv
<1>2. ASSUME ~ autocommit, NEW k \in new
      PROVE  Fits(k, saved)
  <2>1. \/ \E b \in saved.data_block : k = BlockHandle(b)
        \/ \E f \in saved.save_frame : k = FrameHandle(f)
    BY <1>2 DEF HandleInv, HandlesFit, NoNewContainer
  <2>. QED
    BY <1>2, <2>1, RowFits DEF HandleInv, HandlesFit, Inv
<1>3. \A k \in cont' : Fits(k, db)
  BY <1>1 DEF HandleInv, HandlesFit
<1>4. ASSUME NEW k1 \in new, NEW k2 \in cont', k1.id = k2.id
      PROVE  k1 = k2
  BY <1>3, <1>4 DEF Fits, BlockHandle, FrameHandle
<1>5. ContainerIdsNeverReused'
  BY <1>4 DEF HandleInv, ContainerIdsNeverReused
<1>. QED
  BY <1>2, <1>3, <1>5 DEF HandleInv, HandlesFit

\* A step that makes a container, outside of transactions, and hands out its handle.
LEMMA MadeStep ==
    ASSUME HandleInv, Inv', autocommit, UNCHANGED autocommit,
           NEW k, k.id = db.seq + 1, cont' = cont \cup {k}, db'.seq = db.seq + 1,
           \A b \in db'.data_block : b \in db.data_block \/ k = BlockHandle(b),
           \A f \in db'.save_frame : f \in db.save_frame \/ k = FrameHandle(f),
           db'.data_block = db.data_block \/ db'.save_frame = db.save_frame
    PROVE  HandleInv'
<1>1. /\ db.seq \in Nat
      /\ \A b \in db.data_block : b.container_id \in Nat /\ b.container_id <= db.seq
      /\ \A f \in db.save_frame : f.container_id \in Nat /\ f.container_id <= db.seq
  BY DEF HandleInv, Inv, Sound, Database, BlockRow, FrameRow, ForeignKeys, ContainerExists,
         Keys, ContainerKeys
<1>2. \A x \in cont : x.id \in Nat /\ x.id <= db.seq
  BY DEF HandleInv, HandlesFit, Fits, Inv, TypeOK, ContHandle
<1>3. ContainerIdsNeverReused'
  BY <1>1, <1>2 DEF HandleInv, ContainerIdsNeverReused
<1>4. OneKind(db')
  BY <1>1 DEF HandleInv, HandlesFit, OneKind, BlockHandle, FrameHandle
<1>5. ASSUME NEW x \in cont'
      PROVE  Fits(x, db')
  <2>1. CASE x \in cont
    BY <1>1, <1>2, <2>1 DEF HandleInv, HandlesFit, Fits, BlockHandle, FrameHandle
  <2>2. CASE x = k
    BY <1>1, <2>2 DEF Fits, BlockHandle, FrameHandle
  <2>. QED
    BY <2>1, <2>2
<1>. QED
  BY <1>3, <1>4, <1>5 DEF HandleInv, HandlesFit

-----------------------------------------------------------------------------
(* The steps. *)

\* cif_create_block, cif_get_block
LEMMA BlockCallFits ==
    ASSUME HandleInv, Inv', BlockCall
    PROVE  HandleInv'
<1>. HasTables(db) /\ NoNewContainer(db, db)
  BY SoundHasTables DEF HandleInv, Inv
<1>1. ASSUME NEW sp \in CodeSpelling, CreateBlock(sp)
      PROVE  HandleInv'
  <2> DEFINE code == NormCode[sp]
             d1   == InsertContainer(db)
             id   == NewContainerId(db)
             body == IF CanInsertBlock(db, code)
                     THEN Result(InsertBlock(d1, id, code), "CIF_OK")
                     ELSE Result(d1, "CIF_DUP_BLOCKCODE")
             r    == IF code = Invalid THEN Result(db, "CIF_INVALID_BLOCKCODE")
                     ELSE TopLevel(db, body)
             k    == [id |-> id, parent_id |-> -1, code |-> code]
  <2>1. /\ db' = r.db
        /\ cont' = cont \cup (IF r.rc = "CIF_OK" THEN {k} ELSE {})
        /\ UNCHANGED <<autocommit, saved>>
    BY <1>1 DEF CreateBlock, CreateContainer
  <2>2. CASE r.rc = "CIF_OK"
    <3>1. autocommit /\ db' = InsertBlock(d1, id, code)
      BY <2>1, <2>2 DEF TopLevel, Atomically, Result
    <3>2. /\ db'.seq = id /\ db'.save_frame = db.save_frame
          /\ db'.data_block = db.data_block \cup {[container_id |-> id, name |-> code]}
      BY <3>1 DEF HasTables, InsertBlock, InsertContainer
    <3>3. k = BlockHandle([container_id |-> id, name |-> code]) /\ k.id = db.seq + 1
      BY DEF BlockHandle, NewContainerId
    <3>4. cont' = cont \cup {k} /\ id = db.seq + 1
      BY <2>1, <2>2 DEF NewContainerId
    <3> HIDE DEF k, id
    <3>. QED
      BY <2>1, <3>1, <3>2, <3>3, <3>4, MadeStep
  <2>3. CASE r.rc # "CIF_OK"
    <3>1. db' = db /\ cont' = cont
      BY <2>1, <2>3 DEF TopLevel, Atomically, Result
    <3>. QED
      BY <2>1, <3>1, QuietStep
  <2>. QED
    BY <2>2, <2>3
<1>2. ASSUME NEW sp \in CodeSpelling, GetBlock(sp)
      PROVE  HandleInv'
  <2> DEFINE new == {BlockHandle(b) : b \in {b \in db.data_block : b.name = NormCode[sp]}}
  <2>1. cont' = cont \cup new /\ UNCHANGED <<db, autocommit, saved>>
    BY <1>2 DEF GetBlock, BlockHandle
  <2>2. \A k \in new : \E b \in db.data_block : k = BlockHandle(b)
    OBVIOUS
  <2> HIDE DEF new
  <2>. QED
    BY <2>1, <2>2, FoundStep
<1>. QED
  BY <1>1, <1>2 DEF BlockCall

\* cif_container_create_frame, cif_container_get_frame
LEMMA FrameCallFits ==
    ASSUME HandleInv, Inv', NEW c \in Ids, NEW sp \in CodeSpelling,
           CreateFrame(c, sp) \/ GetFrame(c, sp)
    PROVE  HandleInv'
<1>. HasTables(db) /\ NoNewContainer(db, db)
  BY SoundHasTables DEF HandleInv, Inv
<1>1. CASE CreateFrame(c, sp)
  <2> DEFINE code == NormCode[sp]
             d1   == InsertContainer(db)
             id   == NewContainerId(db)
             body == IF CanInsertFrame(db, c, code)
                     THEN Result(InsertFrame(d1, id, c, code), "CIF_OK")
                     ELSE Result(d1, "CIF_DUP_FRAMECODE")
             r    == IF code = Invalid THEN Result(db, "CIF_INVALID_FRAMECODE")
                     ELSE TopLevel(db, body)
             k    == [id |-> id, parent_id |-> c, code |-> code]
             row  == [container_id |-> id, parent_id |-> c, name |-> code]
  <2>1. /\ db' = r.db
        /\ cont' = cont \cup (IF r.rc = "CIF_OK" THEN {k} ELSE {})
        /\ UNCHANGED <<autocommit, saved>>
    BY <1>1 DEF CreateFrame, CreateContainer
  <2>2. CASE r.rc = "CIF_OK"
    <3>1. autocommit /\ db' = InsertFrame(d1, id, c, code)
      BY <2>1, <2>2 DEF TopLevel, Atomically, Result
    <3>2. /\ db'.seq = id /\ db'.data_block = db.data_block
          /\ db'.save_frame = db.save_frame \cup {row}
      BY <3>1 DEF HasTables, InsertFrame, InsertContainer
    <3>3. k = FrameHandle(row) /\ k.id = db.seq + 1
      BY DEF FrameHandle, NewContainerId
    <3>4. cont' = cont \cup {k} /\ id = db.seq + 1
      BY <2>1, <2>2 DEF NewContainerId
    <3> HIDE DEF k, id, row
    <3>. QED
      BY <2>1, <3>1, <3>2, <3>3, <3>4, MadeStep
  <2>3. CASE r.rc # "CIF_OK"
    <3>1. db' = db /\ cont' = cont
      BY <2>1, <2>3 DEF TopLevel, Atomically, Result
    <3>. QED
      BY <2>1, <3>1, QuietStep
  <2>. QED
    BY <2>2, <2>3
<1>2. CASE GetFrame(c, sp)
  <2> DEFINE new == {[id |-> f.container_id, parent_id |-> c, code |-> f.name] :
                        f \in {f \in db.save_frame : f.parent_id = c
                                                     /\ f.name = NormCode[sp]}}
  <2>1. cont' = cont \cup new /\ UNCHANGED <<db, autocommit, saved>>
    BY <1>2 DEF GetFrame
  <2>2. \A k \in new : \E f \in db.save_frame : k = FrameHandle(f)
    BY DEF FrameHandle
  <2> HIDE DEF new
  <2>. QED
    BY <2>1, <2>2, FoundStep
<1>. QED
  BY <1>1, <1>2

\* container.c: every call made through a container handle
LEMMA ContainerCallFits ==
    ASSUME HandleInv, Inv', NEW c \in Ids, ContainerCall(c)
    PROVE  HandleInv'
<1>. HasTables(db) /\ NoNewContainer(db, db)
  BY SoundHasTables DEF HandleInv, Inv
<1>1. ASSUME NEW sp \in CodeSpelling, CreateFrame(c, sp) \/ GetFrame(c, sp)
      PROVE  HandleInv'
  BY <1>1, FrameCallFits
<1>2. CASE DestroyContainer(c)
  <2>1. NoNewContainer(db, DeleteContainer(db, c))
    BY LoopStatements
  <2>. QED
    BY <1>2, <2>1, QuietStep DEF DestroyContainer
<1>3. CASE PruneContainer(c)
  <2>1. NoNewContainer(db, Prune(db, c))
    BY LoopStatements DEF Prune
  <2>. QED
    BY <1>3, <2>1, QuietStep DEF PruneContainer
<1>4. ASSUME \/ \E s \in Slot : GetAllLoops(c, s)
             \/ \E s \in Slot, cat \in AnyCategory : GetCategoryLoop(c, cat, s)
             \/ \E s \in Slot, sp \in ItemSpelling : GetItemLoop(c, sp, s)
             \/ \E sp \in ItemSpelling : GetValue(c, sp)
      PROVE  HandleInv'
  <2>1. UNCHANGED <<db, autocommit, saved, cont>>
    BY <1>4 DEF GetAllLoops, GetCategoryLoop, GetItemLoop, GetLoop, GetValue
  <2>. QED
    BY <2>1, QuietStep
<1>5. ASSUME NEW s \in Slot, NEW cat \in LoopCategory, NEW names \in NameLists,
             CreateLoop(c, cat, names, s)
      PROVE  HandleInv'
  <2> DEFINE nn == [i \in DOMAIN names |-> NormItem[names[i]]]
  <2>1. NoNewContainer(db, CreateLoopInternal(db, c, cat, nn).db)
    BY LoopFunctions
  <2>2. db' \in {db, CreateLoopInternal(db, c, cat, nn).db} /\ UNCHANGED <<autocommit, saved, cont>>
    BY <1>5 DEF CreateLoop, Result
  <2> HIDE DEF nn
  <2>. QED
    BY <2>1, <2>2, QuietStep
<1>6. ASSUME NEW sp \in ItemSpelling,
             RemoveItem(c, sp) \/ \E val \in Value : SetValue(c, sp, val)
      PROVE  HandleInv'
  <2> DEFINE nm      == NormItem[sp]
             set(v)  == TopLevel(db, SetValueInternal(db, c, nm, v)).db
             removed == TopLevel(db, RemoveItemInternal(db, c, nm)).db
  <2>1. NoNewContainer(db, removed) /\ \A v : NoNewContainer(db, set(v))
    BY ItemFunctions
  <2>2. /\ db' \in {db, removed} \/ \E v \in Value : db' = set(v)
        /\ UNCHANGED <<autocommit, saved, cont>>
    BY <1>6 DEF SetValue, RemoveItem, Result
  <2> HIDE DEF set, removed
  <2>. QED
    BY <2>1, <2>2, QuietStep
<1>. QED
  BY <1>1, <1>2, <1>3, <1>4, <1>5, <1>6 DEF ContainerCall

\* loop.c: every call made through a loop handle.  cif_loop_get_packets begins a
\* transaction on the tables as they are.
LEMMA LoopCallFits ==
    ASSUME HandleInv, Inv', NEW s \in DOMAIN lh, LoopCall(s)
    PROVE  HandleInv'
<1>. HasTables(db) /\ NoNewContainer(db, db)
  BY SoundHasTables DEF HandleInv, Inv
<1> DEFINE c == lh[s].container_id
           n == lh[s].loop_num
<1>1. CASE LoopFree(s) \/ LoopGetNames(s)
  <2>1. UNCHANGED <<db, autocommit, saved, cont>>
    BY <1>1 DEF LoopFree, LoopGetNames
  <2>. QED
    BY <2>1, QuietStep
<1>2. CASE LoopDestroy(s)
  <2>1. NoNewContainer(db, DeleteLoop(db, c, n))
    BY LoopStatements DEF DeleteLoop
  <2>. QED
    BY <1>2, <2>1, QuietStep DEF LoopDestroy
<1>3. ASSUME NEW cat \in NewCategory, LoopSetCategory(s, cat)
      PROVE  HandleInv'
  <2>1. NoNewContainer(db, UpdateCategory(db, c, n, cat))
    BY LoopStatements
  <2>2. db' \in {db, UpdateCategory(db, c, n, cat)} /\ UNCHANGED <<autocommit, saved, cont>>
    BY <1>3 DEF LoopSetCategory
  <2>. QED
    BY <2>1, <2>2, QuietStep
<1>4. ASSUME NEW sp \in ItemSpelling, NEW val \in Value, LoopAddItem(s, sp, val)
      PROVE  HandleInv'
  <2> DEFINE d1 == AddItemInternal(db, c, n, NormItem[sp], val).db
  <2>1. NoNewContainer(db, d1)
    BY LoopFunctions
  <2>2. db' \in {db, d1} /\ UNCHANGED <<autocommit, saved, cont>>
    BY <1>4 DEF LoopAddItem, Result
  <2> HIDE DEF d1
  <2>. QED
    BY <2>1, <2>2, QuietStep
<1>5. ASSUME NEW pkt \in Packets, LoopAddPacket(s, pkt)
      PROVE  HandleInv'
  <2>1. NoNewContainer(db, AddPacketInternal(db, c, n, pkt).db)
    BY LoopFunctions
  <2>. QED
    BY <1>5, <2>1, QuietStep DEF LoopAddPacket
<1>6. CASE LoopGetPackets(s)
  <2>1. /\ UNCHANGED <<db, cont>>
        /\ \/ saved' = db
           \/ UNCHANGED <<autocommit, saved>>
    BY <1>6 DEF LoopGetPackets
  <2>. QED
    BY <2>1, QuietStep DEF HandleInv, HandlesFit, ContainerIdsNeverReused
<1>. QED
  BY <1>1, <1>2, <1>3, <1>4, <1>5, <1>6 DEF LoopCall

\* pktitr.c: what is committed is as it was, and what is restored fits as well.
LEMMA IteratorCallFits ==
    ASSUME HandleInv, Inv', NEW it \in iters, IteratorCall(it)
    PROVE  HandleInv'
<1>. HasTables(db) /\ NoNewContainer(db, db)
  BY SoundHasTables DEF HandleInv, Inv
<1> DEFINE c   == lh[it.slot].container_id
           n   == lh[it.slot].loop_num
           row == it.previous_row_num
<1>1. CASE NextPacket(it)
  BY <1>1, QuietStep DEF NextPacket
<1>2. ASSUME NEW pkt \in Packets, UpdatePacket(it, pkt)
      PROVE  HandleInv'
  <2>1. NoNewContainer(db, ReplacePacket(db, c, pkt, row))
    BY LoopStatements
  <2>2. db' \in {db, ReplacePacket(db, c, pkt, row)} /\ UNCHANGED <<autocommit, saved, cont>>
    BY <1>2 DEF UpdatePacket, Atomically, Result
  <2>. QED
    BY <2>1, <2>2, QuietStep
<1>3. CASE RemovePacket(it)
  <2> DEFINE d1 == DeletePacket(db, c, n, row)
             d2 == ResetPacketNum(d1, c, n)
  <2>1. NoNewContainer(db, d1)
    BY LoopStatements
  <2>2. db' \in {db, d1, d2} /\ UNCHANGED <<autocommit, saved, cont>>
    BY <1>3 DEF RemovePacket
  <2> HIDE DEF d1
  <2>3. HasTables(d1)
    BY <2>1 DEF NoNewContainer
  <2>4. NoNewContainer(d1, d2)
    BY <2>3, LoopStatements
  <2> HIDE DEF d2
  <2>5. NoNewContainer(db, d2)
    BY <2>1, <2>4, NoNewTransitive
  <2>. QED
    BY <2>1, <2>2, <2>5, QuietStep
<1>4. CASE CloseIterator(it) \/ AbortIterator(it)
  <2>1. autocommit' /\ cont' = cont /\ (db' = db \/ (~ autocommit /\ db' = saved))
    BY <1>4 DEF CloseIterator, AbortIterator, Release
  <2>. QED
    BY <2>1 DEF HandleInv, HandlesFit, ContainerIdsNeverReused
<1>. QED
  BY <1>1, <1>2, <1>3, <1>4 DEF IteratorCall

\* Every step keeps handles and rows in agreement.
LEMMA NextHandleInv == HandleInv /\ [Next]_vars => HandleInv'
<1>. SUFFICES ASSUME HandleInv, [Next]_vars PROVE HandleInv'
  OBVIOUS
<1>1. Inv'
  BY NextInv DEF HandleInv
<1>2. CASE UNCHANGED vars
  BY <1>1, <1>2, QuietStep, SoundHasTables DEF vars, HandleInv, Inv
<1>3. CASE Next
  BY <1>1, <1>3, BlockCallFits, ContainerCallFits, LoopCallFits, IteratorCallFits DEF Next
<1>. QED
  BY <1>2, <1>3

-----------------------------------------------------------------------------
(* The theorem. *)

\* The id of a container that was destroyed is never given to another, whatever
\* calls are made, within transactions or not, rolled back or not: a handle never
\* comes to stand for another container than it was made for.
THEOREM HandlesStandForOne == Spec => []ContainerIdsNeverReused
<1>1. Init => HandleInv
  BY InitInv DEF Init, HandleInv, HandlesFit, ContainerIdsNeverReused, OneKind, EmptyDatabase
<1>2. HandleInv => ContainerIdsNeverReused
  BY DEF HandleInv
<1>. QED
  BY <1>1, <1>2, NextHandleInv, PTL DEF Spec

-----------------------------------------------------------------------------
(* Loop handles. *)

\* The number n of container c has been given out (or will never be): no loop
\* to come has it.
Given(d, c, n) ==
    c <= d.seq /\ \A r \in d.container : r.id = c => n < r.next_loop_num

\* Both are of the scalar loop, or neither is.
SameKind(x, y) == UnsetsScalar \/ (x.category = Scalars <=> y.category = Scalars)

\* The tables e come after d: numbers given out in d stay so, and a loop of e
\* that has one was a loop of d.
Follows(d, e) ==
    \A c, n \in Nat : Given(d, c, n) =>
        /\ Given(e, c, n)
        /\ \A r \in e.loop : Denotes(r, c, n) =>
              \E r0 \in d.loop : Denotes(r0, c, n) /\ SameKind(r0, r)

\* Handle l remembers whether its loop is the scalar one.
Agrees(l, d) ==
    \A r \in d.loop : Denotes(r, l.container_id, l.loop_num) => SameKind(l, r)

LoopHandlesFit ==
    /\ \A s \in DOMAIN lh : /\ Given(db, lh[s].container_id, lh[s].loop_num)
                            /\ Agrees(lh[s], db)
    /\ ~ autocommit => /\ Follows(saved, db)
                       /\ \A s \in DOMAIN lh : Agrees(lh[s], saved)

\* What is inductive
LoopHandleInv == HandleInv /\ LoopHandlesFit

\* One statement after another
LEMMA FollowsTransitive ==
    ASSUME NEW d, NEW e, NEW f, Follows(d, e), Follows(e, f)
    PROVE  Follows(d, f)
<1>. SUFFICES ASSUME NEW c \in Nat, NEW n \in Nat, Given(d, c, n)
              PROVE  /\ Given(f, c, n)
                     /\ \A r \in f.loop : Denotes(r, c, n) =>
                           \E r0 \in d.loop : Denotes(r0, c, n) /\ SameKind(r0, r)
  BY DEF Follows
<1>1. Given(e, c, n) /\ Given(f, c, n)
  BY DEF Follows
<1>2. ASSUME NEW r \in f.loop, Denotes(r, c, n)
      PROVE  \E r0 \in d.loop : Denotes(r0, c, n) /\ SameKind(r0, r)
  <2>1. PICK r1 \in e.loop : Denotes(r1, c, n) /\ SameKind(r1, r)
    BY <1>1, <1>2 DEF Follows
  <2>2. PICK r0 \in d.loop : Denotes(r0, c, n) /\ SameKind(r0, r1)
    BY <2>1 DEF Follows
  <2>. QED
    BY <2>1, <2>2 DEF SameKind
<1>. QED
  BY <1>1, <1>2

\* A handle whose number was given out is one after the tables it agrees with.
LEMMA FollowingAgrees ==
    ASSUME NEW d, NEW e, Follows(d, e), NEW l \in LoopRef,
           Given(d, l.container_id, l.loop_num), Agrees(l, d)
    PROVE  Given(e, l.container_id, l.loop_num) /\ Agrees(l, e)
<1> DEFINE c == l.container_id
           n == l.loop_num
<1>1. c \in Nat /\ n \in Nat
  BY DEF LoopRef
<1>2. Given(e, c, n)
  BY <1>1 DEF Follows
<1>3. ASSUME NEW r \in e.loop, Denotes(r, c, n)
      PROVE  SameKind(l, r)
  <2>1. PICK r0 \in d.loop : Denotes(r0, c, n) /\ SameKind(r0, r)
    BY <1>1, <1>3 DEF Follows
  <2>2. SameKind(l, r0)
    BY <2>1 DEF Agrees
  <2>. QED
    BY <2>1, <2>2 DEF SameKind
<1>. QED
  BY <1>2, <1>3 DEF Agrees

-----------------------------------------------------------------------------
(* Statements. *)

\* Deletions, and statements on items and values
LEMMA FewerFollow ==
    ASSUME NEW d, NEW e, e.seq = d.seq, e.container \subseteq d.container,
           e.loop \subseteq d.loop
    PROVE  Follows(d, e)
BY DEF Follows, Given, SameKind

\* A row of table loop has a number given out.
LEMMA RowIsGiven ==
    ASSUME NEW d, Sound(d), NEW r \in d.loop
    PROVE  Given(d, r.container_id, r.loop_num)
<1>1. r.container_id <= d.seq
  BY DEF Sound, ForeignKeys, ContainerExists, Keys, ContainerKeys
<1>. QED
  BY <1>1 DEF Given, Sound, LoopNumsBelowNext

\* Updates of the loops' other columns
LEMMA UpdateFollows ==
    ASSUME NEW d, Sound(d), NEW f,
           \A r \in d.loop : /\ f[r].container_id = r.container_id
                             /\ f[r].loop_num = r.loop_num
                             /\ SameKind(r, f[r])
    PROVE  Follows(d, [d EXCEPT !.loop = {f[r] : r \in d.loop}])
<1> DEFINE e == [d EXCEPT !.loop = {f[r] : r \in d.loop}]
<1>1. e.seq = d.seq /\ e.container = d.container /\ e.loop = {f[r] : r \in d.loop}
  BY DEF Sound, Database
<1> HIDE DEF e
<1>2. Follows(d, e)
  BY <1>1 DEF Follows, Given, Denotes
<1>. QED
  BY <1>2 DEF e

\* The statements on loops, items and values
LEMMA StatementsFollow ==
    ASSUME NEW d, Sound(d), NEW c, NEW n, NEW x, NEW y
    PROVE  /\ Follows(d, DeleteLoops(d, x))
           /\ Follows(d, DeleteItem(d, c, x))
           /\ Follows(d, DeleteContainer(d, c))
           /\ Follows(d, DeletePacket(d, c, n, x))
           /\ Follows(d, InsertItems(d, c, x, n))
           /\ Follows(d, InsertPacket(d, c, x, n))
           /\ Follows(d, ReplacePacket(d, c, x, n))
           /\ Follows(d, SetAllValues(d, c, x, y))
           /\ Follows(d, IncrementPacketNum(d, c, n))
           /\ Follows(d, ResetPacketNum(d, c, n))
<1>1. \A e \in {DeleteLoops(d, x), DeleteItem(d, c, x)} :
         e.seq = d.seq /\ e.container = d.container /\ e.loop \subseteq d.loop
  BY DEF DeleteLoops, DeleteItem, DeleteItems, Sound, Database
<1>2. Follows(d, DeleteLoops(d, x)) /\ Follows(d, DeleteItem(d, c, x))
  BY <1>1, FewerFollow
<1>3. Follows(d, DeleteContainer(d, c))
  <2> DEFINE e == DeleteContainer(d, c)
  <2>1. e.seq = d.seq /\ e.container \subseteq d.container /\ e.loop \subseteq d.loop
    BY DEF DeleteContainer, DeleteLoops, DeleteItems, Sound, Database
  <2> HIDE DEF e
  <2>2. Follows(d, e)
    BY <2>1, FewerFollow
  <2>. QED
    BY <2>2 DEF e
<1>4. Follows(d, DeletePacket(d, c, n, x))
  BY FewerFollow DEF DeletePacket, Sound, Database
<1>5. Follows(d, InsertItems(d, c, x, n))
  BY FewerFollow DEF InsertItems, Sound, Database
<1>6. Follows(d, InsertPacket(d, c, x, n)) /\ Follows(d, ReplacePacket(d, c, x, n))
  BY FewerFollow DEF InsertPacket, ReplacePacket, Sound, Database
<1>7. Follows(d, SetAllValues(d, c, x, y))
  BY FewerFollow DEF SetAllValues, Sound, Database
<1> DEFINE in(r) == r.container_id = c /\ r.loop_num = n
           f2 == [r \in d.loop |-> IF in(r) THEN [r EXCEPT !.last_row_num = @ + 1] ELSE r]
           f3 == [r \in d.loop |-> IF in(r) THEN [r EXCEPT !.last_row_num = 0] ELSE r]
           keys(f) == \A r \in d.loop : /\ f[r].container_id = r.container_id
                                        /\ f[r].loop_num = r.loop_num
                                        /\ SameKind(r, f[r])
<1>8. keys(f2) /\ keys(f3)
  BY DEF Sound, Database, LoopRow, SameKind
<1>9. /\ IncrementPacketNum(d, c, n) = [d EXCEPT !.loop = {f2[r] : r \in d.loop}]
      /\ ResetPacketNum(d, c, n) = [d EXCEPT !.loop = {f3[r] : r \in d.loop}]
  BY DEF IncrementPacketNum, ResetPacketNum
<1> HIDE DEF f2, f3
<1>10. Follows(d, IncrementPacketNum(d, c, n))
  BY <1>8, <1>9, UpdateFollows
<1>11. Follows(d, ResetPacketNum(d, c, n))
  BY <1>8, <1>9, UpdateFollows
<1>. QED
  BY <1>2, <1>3, <1>4, <1>5, <1>6, <1>7, <1>10, <1>11

\* SET_CATEGORY_SQL, for a category of the same kind as the loop's
LEMMA UpdateCategoryFollows ==
    ASSUME NEW d, Sound(d), NEW c, NEW n, NEW cat,
           \A r \in d.loop : Denotes(r, c, n) => SameKind(r, [category |-> cat])
    PROVE  Follows(d, UpdateCategory(d, c, n, cat))
<1> DEFINE f == [r \in d.loop |-> IF r.container_id = c /\ r.loop_num = n
                                  THEN [r EXCEPT !.category = cat] ELSE r]
<1>1. \A r \in d.loop : /\ f[r].container_id = r.container_id
                        /\ f[r].loop_num = r.loop_num
                        /\ SameKind(r, f[r])
  BY DEF Sound, Database, LoopRow, SameKind, Denotes
<1>2. UpdateCategory(d, c, n, cat) = [d EXCEPT !.loop = {f[r] : r \in d.loop}]
  BY DEF UpdateCategory
<1> HIDE DEF f
<1>. QED
  BY <1>1, <1>2, UpdateFollows

\* The new loop has the number that was next, and the one after it is next.
LEMMA InsertLoopFollows ==
    ASSUME NEW d, Sound(d), NEW c, ContainerExists(d, c), NEW cat \in AnyCategory
    PROVE  Follows(d, InsertLoop(d, c, cat))
<1> DEFINE e   == InsertLoop(d, c, cat)
           m   == NextLoopNum(d, c)
           row == [container_id |-> c, loop_num |-> m, category |-> cat, last_row_num |-> 0]
           up(r) == IF r.id = c THEN [r EXCEPT !.next_loop_num = @ + 1] ELSE r
<1>1. e.loop = d.loop \cup {row} /\ m \in Nat
  BY InsertLoopSound
<1>2. e.seq = d.seq /\ e.container = {up(r) : r \in d.container}
  BY DEF InsertLoop, Sound, Database
<1>3. PICK k \in d.container : k.id = c
  BY DEF ContainerExists
<1>4. m = k.next_loop_num
  BY <1>3, NextLoopNumOfRow
<1>5. \A r \in d.container : /\ up(r).id = r.id
                             /\ r.next_loop_num \in Nat /\ up(r).next_loop_num \in Nat
                             /\ r.next_loop_num <= up(r).next_loop_num
  BY DEF Sound, Database, ContainerRow
<1>6. row.container_id = c /\ row.loop_num = m
  OBVIOUS
<1> HIDE DEF e, m, row, up
<1>7. ASSUME NEW i \in Nat, NEW n \in Nat, Given(d, i, n)
      PROVE  /\ Given(e, i, n)
             /\ ~ Denotes(row, i, n)
  <2>1. Given(e, i, n)
    BY <1>2, <1>5, <1>7 DEF Given
  <2>2. ~ Denotes(row, i, n)
    BY <1>1, <1>3, <1>4, <1>6, <1>7 DEF Given, Denotes
  <2>. QED
    BY <2>1, <2>2
<1>8. Follows(d, e)
  BY <1>1, <1>7 DEF Follows, SameKind
<1>. QED
  BY <1>8 DEF e

\* New containers have new ids.
LEMMA InsertContainerFollows ==
    ASSUME NEW d, Sound(d), NEW c, NEW p, NEW code
    PROVE  /\ Follows(d, InsertBlock(InsertContainer(d), c, code))
           /\ Follows(d, InsertFrame(InsertContainer(d), c, p, code))
<1> DEFINE row == [id |-> d.seq + 1, next_loop_num |-> 0]
<1>1. ASSUME NEW e, e.seq = d.seq + 1, e.container = d.container \cup {row}, e.loop = d.loop
      PROVE  Follows(d, e)
  <2>1. d.seq \in Nat /\ row.id = d.seq + 1
    BY DEF Sound, Database
  <2> HIDE DEF row
  <2>. QED
    BY <1>1, <2>1 DEF Follows, Given, SameKind
<1>2. \A e \in {InsertBlock(InsertContainer(d), c, code), InsertFrame(InsertContainer(d), c, p, code)} :
         /\ e.seq = d.seq + 1 /\ e.loop = d.loop
         /\ e.container = d.container \cup {row}
  BY DEF InsertBlock, InsertFrame, InsertContainer, NewContainerId, Sound, Database
<1>. QED
  BY <1>1, <1>2

-----------------------------------------------------------------------------
(* Functions. *)

\* A transaction that fails leaves the tables as they were.
LEMMA AtomicallyFollows ==
    ASSUME NEW d, NEW r, r.rc = "CIF_OK" => Follows(d, r.db)
    PROVE  /\ Follows(d, Atomically(d, r).db)
           /\ Follows(d, TopLevel(d, r).db)
<1>1. Follows(d, d)
  BY FewerFollow
<1>. QED
  BY <1>1 DEF Atomically, TopLevel, Result

\* create_loop_internal: the handle it fills in is that of a row.
LEMMA CreateLoopFollows ==
    ASSUME NEW d, Sound(d), NEW c, NEW cat \in AnyCategory,
           NEW nn, Names(nn) \subseteq ItemName
    PROVE  LET r == CreateLoopInternal(d, c, cat, nn)
           IN  /\ Follows(d, r.db)
               /\ r.rc = "CIF_OK" =>
                    \E row \in r.db.loop :
                       RefTo(row) = [container_id |-> c, category |-> cat,
                                     loop_num |-> MaxLoopNumOf(r.db, c)]
<1> DEFINE r   == CreateLoopInternal(d, c, cat, nn)
           d1  == InsertLoop(d, c, cat)
           m   == MaxLoopNumOf(d1, c)
           n   == NextLoopNum(d, c)
           d2  == InsertItems(d1, c, Names(nn), m)
           row == [container_id |-> c, loop_num |-> n, category |-> cat, last_row_num |-> 0]
<1>1. CASE r.rc = "CIF_OK"
  <2>1. ContainerExists(d, c) /\ r.db = d2
    BY <1>1 DEF CreateLoopInternal, Atomically, Result
  <2>2. Follows(d, d1) /\ Sound(d1) /\ d1.loop = d.loop \cup {row}
    BY <2>1, InsertLoopFollows, InsertLoopSound
  <2>3. d2.loop = d1.loop
    BY <2>2 DEF InsertItems, Sound, Database
  <2>4. Follows(d, d2)
    <3> HIDE DEF d1, m
    <3>1. Follows(d1, d2)
      BY <2>2, StatementsFollow
    <3> HIDE DEF d2
    <3>. QED
      BY <2>2, <3>1, FollowsTransitive
  <2>5. MaxLoopNumOf(d2, c) = n
    BY <2>1, <2>3, MaxLoopNumIsNew
  <2>6. RefTo(row) = [container_id |-> c, category |-> cat, loop_num |-> n]
    BY DEF RefTo
  <2>7. row \in d2.loop
    BY <2>2, <2>3
  <2> HIDE DEF row, n, d2
  <2>. QED
    BY <2>1, <2>4, <2>5, <2>6, <2>7
<1>2. CASE r.rc # "CIF_OK"
  <2>1. r.db = d
    BY <1>2 DEF CreateLoopInternal, Atomically, Result
  <2>. QED
    BY <1>2, <2>1, FewerFollow
<1>. QED
  BY <1>1, <1>2

\* cif_loop_add_item_internal
LEMMA AddItemFollows ==
    ASSUME NEW d, Sound(d), NEW c \in Nat, NEW n, NEW nm \in ItemName, NEW val
    PROVE  Follows(d, AddItemInternal(d, c, n, nm, val).db)
<1> DEFINE d1 == InsertItems(d, c, {nm}, n)
           d2 == SetAllValues(d1, c, nm, val)
           r  == IF CanInsertItem(d, c, nm, n) THEN Result(d2, "CIF_OK")
                                               ELSE Result(d, "CIF_DUP_ITEMNAME")
<1>1. ASSUME CanInsertItem(d, c, nm, n)
      PROVE  Follows(d, d2)
  <2>1. Follows(d, d1) /\ Sound(d1)
    BY <1>1, StatementsFollow, InsertItemsSound DEF CanInsertItem
  <2> HIDE DEF d1
  <2>2. Follows(d1, d2)
    BY <2>1, StatementsFollow
  <2>. QED
    BY <2>1, <2>2, FollowsTransitive
<1>2. AddItemInternal(d, c, n, nm, val) = Atomically(d, r)
  BY DEF AddItemInternal
<1>3. r.rc = "CIF_OK" => Follows(d, r.db)
  BY <1>1 DEF Result
<1> HIDE DEF r
<1>. QED
  BY <1>2, <1>3, AtomicallyFollows

\* cif_loop_add_packet
LEMMA AddPacketFollows ==
    ASSUME NEW d, Sound(d), NEW c, NEW n, NEW pkt
    PROVE  Follows(d, AddPacketInternal(d, c, n, pkt).db)
<1> DEFINE d1  == IncrementPacketNum(d, c, n)
           row == PacketNum(d1, c, n)
           d2  == InsertPacket(d1, c, pkt, row)
           r   == AddPacketInternal(d, c, n, pkt)
<1>1. r.db = d2 \/ r.db = d
  BY DEF AddPacketInternal, Atomically, Result
<1>2. Follows(d, d1) /\ Sound(d1) /\ Follows(d, d)
  BY StatementsFollow, IncrementPacketNumSound, FewerFollow
<1> HIDE DEF d1, row, r
<1>3. Follows(d1, d2)
  BY <1>2, StatementsFollow
<1> HIDE DEF d2
<1>4. Follows(d, d2)
  BY <1>2, <1>3, FollowsTransitive
<1>. QED
  BY <1>1, <1>2, <1>4 DEF r

\* cif_container_set_value and cif_container_remove_item
LEMMA SetAndRemoveFollow ==
    ASSUME NEW d, Sound(d), NEW c \in Nat, NEW nm \in ItemName, NEW val \in Value
    PROVE  /\ Follows(d, SetValueInternal(d, c, nm, val).db)
           /\ Follows(d, RemoveItemInternal(d, c, nm).db)
<1>1. Follows(d, AddScalar(d, c, nm, val).db)
  <2> DEFINE r1 == IF CategoryLoops(d, c, Scalars) = {}
                   THEN CreateLoopInternal(d, c, Scalars, <<>>)
                   ELSE Result(d, "CIF_OK")
             n  == (CHOOSE r \in CategoryLoops(r1.db, c, Scalars) : TRUE).loop_num
             r2 == AddItemInternal(r1.db, c, n, nm, val)
             r3 == AddPacketInternal(r2.db, c, n, [x \in {nm} |-> val])
  <2>1. Names(<<>>) \subseteq ItemName /\ Scalars \in AnyCategory
    BY DEF Names, AnyCategory
  <2>2. Sound(r1.db)
    BY <2>1, CreateLoopInternalSound DEF Result
  <2>3. Follows(d, r1.db)
    <3>1. Follows(d, CreateLoopInternal(d, c, Scalars, <<>>).db)
      BY <2>1, CreateLoopFollows
    <3>2. Follows(d, Result(d, "CIF_OK").db)
      BY FewerFollow DEF Result
    <3>. QED
      BY <3>1, <3>2
  <2> HIDE DEF r1, n
  <2>4. Sound(r2.db)
    BY <2>2, AddItemInternalSound
  <2>5. Follows(r1.db, r2.db)
    BY <2>2, AddItemFollows
  <2> HIDE DEF r2
  <2>6. Follows(d, r2.db)
    BY <2>3, <2>5, FollowsTransitive
  <2>7. Follows(r2.db, r3.db)
    BY <2>4, AddPacketFollows
  <2> HIDE DEF r3
  <2>8. Follows(d, r3.db)
    BY <2>6, <2>7, FollowsTransitive
  <2>9. AddScalar(d, c, nm, val) \in {r1, r2, r3}
    BY DEF AddScalar, r1, r2, r3, n
  <2>. QED
    BY <2>3, <2>6, <2>8, <2>9
<1>2. Follows(d, SetValueInternal(d, c, nm, val).db)
  BY <1>1, StatementsFollow DEF SetValueInternal, Result
<1>3. Follows(d, RemoveItemInternal(d, c, nm).db)
  <2>1. Follows(d, d)
    BY FewerFollow
  <2>. QED
    BY <2>1, StatementsFollow DEF RemoveItemInternal, Result
<1>. QED
  BY <1>2, <1>3

-----------------------------------------------------------------------------
(* Steps. *)

\* What every step does but that of cif_pktitr_abort: the tables go on from
\* what they were, and every loop handle is one there was, up to a change of
\* category that concerns no scalar loop, or is made from a row.
Onward ==
    /\ Follows(db, db')
    /\ \/ UNCHANGED <<autocommit, saved>>
       \/ saved' = db /\ UNCHANGED db
       \/ autocommit'
    /\ \A s \in DOMAIN lh' :
          \/ /\ s \in DOMAIN lh
             /\ Denotes(lh'[s], lh[s].container_id, lh[s].loop_num)
             /\ SameKind(lh[s], lh'[s])
          \/ \E r \in db'.loop : lh'[s] = RefTo(r)

\* A row's own handle agrees with the tables it was made from, and with those
\* they came after.
LEMMA RefAgrees ==
    ASSUME NEW d, Sound(d), NEW r \in d.loop
    PROVE  /\ Agrees(RefTo(r), d)
           /\ \A d0 : Sound(d0) /\ Follows(d0, d) => Agrees(RefTo(r), d0)
<1> DEFINE l == RefTo(r)
<1>1. l.container_id = r.container_id /\ l.loop_num = r.loop_num /\ l.category = r.category
  BY DEF RefTo
<1>2. r.container_id \in Nat /\ r.loop_num \in Nat
  BY DEF Sound, Database, LoopRow
<1> HIDE DEF l
<1>3. Agrees(l, d)
  BY <1>1 DEF Agrees, SameKind, Denotes, Sound, Keys, LoopKeys
<1>4. ASSUME NEW d0, Sound(d0), Follows(d0, d), NEW q \in d0.loop,
             Denotes(q, r.container_id, r.loop_num)
      PROVE  SameKind(l, q)
  <2>1. Given(d0, r.container_id, r.loop_num)
    BY <1>4, RowIsGiven DEF Denotes
  <2>2. PICK r0 \in d0.loop : Denotes(r0, r.container_id, r.loop_num) /\ SameKind(r0, r)
    BY <1>2, <1>4, <2>1 DEF Follows, Denotes
  <2>3. r0 = q
    BY <1>4, <2>2 DEF Denotes, Sound, Keys, LoopKeys
  <2>. QED
    BY <1>1, <2>2, <2>3 DEF SameKind
<1>. QED
  BY <1>1, <1>3, <1>4 DEF Agrees, l

\* Such a step keeps loop handles and tables in agreement.
LEMMA OnwardStep ==
    ASSUME LoopHandleInv, HandleInv', Onward
    PROVE  LoopHandleInv'
<1>1. /\ Sound(db) /\ Sound(db') /\ Sound(saved)
      /\ \A s \in DOMAIN lh : lh[s] \in LoopRef
  BY DEF LoopHandleInv, HandleInv, Inv, TypeOK
<1>2. ASSUME NEW s \in DOMAIN lh'
      PROVE  /\ Given(db', lh'[s].container_id, lh'[s].loop_num)
             /\ Agrees(lh'[s], db')
  <2>1. CASE /\ s \in DOMAIN lh
             /\ Denotes(lh'[s], lh[s].container_id, lh[s].loop_num)
             /\ SameKind(lh[s], lh'[s])
    <3>1. Given(db', lh[s].container_id, lh[s].loop_num) /\ Agrees(lh[s], db')
      BY <1>1, <2>1, FollowingAgrees DEF Onward, LoopHandleInv, LoopHandlesFit
    <3>. QED
      BY <2>1, <3>1 DEF Agrees, Denotes, SameKind
  <2>2. ASSUME NEW r \in db'.loop, lh'[s] = RefTo(r)
        PROVE  /\ Given(db', lh'[s].container_id, lh'[s].loop_num)
               /\ Agrees(lh'[s], db')
    <3>1. Given(db', r.container_id, r.loop_num)
      BY <1>1, RowIsGiven
    <3>2. lh'[s].container_id = r.container_id /\ lh'[s].loop_num = r.loop_num
      BY <2>2 DEF RefTo
    <3>. QED
      BY <1>1, <2>2, <3>1, <3>2, RefAgrees
  <2>. QED
    BY <2>1, <2>2 DEF Onward
<1>3. ASSUME ~ autocommit'
      PROVE  /\ Follows(saved', db')
             /\ \A s \in DOMAIN lh' : Agrees(lh'[s], saved')
  <2>1. CASE saved' = db /\ UNCHANGED db
    BY <1>2, <2>1, FewerFollow
  <2>2. CASE UNCHANGED <<autocommit, saved>>
    <3>1. Follows(saved, db')
      BY <1>3, <2>2, FollowsTransitive DEF Onward, LoopHandleInv, LoopHandlesFit
    <3>2. ASSUME NEW s \in DOMAIN lh'
          PROVE  Agrees(lh'[s], saved)
      <4>1. CASE /\ s \in DOMAIN lh
                 /\ Denotes(lh'[s], lh[s].container_id, lh[s].loop_num)
                 /\ SameKind(lh[s], lh'[s])
        <5>1. Agrees(lh[s], saved)
          BY <1>3, <2>2, <4>1 DEF LoopHandleInv, LoopHandlesFit
        <5>. QED
          BY <4>1, <5>1 DEF Agrees, Denotes, SameKind
      <4>2. CASE \E r \in db'.loop : lh'[s] = RefTo(r)
        BY <1>1, <3>1, <4>2, RefAgrees
      <4>. QED
        BY <4>1, <4>2 DEF Onward
    <3>. QED
      BY <2>2, <3>1, <3>2
  <2>. QED
    BY <1>3, <2>1, <2>2 DEF Onward
<1>. QED
  BY <1>2, <1>3 DEF LoopHandleInv, LoopHandlesFit

\* Calls that leave the loop handles alone
LEMMA TablesOnward ==
    ASSUME Follows(db, db'), UNCHANGED <<autocommit, saved, lh>>
    PROVE  Onward
BY DEF Onward, Denotes, SameKind

\* Calls that leave everything but one loop handle alone
LEMMA KeepOnward ==
    ASSUME Follows(db, db'), UNCHANGED <<autocommit, saved>>,
           NEW s, NEW r \in db'.loop, Keep(s, RefTo(r))
    PROVE  Onward
BY DEF Onward, Keep, Denotes, SameKind

\* Every table goes on from itself.
LEMMA SameFollows == \A d : Follows(d, d)
BY FewerFollow

\* cif.c and container.c: blocks and frames
LEMMA CreationOnward ==
    ASSUME LoopHandleInv,
           \/ BlockCall
           \/ \E c \in Ids, sp \in CodeSpelling : CreateFrame(c, sp) \/ GetFrame(c, sp)
    PROVE  Onward
<1>1. Sound(db)
  BY DEF LoopHandleInv, HandleInv, Inv
<1> DEFINE block(code) == InsertBlock(InsertContainer(db), NewContainerId(db), code)
           frame(c, code) == InsertFrame(InsertContainer(db), NewContainerId(db), c, code)
<1>2. /\ \/ db' = db
         \/ \E code : db' = block(code)
         \/ \E c, code : db' = frame(c, code)
      /\ UNCHANGED <<autocommit, saved, lh>>
  <2>1. ASSUME NEW sp \in CodeSpelling, CreateBlock(sp)
        PROVE  db' = db \/ db' = block(NormCode[sp])
    BY <2>1 DEF CreateBlock, CreateContainer, TopLevel, Atomically, Result
  <2>2. ASSUME NEW c, NEW sp \in CodeSpelling, CreateFrame(c, sp)
        PROVE  db' = db \/ db' = frame(c, NormCode[sp])
    BY <2>2 DEF CreateFrame, CreateContainer, TopLevel, Atomically, Result
  <2>3. ASSUME NEW c, NEW sp \in CodeSpelling, GetBlock(sp) \/ GetFrame(c, sp)
        PROVE  db' = db
    BY <2>3 DEF GetBlock, GetFrame
  <2>4. UNCHANGED <<autocommit, saved, lh>>
    BY DEF BlockCall, CreateBlock, CreateFrame, CreateContainer, GetBlock, GetFrame
  <2> HIDE DEF block, frame
  <2>. QED
    BY <2>1, <2>2, <2>3, <2>4 DEF BlockCall
<1>3. /\ \A code : Follows(db, block(code))
      /\ \A c, code : Follows(db, frame(c, code))
  BY <1>1, InsertContainerFollows
<1> HIDE DEF block, frame
<1>. QED
  BY <1>2, <1>3, TablesOnward, SameFollows

\* container.c: every other call made through a container handle
LEMMA ContainerOnward ==
    ASSUME LoopHandleInv, NEW c \in Ids, ContainerCall(c)
    PROVE  Onward
<1>1. Sound(db) /\ c \in Nat
  BY DEF LoopHandleInv, HandleInv, Inv, TypeOK, Ids, ContHandle
<1>2. CASE DestroyContainer(c) \/ PruneContainer(c)
  <2>1. Follows(db, DeleteContainer(db, c)) /\ Follows(db, Prune(db, c))
    BY <1>1, StatementsFollow DEF Prune
  <2>. QED
    BY <1>2, <2>1, TablesOnward DEF DestroyContainer, PruneContainer
<1>3. ASSUME \/ \E s \in Slot : GetAllLoops(c, s)
             \/ \E s \in Slot, cat \in AnyCategory : GetCategoryLoop(c, cat, s)
             \/ \E s \in Slot, sp \in ItemSpelling : GetItemLoop(c, sp, s)
      PROVE  Onward
  <2>1. /\ UNCHANGED <<db, autocommit, saved>>
        /\ UNCHANGED lh \/ \E r \in db.loop : \E s : Keep(s, RefTo(r))
    BY <1>3 DEF GetAllLoops, GetCategoryLoop, GetItemLoop, GetLoop, CategoryLoops, ItemLoops
  <2>2. Follows(db, db')
    BY <2>1, SameFollows
  <2>3. CASE UNCHANGED lh
    BY <2>1, <2>2, <2>3, TablesOnward
  <2>4. ASSUME NEW s, NEW r \in db.loop, Keep(s, RefTo(r))
        PROVE  Onward
    <3>1. r \in db'.loop
      BY <2>1
    <3>. QED
      BY <2>1, <2>2, <2>4, <3>1, KeepOnward
  <2>. QED
    BY <2>1, <2>3, <2>4
<1>4. ASSUME NEW s \in Slot, NEW cat \in LoopCategory, NEW names \in NameLists,
             CreateLoop(c, cat, names, s)
      PROVE  Onward
  <2> DEFINE nn == [i \in DOMAIN names |-> NormItem[names[i]]]
             r  == CreateLoopInternal(db, c, cat, nn)
             ok == names # <<>> /\ Invalid \notin Names(nn) /\ r.rc = "CIF_OK"
  <2>1. CASE ~ ok
    <3>1. UNCHANGED <<db, autocommit, saved, lh>>
      BY <1>4, <2>1 DEF CreateLoop, CreateLoopInternal, Atomically, Result
    <3>. QED
      BY <3>1, TablesOnward, SameFollows
  <2>2. CASE ok
    <3>1. Names(nn) \subseteq ItemName
      <4>1. \A i \in DOMAIN names : names[i] \in ItemSpelling
        BY ArgumentAssumption
      <4>. QED
        BY <2>2, <4>1, NormAssumption DEF Names
    <3>2. cat \in AnyCategory
      BY ArgumentAssumption
    <3>3. /\ db' = r.db /\ UNCHANGED <<autocommit, saved>>
          /\ Keep(s, [container_id |-> c, loop_num |-> MaxLoopNumOf(r.db, c),
                      category |-> cat])
      BY <1>4, <2>2 DEF CreateLoop, Result
    <3> HIDE DEF nn
    <3>4. /\ Follows(db, r.db)
          /\ \E row \in r.db.loop :
                RefTo(row) = [container_id |-> c, category |-> cat,
                              loop_num |-> MaxLoopNumOf(r.db, c)]
      BY <1>1, <2>2, <3>1, <3>2, CreateLoopFollows
    <3> HIDE DEF r
    <3>5. PICK row \in r.db.loop :
             RefTo(row) = [container_id |-> c, category |-> cat,
                           loop_num |-> MaxLoopNumOf(r.db, c)]
      BY <3>4
    <3>6. Keep(s, RefTo(row)) /\ row \in db'.loop /\ Follows(db, db')
      BY <3>3, <3>4, <3>5
    <3>. QED
      BY <3>3, <3>6, KeepOnward
  <2>. QED
    BY <2>1, <2>2
<1>5. ASSUME NEW sp \in ItemSpelling,
             \/ GetValue(c, sp)
             \/ RemoveItem(c, sp)
             \/ \E val \in Value : SetValue(c, sp, val)
      PROVE  Onward
  <2> DEFINE nm == NormItem[sp]
             set(val) == TopLevel(db, SetValueInternal(db, c, nm, val)).db
             removed  == TopLevel(db, RemoveItemInternal(db, c, nm)).db
  <2>1. ASSUME nm # Invalid, NEW val \in Value
        PROVE  Follows(db, set(val)) /\ Follows(db, removed)
    <3>1. nm \in ItemName
      BY <2>1, NormAssumption
    <3> HIDE DEF nm
    <3>2. /\ Follows(db, SetValueInternal(db, c, nm, val).db)
          /\ Follows(db, RemoveItemInternal(db, c, nm).db)
      BY <1>1, <3>1, SetAndRemoveFollow
    <3>. QED
      BY <3>2, AtomicallyFollows
  <2>2. /\ \/ db' = db
           \/ nm # Invalid /\ db' = removed
           \/ \E val \in Value : nm # Invalid /\ db' = set(val)
        /\ UNCHANGED <<autocommit, saved, lh>>
    BY <1>5 DEF GetValue, SetValue, RemoveItem, Result
  <2> HIDE DEF set, removed, nm
  <2>3. Follows(db, db')
    BY <2>1, <2>2, SameFollows, UnknownAssumption
  <2>. QED
    BY <2>2, <2>3, TablesOnward
<1>. QED
  BY <1>2, <1>3, <1>4, <1>5, CreationOnward DEF ContainerCall

\* loop.c: every call made through a loop handle
LEMMA LoopOnward ==
    ASSUME LoopHandleInv, NEW s \in DOMAIN lh, LoopCall(s)
    PROVE  Onward
<1> DEFINE l == lh[s]
           c == l.container_id
           n == l.loop_num
<1>1. Sound(db) /\ c \in Nat /\ n \in Nat /\ l \in LoopRef /\ Agrees(l, db)
  BY DEF LoopHandleInv, HandleInv, Inv, TypeOK, LoopRef, LoopHandlesFit
<1>2. CASE LoopFree(s) \/ LoopGetNames(s) \/ LoopGetPackets(s)
  <2>1. /\ UNCHANGED db
        /\ UNCHANGED <<autocommit, saved>> \/ saved' = db
        /\ Drop({s}) \/ UNCHANGED lh
    BY <1>2 DEF LoopFree, LoopGetNames, LoopGetPackets
  <2>2. \A x \in DOMAIN lh' : x \in DOMAIN lh /\ lh'[x] = lh[x]
    BY <2>1 DEF Drop
  <2>3. Follows(db, db')
    BY <2>1, SameFollows
  <2>. QED
    BY <2>1, <2>2, <2>3 DEF Onward, Denotes, SameKind
<1>3. CASE LoopDestroy(s)
  <2>1. Follows(db, DeleteLoop(db, c, n))
    BY <1>1, StatementsFollow DEF DeleteLoop
  <2>2. /\ db' = DeleteLoop(db, c, n) /\ UNCHANGED <<autocommit, saved>>
        /\ Drop({s}) \/ UNCHANGED lh
    BY <1>3 DEF LoopDestroy
  <2>. QED
    BY <2>1, <2>2 DEF Onward, Drop, Denotes, SameKind
<1>4. ASSUME NEW cat \in NewCategory, LoopSetCategory(s, cat)
      PROVE  Onward
  <2> DEFINE k == [l EXCEPT !.category = cat]
  <2>1. CASE UNCHANGED <<db, lh>>
    BY <1>4, <2>1, TablesOnward, SameFollows DEF LoopSetCategory
  <2>2. CASE ~ UNCHANGED <<db, lh>>
    <3>1. /\ db' = UpdateCategory(db, c, n, cat) /\ Keep(s, k)
          /\ UNCHANGED <<autocommit, saved>>
          /\ cat # Scalars /\ (cat # NoCategory => l.category # Scalars)
          /\ cat = NoCategory /\ l.category = Scalars => UnsetsScalar
      BY <1>4, <2>2 DEF LoopSetCategory
    <3>2. k.category = cat /\ Denotes(k, c, n) /\ SameKind(l, k)
      BY <1>1, <3>1 DEF LoopRef, Denotes, SameKind
    <3>3. \A r \in db.loop : Denotes(r, c, n) => SameKind(r, [category |-> cat])
      BY <1>1, <3>2 DEF Agrees, SameKind
    <3>4. Follows(db, db')
      BY <1>1, <3>1, <3>3, UpdateCategoryFollows
    <3> HIDE DEF k, l
    <3>5. \A x \in DOMAIN lh' : /\ x \in DOMAIN lh
                                /\ lh'[x] = IF x = s THEN k ELSE lh[x]
      BY <3>1 DEF Keep
    <3>. QED
      BY <3>1, <3>2, <3>4, <3>5 DEF Onward, Denotes, SameKind, l
  <2>. QED
    BY <2>1, <2>2
<1>5. ASSUME NEW sp \in ItemSpelling, NEW val \in Value, LoopAddItem(s, sp, val)
      PROVE  Onward
  <2> DEFINE nm == NormItem[sp]
             d1 == AddItemInternal(db, c, n, nm, val).db
  <2>1. nm # Invalid => Follows(db, d1)
    <3>1. nm # Invalid => nm \in ItemName
      BY NormAssumption
    <3> HIDE DEF nm, c, n
    <3>. QED
      BY <1>1, <3>1, AddItemFollows
  <2>2. /\ db' = db \/ (nm # Invalid /\ db' = d1)
        /\ UNCHANGED <<autocommit, saved, lh>>
    BY <1>5 DEF LoopAddItem, Result
  <2> HIDE DEF d1, nm
  <2>. QED
    BY <2>1, <2>2, TablesOnward, SameFollows
<1>6. ASSUME NEW pkt \in Packets, LoopAddPacket(s, pkt)
      PROVE  Onward
  <2> DEFINE d1 == AddPacketInternal(db, c, n, pkt).db
  <2>1. db' = d1 /\ UNCHANGED <<autocommit, saved, lh>>
    BY <1>6 DEF LoopAddPacket
  <2>2. Follows(db, d1)
    BY <1>1, AddPacketFollows
  <2> HIDE DEF d1
  <2>. QED
    BY <2>1, <2>2, TablesOnward
<1>. QED
  BY <1>2, <1>3, <1>4, <1>5, <1>6 DEF LoopCall

\* pktitr.c: every call but cif_pktitr_abort
LEMMA IteratorOnward ==
    ASSUME LoopHandleInv, NEW it \in iters, IteratorCall(it)
    PROVE  Onward \/ AbortIterator(it)
<1> DEFINE c   == lh[it.slot].container_id
           n   == lh[it.slot].loop_num
           row == it.previous_row_num
<1>1. Sound(db)
  BY DEF LoopHandleInv, HandleInv, Inv
<1>2. CASE NextPacket(it)
  BY <1>2, TablesOnward, SameFollows DEF NextPacket
<1>3. ASSUME NEW pkt \in Packets, UpdatePacket(it, pkt)
      PROVE  Onward
  <2>1. /\ db' = db \/ db' = ReplacePacket(db, c, pkt, row)
        /\ UNCHANGED <<autocommit, saved, lh>>
    BY <1>3 DEF UpdatePacket, Atomically, Result
  <2>. QED
    BY <1>1, <2>1, TablesOnward, SameFollows, StatementsFollow
<1>4. CASE RemovePacket(it)
  <2> DEFINE d1 == DeletePacket(db, c, n, row)
             d2 == ResetPacketNum(d1, c, n)
  <2>1. db' \in {db, d1, d2} /\ UNCHANGED <<autocommit, saved, lh>>
    BY <1>4 DEF RemovePacket
  <2>2. Follows(db, d1) /\ Sound(d1)
    BY <1>1, StatementsFollow, DeletePacketSound
  <2> HIDE DEF d1
  <2>3. Follows(d1, d2)
    BY <2>2, StatementsFollow
  <2> HIDE DEF d2
  <2>4. Follows(db, d2)
    BY <2>2, <2>3, FollowsTransitive
  <2>. QED
    BY <2>1, <2>2, <2>4, TablesOnward, SameFollows
<1>5. CASE CloseIterator(it)
  BY <1>5, SameFollows DEF CloseIterator, Release, Onward, Denotes, SameKind
<1>. QED
  BY <1>2, <1>3, <1>4, <1>5 DEF IteratorCall

\* A rollback takes the tables back, and the application drops the handles whose
\* numbers had not been given out.
LEMMA AbortFits ==
    ASSUME LoopHandleInv, HandleInv', NEW it \in iters, AbortIterator(it)
    PROVE  LoopHandleInv'
<1>1. ~ autocommit /\ autocommit' /\ db' = saved
  BY DEF AbortIterator, Release, LoopHandleInv, HandleInv, Inv, TransactionIsIterators
<1>2. \A s \in DOMAIN lh' : s \in DOMAIN lh /\ lh'[s] = lh[s] /\ ~ MadeSince(lh[s])
  BY <1>1 DEF AbortIterator, Drop
<1>3. saved.seq = db.seq
  BY <1>1 DEF LoopHandleInv, HandleInv, HandlesFit, NoNewContainer
<1>4. /\ \A s \in DOMAIN lh : lh[s].loop_num \in Nat
      /\ \A r \in saved.container : r.next_loop_num \in Nat
  BY DEF LoopHandleInv, HandleInv, Inv, TypeOK, LoopRef, Database, ContainerRow
<1>5. \A s \in DOMAIN lh' : Given(saved, lh[s].container_id, lh[s].loop_num)
  BY <1>2, <1>3, <1>4 DEF Given, MadeSince, LoopHandleInv, LoopHandlesFit
<1>. QED
  BY <1>1, <1>2, <1>5 DEF LoopHandleInv, LoopHandlesFit

\* Every step keeps loop handles and tables in agreement.
LEMMA NextLoopHandleInv ==
    /\ LoopHandleInv /\ [Next]_vars => LoopHandleInv'
    /\ LoopHandleInv /\ Next => Onward \/ \E it \in iters : AbortIterator(it)
<1>1. ASSUME LoopHandleInv, Next
      PROVE  Onward \/ \E it \in iters : AbortIterator(it)
  BY <1>1, CreationOnward, ContainerOnward, LoopOnward, IteratorOnward DEF Next
<1>2. ASSUME LoopHandleInv, [Next]_vars
      PROVE  LoopHandleInv'
  <2>1. HandleInv'
    BY <1>2, NextHandleInv DEF LoopHandleInv
  <2>2. CASE UNCHANGED vars
    <3>1. Onward
      BY <2>2, TablesOnward, SameFollows DEF vars
    <3>. QED
      BY <1>2, <2>1, <3>1, OnwardStep
  <2>3. CASE Next
    BY <1>1, <1>2, <2>1, <2>3, OnwardStep, AbortFits
  <2>. QED
    BY <1>2, <2>2, <2>3
<1>. QED
  BY <1>1, <1>2

\* Before any call there is nothing to agree with.
LEMMA InitLoopHandleInv == Init => LoopHandleInv
BY InitInv DEF Init, LoopHandleInv, LoopHandlesFit, HandleInv, HandlesFit,
               ContainerIdsNeverReused, OneKind, EmptyDatabase

\* A loop handle whose loop is gone (destroyed through another handle, with its
\* container or with its last item, or pruned) never comes to denote a loop that
\* is made later: cif_loop_add_item, cif_loop_add_packet and the others called
\* through it find no loop, however long the application keeps it.
THEOREM StaleHandlesStayStale == Spec => StaleHandleStaysStale
<1> DEFINE back == \E s \in DOMAIN lh \cap DOMAIN lh' :
                      /\ lh'[s].container_id = lh[s].container_id
                      /\ lh'[s].loop_num = lh[s].loop_num
                      /\ LoopExists(db', lh[s].container_id, lh[s].loop_num)
                      /\ ~ LoopExists(db, lh[s].container_id, lh[s].loop_num)
<1>1. ASSUME LoopHandleInv, Onward
      PROVE  ~ back
  <2>1. SUFFICES ASSUME NEW s \in DOMAIN lh,
                        LoopExists(db', lh[s].container_id, lh[s].loop_num)
                 PROVE  LoopExists(db, lh[s].container_id, lh[s].loop_num)
    OBVIOUS
  <2>2. lh[s].container_id \in Nat /\ lh[s].loop_num \in Nat
    BY <1>1 DEF LoopHandleInv, HandleInv, Inv, TypeOK, LoopRef
  <2>3. Given(db, lh[s].container_id, lh[s].loop_num)
    BY <1>1 DEF LoopHandleInv, LoopHandlesFit
  <2>. QED
    BY <1>1, <2>1, <2>2, <2>3 DEF Onward, Follows, LoopExists, Denotes
<1>2. ASSUME LoopHandleInv, [Next]_vars, back
      PROVE  ret'.op = "cif_pktitr_abort"
  <2>1. Next
    BY <1>2 DEF vars
  <2>2. PICK it \in iters : AbortIterator(it)
    BY <1>1, <1>2, <2>1, NextLoopHandleInv
  <2>. QED
    BY <2>2 DEF AbortIterator, Return
<1>3. LoopHandleInv /\ [Next]_vars =>
        [\A s \in DOMAIN lh \cap DOMAIN lh' :
            /\ lh'[s].container_id = lh[s].container_id
            /\ lh'[s].loop_num = lh[s].loop_num
            /\ LoopExists(db', lh[s].container_id, lh[s].loop_num)
            => \/ LoopExists(db, lh[s].container_id, lh[s].loop_num)
               \/ ret'.op = "cif_pktitr_abort"
               \/ ret'.op = "cif_container_create_loop" /\ lh[s] # lh'[s]]_vars
  BY <1>2
<1>. QED
  BY <1>3, InitLoopHandleInv, NextLoopHandleInv, PTL DEF Spec, StaleHandleStaysStale

-----------------------------------------------------------------------------
(***************************************************************************)
(* The loops of a container, their packets and the iterators over them,    *)
(* for every value of the constants. No loop is without items: a loop is   *)
(* made without items, in the middle of two functions; remove_item         *)
(* decides by counting whether the loop goes with the item; and what a     *)
(* rollback restores has to be as good as what there is. An iterator has   *)
(* before it just what its loop holds, because the application leaves      *)
(* that loop to the iterator and no call on another loop disturbs it.      *)
(* Packets are numbered up to the loop's last_row_num and the scalar       *)
(* loop has one at most, as long as the application never takes its        *)
(* category from a scalar loop (~ UnsetsScalar), which the documentation   *)
(* forbids and the code does not prevent.                                  *)
(***************************************************************************)

Holds(i, r) == i.container_id = r.container_id /\ i.loop_num = r.loop_num

\* Every loop but those in S has an item.
FullBut(d, S) == \A r \in d.loop : r \in S \/ \E i \in d.loop_item : Holds(i, r)

Full(d) == FullBut(d, {})

\* What is inductive
LoopInv == Inv /\ Full(db) /\ Full(saved)

-----------------------------------------------------------------------------
(* Statements. *)

\* An update of loop rows that leaves their keys alone
LEMMA UpdateLoopsFull ==
    ASSUME NEW d \in Database, Full(d), NEW f,
           \A r \in d.loop : /\ f[r].container_id = r.container_id
                             /\ f[r].loop_num = r.loop_num
    PROVE  Full([d EXCEPT !.loop = {f[r] : r \in d.loop}])
<1> DEFINE e == [d EXCEPT !.loop = {f[r] : r \in d.loop}]
<1>1. e.loop = {f[r] : r \in d.loop} /\ e.loop_item = d.loop_item
  BY DEF Database
<1> HIDE DEF e
<1>2. Full(e)
  BY <1>1 DEF Full, FullBut, Holds
<1>. QED
  BY <1>2 DEF e

\* Statements on values, and on columns of loops that are not keys, change no
\* loop and no item.
LEMMA OtherStatements ==
    ASSUME NEW d \in Database, Full(d), NEW c, NEW n, NEW x, NEW y
    PROVE  /\ Full(DeletePacket(d, c, n, x))
           /\ Full(InsertPacket(d, c, x, n))
           /\ Full(ReplacePacket(d, c, x, n))
           /\ Full(SetAllValues(d, c, x, y))
           /\ Full(UpdateCategory(d, c, n, x))
           /\ Full(IncrementPacketNum(d, c, n))
           /\ Full(ResetPacketNum(d, c, n))
           /\ Full(InsertContainer(d))
           /\ Full(InsertBlock(d, c, x))
           /\ Full(InsertFrame(d, c, n, x))
<1>1. Full(DeletePacket(d, c, n, x)) /\ Full(InsertPacket(d, c, x, n))
  BY DEF Full, FullBut, Database, DeletePacket, InsertPacket
<1>2. Full(ReplacePacket(d, c, x, n)) /\ Full(SetAllValues(d, c, x, y))
  BY DEF Full, FullBut, Database, ReplacePacket, SetAllValues
<1> DEFINE in(r) == r.container_id = c /\ r.loop_num = n
           f1 == [r \in d.loop |-> IF in(r) THEN [r EXCEPT !.category = x] ELSE r]
           f2 == [r \in d.loop |-> IF in(r) THEN [r EXCEPT !.last_row_num = @ + 1] ELSE r]
           f3 == [r \in d.loop |-> IF in(r) THEN [r EXCEPT !.last_row_num = 0] ELSE r]
           keys(f) == \A r \in d.loop : /\ f[r].container_id = r.container_id
                                        /\ f[r].loop_num = r.loop_num
<1>3. keys(f1) /\ keys(f2) /\ keys(f3)
  BY DEF Database, LoopRow
<1>4. /\ UpdateCategory(d, c, n, x) = [d EXCEPT !.loop = {f1[r] : r \in d.loop}]
      /\ IncrementPacketNum(d, c, n) = [d EXCEPT !.loop = {f2[r] : r \in d.loop}]
      /\ ResetPacketNum(d, c, n) = [d EXCEPT !.loop = {f3[r] : r \in d.loop}]
  BY DEF UpdateCategory, IncrementPacketNum, ResetPacketNum
<1> HIDE DEF f1, f2, f3
<1>5. Full(UpdateCategory(d, c, n, x))
  BY <1>3, <1>4, UpdateLoopsFull
<1>6. Full(IncrementPacketNum(d, c, n))
  BY <1>3, <1>4, UpdateLoopsFull
<1>7. Full(ResetPacketNum(d, c, n))
  BY <1>3, <1>4, UpdateLoopsFull
<1>8. Full(InsertContainer(d)) /\ Full(InsertBlock(d, c, x)) /\ Full(InsertFrame(d, c, n, x))
  BY DEF Full, FullBut, Database, InsertContainer, InsertBlock, InsertFrame
<1>. QED
  BY <1>1, <1>2, <1>5, <1>6, <1>7, <1>8

\* Loops go with their own items only.
LEMMA DeleteLoopsFull ==
    ASSUME NEW d, Sound(d), Full(d), NEW S, S \subseteq d.loop
    PROVE  Full(DeleteLoops(d, S))
<1> DEFINE gone == {i \in d.loop_item : \E r \in S : /\ r.container_id = i.container_id
                                                     /\ r.loop_num = i.loop_num}
           e    == DeleteLoops(d, S)
<1>1. e.loop = d.loop \ S /\ e.loop_item = d.loop_item \ gone
  BY DEF Sound, Database, DeleteLoops, DeleteItems
<1>2. ASSUME NEW r \in d.loop, r \notin S, NEW i \in d.loop_item, Holds(i, r)
      PROVE  i \notin gone
  BY <1>2 DEF Sound, Keys, LoopKeys, Holds
<1> HIDE DEF gone, e
<1>3. Full(e)
  BY <1>1, <1>2 DEF Full, FullBut
<1>. QED
  BY <1>3 DEF e

\* Containers, unused loops and single loops are deleted as sets of loops.
LEMMA DeletionsFull ==
    ASSUME NEW d, Sound(d), Full(d), NEW c, NEW n
    PROVE  /\ Full(DeleteContainer(d, c))
           /\ Full(Prune(d, c))
           /\ Full(DeleteLoop(d, c, n))
<1>1. Full(Prune(d, c)) /\ Full(DeleteLoop(d, c, n))
  BY DeleteLoopsFull DEF Prune, DeleteLoop
<1>2. Full(DeleteContainer(d, c))
  <2> DEFINE S == {r \in d.loop : r.container_id = c}
             e == DeleteLoops(d, S)
  <2>1. Full(e) /\ e \in Database
    BY DeleteLoopsFull, DeleteLoopsSound DEF Sound
  <2>2. DeleteContainer(d, c) =
          [e EXCEPT !.container  = {r \in @ : r.id # c},
                    !.data_block = {b \in @ : b.container_id # c},
                    !.save_frame = {f \in @ : f.container_id # c /\ f.parent_id # c}]
    BY DEF DeleteContainer
  <2> HIDE DEF e
  <2>. QED
    BY <2>1, <2>2 DEF Full, FullBut, Database
<1>. QED
  BY <1>1, <1>2

\* Items in a loop make it full, whatever it was.
LEMMA InsertItemsFull ==
    ASSUME NEW d, d \in Database, NEW c, NEW n, NEW names, names # {}, NEW S,
           FullBut(d, S), \A r \in S : r.container_id = c /\ r.loop_num = n
    PROVE  Full(InsertItems(d, c, names, n))
<1> DEFINE e == InsertItems(d, c, names, n)
<1>1. /\ e.loop = d.loop
      /\ e.loop_item = d.loop_item \cup
            {[container_id |-> c, name |-> nm, loop_num |-> n] : nm \in names}
  BY DEF Database, InsertItems
<1>2. \E i \in e.loop_item : i.container_id = c /\ i.loop_num = n
  <2>1. PICK nm \in names : TRUE
    OBVIOUS
  <2> DEFINE i == [container_id |-> c, name |-> nm, loop_num |-> n]
  <2>2. i \in e.loop_item /\ i.container_id = c /\ i.loop_num = n
    BY <1>1
  <2>. QED
    BY <2>2
<1>3. \A i \in d.loop_item : i \in e.loop_item
  BY <1>1
<1> HIDE DEF e
<1>4. Full(e)
  BY <1>1, <1>2, <1>3 DEF Full, FullBut, Holds
<1>. QED
  BY <1>4 DEF e

-----------------------------------------------------------------------------
(* The internal functions. *)

\* A new loop is the only one without items, until it gets its own.
LEMMA InsertLoopFullBut ==
    ASSUME NEW d, Sound(d), Full(d), NEW c, ContainerExists(d, c), NEW cat \in AnyCategory
    PROVE  FullBut(InsertLoop(d, c, cat),
                   {[container_id |-> c, loop_num |-> NextLoopNum(d, c),
                     category |-> cat, last_row_num |-> 0]})
BY InsertLoopSound DEF Full, FullBut

\* create_loop_internal with names
LEMMA CreateLoopFull ==
    ASSUME NEW d, Sound(d), Full(d), NEW c, NEW cat \in AnyCategory,
           NEW nn, Names(nn) \subseteq ItemName, Names(nn) # {}
    PROVE  Full(CreateLoopInternal(d, c, cat, nn).db)
<1> DEFINE d1  == InsertLoop(d, c, cat)
           row == [container_id |-> c, loop_num |-> NextLoopNum(d, c),
                   category |-> cat, last_row_num |-> 0]
           r   == CreateLoopInternal(d, c, cat, nn)
<1>1. CASE ContainerExists(d, c)
  <2>1. Sound(d1) /\ FullBut(d1, {row})
    BY <1>1, InsertLoopSound, InsertLoopFullBut
  <2>2. MaxLoopNumOf(d1, c) = NextLoopNum(d, c)
    BY <1>1, MaxLoopNumIsNew
  <2>3. \A x \in {row} : x.container_id = c /\ x.loop_num = NextLoopNum(d, c)
    OBVIOUS
  <2>4. r.db \in {d, InsertItems(d1, c, Names(nn), MaxLoopNumOf(d1, c))}
    BY DEF CreateLoopInternal, Atomically, Result
  <2> HIDE DEF d1, row, r
  <2>5. Full(InsertItems(d1, c, Names(nn), NextLoopNum(d, c)))
    BY <2>1, <2>3, InsertItemsFull DEF Sound
  <2>6. Full(r.db)
    BY <2>2, <2>4, <2>5
  <2>. QED
    BY <2>6 DEF r
<1>2. CASE ~ ContainerExists(d, c)
  BY <1>2 DEF CreateLoopInternal, Atomically, Result
<1>. QED
  BY <1>1, <1>2

\* cif_loop_add_item_internal fills the loop it adds to.
LEMMA AddItemFull ==
    ASSUME NEW d, Sound(d), NEW c \in Nat, NEW n, NEW nm \in ItemName, NEW val \in Value,
           NEW S, FullBut(d, S), \A r \in S : r.container_id = c /\ r.loop_num = n,
           AddItemInternal(d, c, n, nm, val).rc = "CIF_OK"
    PROVE  Full(AddItemInternal(d, c, n, nm, val).db)
<1> DEFINE d1 == InsertItems(d, c, {nm}, n)
<1>1. /\ AddItemInternal(d, c, n, nm, val).db = SetAllValues(d1, c, nm, val)
      /\ CanInsertItem(d, c, nm, n)
  BY DEF AddItemInternal, Atomically, Result
<1>2. Full(d1)
  BY InsertItemsFull DEF Sound
<1>3. Sound(d1)
  BY <1>1, InsertItemsSound DEF CanInsertItem
<1> HIDE DEF d1
<1>4. Full(SetAllValues(d1, c, nm, val))
  BY <1>2, <1>3, OtherStatements DEF Sound
<1>. QED
  BY <1>1, <1>4

\* cif_loop_add_packet
LEMMA AddPacketFull ==
    ASSUME NEW d, Sound(d), Full(d), NEW c, NEW n, NEW pkt
    PROVE  Full(AddPacketInternal(d, c, n, pkt).db)
<1> DEFINE d1 == IncrementPacketNum(d, c, n)
<1>1. Sound(d1) /\ Full(d1)
  BY IncrementPacketNumSound, OtherStatements DEF Sound
<1>2. AddPacketInternal(d, c, n, pkt).db \in {d, InsertPacket(d1, c, pkt, PacketNum(d1, c, n))}
  BY DEF AddPacketInternal, Atomically, Result
<1> HIDE DEF d1
<1>3. Full(InsertPacket(d1, c, pkt, PacketNum(d1, c, n)))
  BY <1>1, OtherStatements DEF Sound
<1>. QED
  BY <1>2, <1>3

\* The scalar loop as cif_container_add_scalar makes it, without items: the one
\* that is then looked up.
LEMMA NewScalarLoop ==
    ASSUME NEW d, Sound(d), Full(d), NEW c, CategoryLoops(d, c, Scalars) = {},
           CreateLoopInternal(d, c, Scalars, <<>>).rc = "CIF_OK"
    PROVE  LET e == CreateLoopInternal(d, c, Scalars, <<>>).db
           IN  \E row : /\ CategoryLoops(e, c, Scalars) = {row} /\ row.container_id = c
                        /\ FullBut(e, {row})
<1> DEFINE e   == CreateLoopInternal(d, c, Scalars, <<>>).db
           d1  == InsertLoop(d, c, Scalars)
           d2  == InsertItems(d1, c, Names(<<>>), MaxLoopNumOf(d1, c))
           row == [container_id |-> c, loop_num |-> NextLoopNum(d, c),
                   category |-> Scalars, last_row_num |-> 0]
<1>1. ContainerExists(d, c) /\ e = d2
  BY DEF CreateLoopInternal, Atomically, Result
<1>2. Scalars \in AnyCategory /\ Names(<<>>) = {}
  BY DEF AnyCategory, Names
<1>3. Sound(d1) /\ d1.loop = d.loop \cup {row} /\ FullBut(d1, {row})
  BY <1>1, <1>2, InsertLoopSound, InsertLoopFullBut
<1>4. row.container_id = c /\ row.category = Scalars
  OBVIOUS
<1> HIDE DEF d1, row, e
<1>5. d2.loop = d1.loop /\ d2.loop_item = d1.loop_item
  BY <1>2, <1>3 DEF InsertItems, Sound, Database
<1> HIDE DEF d2
<1>6. CategoryLoops(e, c, Scalars) = {row}
  BY <1>1, <1>3, <1>4, <1>5 DEF CategoryLoops
<1>7. FullBut(e, {row})
  BY <1>1, <1>3, <1>5 DEF FullBut
<1>8. \E x : /\ CategoryLoops(e, c, Scalars) = {x} /\ x.container_id = c /\ FullBut(e, {x})
  BY <1>4, <1>6, <1>7
<1>. QED
  BY <1>8 DEF e

\* cif_container_add_scalar, when it succeeds
LEMMA AddScalarFull ==
    ASSUME NEW d, Sound(d), Full(d), NEW c, NEW nm \in ItemName, NEW val \in Value,
           AddScalar(d, c, nm, val).rc = "CIF_OK"
    PROVE  Full(AddScalar(d, c, nm, val).db)
<1> DEFINE r1 == IF CategoryLoops(d, c, Scalars) = {}
                 THEN CreateLoopInternal(d, c, Scalars, <<>>)
                 ELSE Result(d, "CIF_OK")
           n  == (CHOOSE r \in CategoryLoops(r1.db, c, Scalars) : TRUE).loop_num
           r2 == AddItemInternal(r1.db, c, n, nm, val)
           r3 == AddPacketInternal(r2.db, c, n, [x \in {nm} |-> val])
<1>1. Names(<<>>) \subseteq ItemName /\ Scalars \in AnyCategory
  BY DEF Names, AnyCategory
<1>2. r1.rc = "CIF_OK" /\ r2.rc = "CIF_OK" /\ AddScalar(d, c, nm, val) \in {r2, r3}
  <2> HIDE DEF r1, n, r2, r3
  <2>. QED
    BY DEF AddScalar, r1, n, r2, r3
<1>3. Sound(r1.db) /\ c \in Nat
  <2>1. CategoryLoops(d, c, Scalars) # {} => c \in Nat
    BY DEF CategoryLoops, Sound, Database, LoopRow
  <2>. QED
    BY <1>1, <1>2, <2>1, CreateLoopInternalSound DEF Result
<1>4. \E S : FullBut(r1.db, S) /\ \A r \in S : r.container_id = c /\ r.loop_num = n
  <2>1. CASE CategoryLoops(d, c, Scalars) = {}
    <3>1. /\ r1 = CreateLoopInternal(d, c, Scalars, <<>>) /\ r1.rc = "CIF_OK"
      BY <1>2, <2>1
    <3> HIDE DEF r1, n
    <3>2. PICK row : /\ CategoryLoops(r1.db, c, Scalars) = {row} /\ row.container_id = c
                     /\ FullBut(r1.db, {row})
      BY <2>1, <3>1, NewScalarLoop
    <3> USE DEF n
    <3>3. row.loop_num = n
      BY <3>2
    <3> HIDE DEF n
    <3>. QED
      BY <3>2, <3>3
  <2>2. CASE CategoryLoops(d, c, Scalars) # {}
    <3>1. FullBut(r1.db, {})
      BY <2>2 DEF Result, Full
    <3>. QED
      BY <3>1
  <2>. QED
    BY <2>1, <2>2
<1> HIDE DEF r1, n
<1>5. Full(r2.db)
  BY <1>2, <1>3, <1>4, AddItemFull
<1>6. Sound(r2.db)
  BY <1>3, AddItemInternalSound
<1> HIDE DEF r2
<1>7. Full(r3.db)
  BY <1>5, <1>6, AddPacketFull
<1> HIDE DEF r3
<1>. QED
  BY <1>2, <1>5, <1>7

\* The body of cif_container_set_value
LEMMA SetValueFull ==
    ASSUME NEW d, Sound(d), Full(d), NEW c, NEW nm \in ItemName, NEW val \in Value,
           SetValueInternal(d, c, nm, val).rc = "CIF_OK"
    PROVE  Full(SetValueInternal(d, c, nm, val).db)
<1>1. CASE ItemLoops(d, c, nm) = {}
  BY <1>1, AddScalarFull DEF SetValueInternal
<1>2. CASE ItemLoops(d, c, nm) # {}
  BY <1>2, OtherStatements DEF SetValueInternal, Result, Sound
<1>. QED
  BY <1>1, <1>2

\* The body of cif_container_remove_item: the item has a peer, or its loop goes.
LEMMA RemoveItemFull ==
    ASSUME NEW d, Sound(d), Full(d), NEW c, NEW nm
    PROVE  Full(RemoveItemInternal(d, c, nm).db)
<1> DEFINE peers == UNION {LoopItems(d, c, r.loop_num) : r \in ItemLoops(d, c, nm)}
           gone  == {i \in d.loop_item : i.container_id = c /\ i.name = nm}
           e     == DeleteItem(d, c, nm)
<1>1. Full(DeleteLoops(d, ItemLoops(d, c, nm)))
  BY DeleteLoopsFull DEF ItemLoops
<1>2. ASSUME peers # {}, Cardinality(peers) # 1
      PROVE  Full(e)
  <2>1. e.loop = d.loop /\ e.loop_item = d.loop_item \ gone
    BY DEF DeleteItem, DeleteItems, Sound, Database
  <2>2. ASSUME NEW r \in d.loop
        PROVE  \E i \in d.loop_item \ gone : Holds(i, r)
    <3>1. PICK i \in d.loop_item : Holds(i, r)
      BY DEF Full, FullBut
    <3>2. CASE i \notin gone
      BY <3>1, <3>2
    <3>3. CASE i \in gone
      <4>1. r \in ItemLoops(d, c, nm) /\ i \in LoopItems(d, c, r.loop_num)
        BY <3>1, <3>3 DEF ItemLoops, LoopItems, Holds
      <4>2. \A x \in ItemLoops(d, c, nm) : x = r
        <5> SUFFICES ASSUME NEW x \in ItemLoops(d, c, nm) PROVE x = r
          OBVIOUS
        <5>1. x \in d.loop /\ x.container_id = c
          BY DEF ItemLoops
        <5>2. PICK j \in LoopItems(d, c, x.loop_num) : j.name = nm
          BY DEF ItemLoops
        <5>3. j = i
          BY <3>3, <5>2 DEF LoopItems, Sound, Keys, ItemKeys
        <5>. QED
          BY <3>1, <3>3, <5>1, <5>2, <5>3 DEF LoopItems, Holds, Sound, Keys, LoopKeys
      <4>3. peers = LoopItems(d, c, r.loop_num)
        BY <4>1, <4>2
      <4>4. peers # {i}
        BY <1>2, FS_Singleton
      <4>5. PICK j \in peers : j # i
        BY <4>1, <4>3, <4>4
      <4>6. j \notin gone /\ j \in d.loop_item /\ Holds(j, r)
        BY <3>1, <3>3, <4>3, <4>5 DEF LoopItems, Holds, Sound, Keys, ItemKeys
      <4>. QED
        BY <4>6
    <3>. QED
      BY <3>2, <3>3
  <2> HIDE DEF e, gone
  <2>. QED
    BY <2>1, <2>2 DEF Full, FullBut
<1>. QED
  BY <1>1, <1>2 DEF RemoveItemInternal, Result

-----------------------------------------------------------------------------
(* The steps. *)

\* A transaction keeps what succeeded, or what there was.
LEMMA TransactionFull ==
    ASSUME NEW d, Full(d), NEW r, r.rc = "CIF_OK" => Full(r.db)
    PROVE  Full(Atomically(d, r).db) /\ Full(TopLevel(d, r).db)
BY DEF Atomically, TopLevel, Result

\* cif.c and container.c: blocks and frames
LEMMA BlocksAndFramesFull ==
    ASSUME LoopInv, NEW c, NEW sp \in CodeSpelling,
           CreateBlock(sp) \/ GetBlock(sp) \/ CreateFrame(c, sp) \/ GetFrame(c, sp)
    PROVE  Full(db') /\ Full(saved')
<1> DEFINE d1 == InsertContainer(db)
           id == NewContainerId(db)
           d2 == InsertBlock(d1, id, NormCode[sp])
           d3 == InsertFrame(d1, id, c, NormCode[sp])
<1>1. db \in Database /\ d1 \in Database
  BY InsertContainerSound DEF LoopInv, Inv, Sound
<1>2. Full(d1)
  BY <1>1, OtherStatements DEF LoopInv
<1>3. db' \in {db, d2, d3} /\ saved' = saved
  BY DEF CreateBlock, CreateFrame, CreateContainer, GetBlock, GetFrame, TopLevel, Atomically,
         Result
<1> HIDE DEF d1, id
<1>4. Full(d2) /\ Full(d3)
  BY <1>1, <1>2, OtherStatements
<1>. QED
  BY <1>3, <1>4 DEF LoopInv

\* container.c: every other call made through a container handle
LEMMA ContainerCallFull ==
    ASSUME LoopInv, NEW c \in Ids, ContainerCall(c)
    PROVE  Full(db') /\ Full(saved')
<1>. Sound(db) /\ Full(db) /\ Full(saved) /\ db \in Database
  BY DEF LoopInv, Inv, Sound
<1>1. ASSUME NEW sp \in CodeSpelling, CreateFrame(c, sp) \/ GetFrame(c, sp)
      PROVE  Full(db') /\ Full(saved')
  BY <1>1, BlocksAndFramesFull
<1>2. CASE DestroyContainer(c) \/ PruneContainer(c)
  BY <1>2, DeletionsFull DEF DestroyContainer, PruneContainer
<1>3. ASSUME \/ \E s \in Slot : GetAllLoops(c, s)
             \/ \E s \in Slot, cat \in AnyCategory : GetCategoryLoop(c, cat, s)
             \/ \E s \in Slot, sp \in ItemSpelling : GetItemLoop(c, sp, s)
             \/ \E sp \in ItemSpelling : GetValue(c, sp)
      PROVE  Full(db') /\ Full(saved')
  BY <1>3 DEF GetAllLoops, GetCategoryLoop, GetItemLoop, GetLoop, GetValue
<1>4. ASSUME NEW s \in Slot, NEW cat \in LoopCategory, NEW names \in NameLists,
             CreateLoop(c, cat, names, s)
      PROVE  Full(db') /\ Full(saved')
  <2> DEFINE nn == [i \in DOMAIN names |-> NormItem[names[i]]]
  <2>1. names \in Seq(ItemSpelling) /\ cat \in AnyCategory
    BY ArgumentAssumption
  <2>2. ASSUME names # <<>>, Invalid \notin Names(nn)
        PROVE  Names(nn) \subseteq ItemName /\ Names(nn) # {}
    <3>1. \A i \in DOMAIN nn : nn[i] \in ItemName \cup {Invalid}
      BY <2>1, NormAssumption
    <3>2. 1 \in DOMAIN nn
      BY <2>1, <2>2
    <3> HIDE DEF nn
    <3>. QED
      BY <2>2, <3>1, <3>2 DEF Names
  <2>3. /\ \/ db' = db
           \/ /\ names # <<>> /\ Invalid \notin Names(nn)
              /\ db' = CreateLoopInternal(db, c, cat, nn).db
        /\ saved' = saved
    BY <1>4 DEF CreateLoop, Result
  <2> HIDE DEF nn
  <2>. QED
    BY <2>1, <2>2, <2>3, CreateLoopFull
<1>5. ASSUME NEW sp \in ItemSpelling, NEW val \in Value, SetValue(c, sp, val)
      PROVE  Full(db') /\ Full(saved')
  <2> DEFINE nm == NormItem[sp]
             r  == SetValueInternal(db, c, nm, val)
  <2>1. nm # Invalid => nm \in ItemName
    BY NormAssumption
  <2>2. nm # Invalid /\ r.rc = "CIF_OK" => Full(r.db)
    BY <2>1, SetValueFull
  <2>3. (db' = db \/ (nm # Invalid /\ db' = TopLevel(db, r).db)) /\ saved' = saved
    BY <1>5 DEF SetValue, Result
  <2> HIDE DEF r
  <2>. QED
    BY <2>2, <2>3, TransactionFull
<1>6. ASSUME NEW sp \in ItemSpelling, RemoveItem(c, sp)
      PROVE  Full(db') /\ Full(saved')
  <2> DEFINE r == RemoveItemInternal(db, c, NormItem[sp])
  <2>1. Full(r.db)
    BY RemoveItemFull
  <2>2. (db' = db \/ db' = TopLevel(db, r).db) /\ saved' = saved
    BY <1>6 DEF RemoveItem, Result
  <2> HIDE DEF r
  <2>. QED
    BY <2>1, <2>2, TransactionFull
<1>. QED
  BY <1>1, <1>2, <1>3, <1>4, <1>5, <1>6 DEF ContainerCall

\* loop.c: every call made through a loop handle
LEMMA LoopCallFull ==
    ASSUME LoopInv, NEW s \in DOMAIN lh, LoopCall(s)
    PROVE  Full(db') /\ Full(saved')
<1>. Sound(db) /\ Full(db) /\ Full(saved) /\ db \in Database
  BY DEF LoopInv, Inv, Sound
<1> DEFINE c == lh[s].container_id
           n == lh[s].loop_num
<1>1. CASE LoopFree(s) \/ LoopGetNames(s) \/ LoopDestroy(s) \/ LoopGetPackets(s)
  BY <1>1, DeletionsFull DEF LoopFree, LoopGetNames, LoopDestroy, LoopGetPackets
<1>2. ASSUME NEW cat \in NewCategory, LoopSetCategory(s, cat)
      PROVE  Full(db') /\ Full(saved')
  BY <1>2, OtherStatements DEF LoopSetCategory
<1>3. ASSUME NEW sp \in ItemSpelling, NEW val \in Value, LoopAddItem(s, sp, val)
      PROVE  Full(db') /\ Full(saved')
  <2> DEFINE nm == NormItem[sp]
             r  == AddItemInternal(db, c, n, nm, val)
  <2>1. c \in Nat /\ (nm # Invalid => nm \in ItemName)
    BY NormAssumption DEF LoopInv, Inv, TypeOK, LoopRef
  <2>2. nm # Invalid /\ r.rc = "CIF_OK" => Full(r.db)
    <3>1. FullBut(db, {})
      BY DEF Full
    <3>. QED
      BY <2>1, <3>1, AddItemFull
  <2>3. r.rc # "CIF_OK" => r.db = db
    BY DEF AddItemInternal, Atomically, Result
  <2>4. (db' = db \/ (nm # Invalid /\ db' = r.db)) /\ saved' = saved
    BY <1>3 DEF LoopAddItem, Result
  <2> HIDE DEF r
  <2>. QED
    BY <2>2, <2>3, <2>4
<1>4. ASSUME NEW pkt \in Packets, LoopAddPacket(s, pkt)
      PROVE  Full(db') /\ Full(saved')
  BY <1>4, AddPacketFull DEF LoopAddPacket
<1>. QED
  BY <1>1, <1>2, <1>3, <1>4 DEF LoopCall

\* pktitr.c: every call made through an iterator
LEMMA IteratorCallFull ==
    ASSUME LoopInv, NEW it \in iters, IteratorCall(it)
    PROVE  Full(db') /\ Full(saved')
<1>. Sound(db) /\ Full(db) /\ Full(saved) /\ db \in Database
  BY DEF LoopInv, Inv, Sound
<1> DEFINE c   == lh[it.slot].container_id
           n   == lh[it.slot].loop_num
           row == it.previous_row_num
<1>1. CASE NextPacket(it)
  BY <1>1 DEF NextPacket
<1>2. ASSUME NEW pkt \in Packets, UpdatePacket(it, pkt)
      PROVE  Full(db') /\ Full(saved')
  <2>1. Full(ReplacePacket(db, c, pkt, row))
    BY OtherStatements
  <2>2. db' \in {db, ReplacePacket(db, c, pkt, row)} /\ saved' = saved
    BY <1>2 DEF UpdatePacket, Atomically, Result
  <2>. QED
    BY <2>1, <2>2
<1>3. CASE RemovePacket(it)
  <2> DEFINE d1 == DeletePacket(db, c, n, row)
             d2 == ResetPacketNum(d1, c, n)
  <2>1. Full(d1) /\ d1 \in Database
    BY DeletePacketSound, OtherStatements DEF Sound
  <2>2. db' \in {db, d1, d2} /\ saved' = saved
    BY <1>3 DEF RemovePacket
  <2> HIDE DEF d1
  <2>3. Full(d2)
    BY <2>1, OtherStatements
  <2>. QED
    BY <2>1, <2>2, <2>3
<1>4. CASE CloseIterator(it) \/ AbortIterator(it)
  <2>1. saved' = EmptyDatabase /\ db' \in {db, saved}
    BY <1>4 DEF CloseIterator, AbortIterator, Release
  <2>. QED
    BY <2>1 DEF Full, FullBut, EmptyDatabase
<1>. QED
  BY <1>1, <1>2, <1>3, <1>4 DEF IteratorCall

\* Every step leaves loops with items, in the tables and in what is restored.
LEMMA NextLoopInv == LoopInv /\ [Next]_vars => LoopInv'
<1>. SUFFICES ASSUME LoopInv, [Next]_vars PROVE LoopInv'
  OBVIOUS
<1>1. Inv'
  BY NextInv DEF LoopInv
<1>2. CASE UNCHANGED vars
  BY <1>1, <1>2 DEF vars, LoopInv
<1>3. CASE BlockCall
  BY <1>1, <1>3, BlocksAndFramesFull DEF BlockCall, LoopInv
<1>4. ASSUME NEW c \in Ids, ContainerCall(c) PROVE LoopInv'
  BY <1>1, <1>4, ContainerCallFull DEF LoopInv
<1>5. ASSUME NEW s \in DOMAIN lh, LoopCall(s) PROVE LoopInv'
  BY <1>1, <1>5, LoopCallFull DEF LoopInv
<1>6. ASSUME NEW it \in iters, IteratorCall(it) PROVE LoopInv'
  BY <1>1, <1>6, IteratorCallFull DEF LoopInv
<1>. QED
  BY <1>2, <1>3, <1>4, <1>5, <1>6 DEF Next

-----------------------------------------------------------------------------
(* The theorem. *)

\* No loop is ever left without items between calls, whichever calls made the
\* loop or removed its items, and whatever was rolled back: a loop is written
\* with at least one name, and pruning finds every loop by its items.
THEOREM LoopsHaveItems == Spec => []NoLoopWithoutItems
<1>1. Init => LoopInv
  BY InitInv DEF Init, LoopInv, Full, FullBut, EmptyDatabase
<1>2. LoopInv => NoLoopWithoutItems
  BY DEF LoopInv, Full, FullBut, Holds, NoLoopWithoutItems, LoopItems
<1>. QED
  BY <1>1, <1>2, NextLoopInv, PTL DEF Spec

-----------------------------------------------------------------------------
(* What an iterator has before it. *)

\* The loop is as it was, but for its category and a packet count that may have
\* advanced.
Undisturbed(d, e, c, n) ==
    /\ LoopNames(e, c, n) = LoopNames(d, c, n)
    /\ LoopValues(e, c, n) = LoopValues(d, c, n)
    /\ \A r \in e.loop : Denotes(r, c, n) =>
          \E r0 \in d.loop : Denotes(r0, c, n) /\ r0.last_row_num = r.last_row_num

\* What is inductive
IterationInv == LoopHandleInv /\ IterationCurrent

\* The queries, row by row
LEMMA LoopQueries ==
    ASSUME NEW d, NEW c, NEW n
    PROVE  /\ \A nm : nm \in LoopNames(d, c, n) <=>
                 \E i \in d.loop_item : i.container_id = c /\ i.loop_num = n /\ i.name = nm
           /\ \A v : v \in LoopValues(d, c, n) <=>
                 /\ v \in d.item_value /\ v.container_id = c
                 /\ v.name \in LoopNames(d, c, n)
BY DEF LoopNames, LoopItems, LoopValues

\* A name is in one loop at most.
LEMMA OneLoopPerName ==
    ASSUME NEW d, Sound(d), NEW c, NEW n1, NEW n2, NEW nm,
           nm \in LoopNames(d, c, n1), nm \in LoopNames(d, c, n2)
    PROVE  n1 = n2
<1>1. PICK i1 \in d.loop_item : i1.container_id = c /\ i1.loop_num = n1 /\ i1.name = nm
  BY LoopQueries
<1>2. PICK i2 \in d.loop_item : i2.container_id = c /\ i2.loop_num = n2 /\ i2.name = nm
  BY LoopQueries
<1>. QED
  BY <1>1, <1>2 DEF Sound, Keys, ItemKeys

\* One statement after another
LEMMA UndisturbedTransitive ==
    ASSUME NEW d, NEW e, NEW f, NEW c, NEW n,
           Undisturbed(d, e, c, n), Undisturbed(e, f, c, n)
    PROVE  Undisturbed(d, f, c, n)
<1>1. ASSUME NEW r \in f.loop, Denotes(r, c, n)
      PROVE  \E r0 \in d.loop : Denotes(r0, c, n) /\ r0.last_row_num = r.last_row_num
  <2>1. PICK r1 \in e.loop : Denotes(r1, c, n) /\ r1.last_row_num = r.last_row_num
    BY <1>1 DEF Undisturbed
  <2>. QED
    BY <2>1 DEF Undisturbed
<1>. QED
  BY <1>1 DEF Undisturbed

\* Tables that have the same items and values
LEMMA SameItemsUndisturbed ==
    ASSUME NEW d, NEW e, NEW c, NEW n,
           e.loop_item = d.loop_item, e.item_value = d.item_value,
           \A r \in e.loop : Denotes(r, c, n) =>
              \E r0 \in d.loop : Denotes(r0, c, n) /\ r0.last_row_num = r.last_row_num
    PROVE  Undisturbed(d, e, c, n)
BY DEF Undisturbed, LoopNames, LoopItems, LoopValues

\* The deletion of items of other loops
LEMMA DeleteItemsUndisturbed ==
    ASSUME NEW d, Sound(d), NEW S, S \subseteq d.loop_item, NEW c, NEW n,
           \A i \in S : ~ (i.container_id = c /\ i.loop_num = n)
    PROVE  Undisturbed(d, DeleteItems(d, S), c, n)
<1> DEFINE e == DeleteItems(d, S)
<1>1. /\ e.loop = d.loop /\ e.loop_item = d.loop_item \ S
      /\ e.item_value = {v \in d.item_value :
                           ~ \E i \in S : /\ i.container_id = v.container_id
                                          /\ i.name = v.name}
  BY DEF DeleteItems, Sound, Database
<1> HIDE DEF e
<1>2. LoopNames(e, c, n) = LoopNames(d, c, n)
  BY <1>1 DEF LoopNames, LoopItems
<1>3. ASSUME NEW v \in LoopValues(d, c, n)
      PROVE  v \in e.item_value
  <2>1. v \in d.item_value /\ v.container_id = c
    BY LoopQueries
  <2>2. PICK i \in d.loop_item : i.container_id = c /\ i.loop_num = n /\ i.name = v.name
    BY LoopQueries
  <2>3. \A i1 \in S : i1.container_id = c /\ i1.name = v.name => i1 = i
    BY <2>2 DEF Sound, Keys, ItemKeys
  <2>. QED
    BY <1>1, <2>1, <2>2, <2>3
<1>4. LoopValues(e, c, n) = LoopValues(d, c, n)
  BY <1>1, <1>2, <1>3 DEF LoopValues
<1>5. Undisturbed(d, e, c, n)
  BY <1>1, <1>2, <1>4 DEF Undisturbed
<1>. QED
  BY <1>5 DEF e

\* The deletion of other loops, with their items
LEMMA DeleteLoopsUndisturbed ==
    ASSUME NEW d, Sound(d), NEW S, NEW c, NEW n, \A r \in S : ~ Denotes(r, c, n)
    PROVE  Undisturbed(d, DeleteLoops(d, S), c, n)
<1> DEFINE I  == {i \in d.loop_item : \E r \in S : /\ r.container_id = i.container_id
                                                   /\ r.loop_num = i.loop_num}
           d1 == DeleteItems(d, I)
           e  == DeleteLoops(d, S)
<1>1. Undisturbed(d, d1, c, n)
  BY DeleteItemsUndisturbed DEF Denotes
<1>2. e = [d1 EXCEPT !.loop = @ \ S] /\ d1 \in Database
  BY DeleteItemsSound DEF DeleteLoops, Sound
<1> HIDE DEF d1, e
<1>3. e.loop = d1.loop \ S /\ e.loop_item = d1.loop_item /\ e.item_value = d1.item_value
  BY <1>2 DEF Database
<1>4. Undisturbed(d1, e, c, n)
  BY <1>3, SameItemsUndisturbed
<1>5. Undisturbed(d, e, c, n)
  BY <1>1, <1>4, UndisturbedTransitive
<1>. QED
  BY <1>5 DEF e

\* Items added to another loop
LEMMA InsertItemsUndisturbed ==
    ASSUME NEW d, Sound(d), NEW c1, NEW n1, NEW names, NEW c, NEW n,
           ~ (c1 = c /\ n1 = n)
    PROVE  Undisturbed(d, InsertItems(d, c1, names, n1), c, n)
<1> DEFINE e   == InsertItems(d, c1, names, n1)
           new == {[container_id |-> c1, name |-> nm, loop_num |-> n1] : nm \in names}
<1>1. /\ e.loop = d.loop /\ e.item_value = d.item_value
      /\ e.loop_item = d.loop_item \cup new
  BY DEF InsertItems, Sound, Database
<1>2. \A i \in new : i.container_id = c1 /\ i.loop_num = n1
  OBVIOUS
<1> HIDE DEF e, new
<1>3. LoopNames(e, c, n) = LoopNames(d, c, n)
  BY <1>1, <1>2 DEF LoopNames, LoopItems
<1>4. Undisturbed(d, e, c, n)
  BY <1>1, <1>3 DEF Undisturbed, LoopValues
<1>. QED
  BY <1>4 DEF e

\* Other values for names that the loop has not
LEMMA ValuesUndisturbed ==
    ASSUME NEW d, Sound(d), NEW e, e.loop = d.loop, e.loop_item = d.loop_item,
           NEW c, NEW n,
           \A v \in e.item_value : v \in d.item_value \/ ~ (/\ v.container_id = c
                                                            /\ v.name \in LoopNames(d, c, n)),
           \A v \in d.item_value : v \in e.item_value \/ ~ (/\ v.container_id = c
                                                            /\ v.name \in LoopNames(d, c, n))
    PROVE  Undisturbed(d, e, c, n)
<1>1. LoopNames(e, c, n) = LoopNames(d, c, n)
  BY DEF LoopNames, LoopItems
<1>2. \A v : v \in LoopValues(e, c, n) <=> v \in LoopValues(d, c, n)
  BY <1>1, LoopQueries
<1>3. LoopValues(e, c, n) = LoopValues(d, c, n)
  BY <1>2 DEF LoopValues
<1>. QED
  BY <1>1, <1>3 DEF Undisturbed

\* Updates of the loops' other columns
LEMMA UpdateUndisturbed ==
    ASSUME NEW d, Sound(d), NEW c, NEW n, NEW f,
           \A r \in d.loop : /\ f[r].container_id = r.container_id
                             /\ f[r].loop_num = r.loop_num
                             /\ Denotes(r, c, n) => f[r].last_row_num = r.last_row_num
    PROVE  Undisturbed(d, [d EXCEPT !.loop = {f[r] : r \in d.loop}], c, n)
<1> DEFINE e == [d EXCEPT !.loop = {f[r] : r \in d.loop}]
<1>1. /\ e.loop_item = d.loop_item /\ e.item_value = d.item_value
      /\ e.loop = {f[r] : r \in d.loop}
  BY DEF Sound, Database
<1> HIDE DEF e
<1>2. \A r \in e.loop : Denotes(r, c, n) =>
          \E r0 \in d.loop : Denotes(r0, c, n) /\ r0.last_row_num = r.last_row_num
  BY <1>1 DEF Denotes
<1>3. Undisturbed(d, e, c, n)
  BY <1>1, <1>2, SameItemsUndisturbed
<1>. QED
  BY <1>3 DEF e

\* SET_CATEGORY_SQL for any loop, UPDATE_PACKET_NUM_SQL for another
LEMMA LoopUpdatesUndisturbed ==
    ASSUME NEW d, Sound(d), NEW c, NEW n, NEW c1, NEW n1, NEW cat
    PROVE  /\ Undisturbed(d, UpdateCategory(d, c1, n1, cat), c, n)
           /\ ~ (c1 = c /\ n1 = n) => Undisturbed(d, IncrementPacketNum(d, c1, n1), c, n)
<1> DEFINE in(r) == r.container_id = c1 /\ r.loop_num = n1
           f1 == [r \in d.loop |-> IF in(r) THEN [r EXCEPT !.category = cat] ELSE r]
           f2 == [r \in d.loop |-> IF in(r) THEN [r EXCEPT !.last_row_num = @ + 1] ELSE r]
           fits(f) == \A r \in d.loop : /\ f[r].container_id = r.container_id
                                        /\ f[r].loop_num = r.loop_num
                                        /\ Denotes(r, c, n) => f[r].last_row_num = r.last_row_num
<1>1. fits(f1) /\ (~ (c1 = c /\ n1 = n) => fits(f2))
  BY DEF Sound, Database, LoopRow, Denotes
<1>2. /\ UpdateCategory(d, c1, n1, cat) = [d EXCEPT !.loop = {f1[r] : r \in d.loop}]
      /\ IncrementPacketNum(d, c1, n1) = [d EXCEPT !.loop = {f2[r] : r \in d.loop}]
  BY DEF UpdateCategory, IncrementPacketNum
<1> HIDE DEF f1, f2
<1>3. Undisturbed(d, UpdateCategory(d, c1, n1, cat), c, n)
  BY <1>1, <1>2, UpdateUndisturbed
<1>4. ASSUME ~ (c1 = c /\ n1 = n)
      PROVE  Undisturbed(d, IncrementPacketNum(d, c1, n1), c, n)
  BY <1>1, <1>2, <1>4, UpdateUndisturbed
<1>. QED
  BY <1>3, <1>4

-----------------------------------------------------------------------------
(* Functions called for other loops. *)

\* A transaction that fails disturbs nothing.
LEMMA AtomicallyUndisturbed ==
    ASSUME NEW d, NEW r, NEW c, NEW n, r.rc = "CIF_OK" => Undisturbed(d, r.db, c, n)
    PROVE  Undisturbed(d, Atomically(d, r).db, c, n)
BY DEF Atomically, Result, Undisturbed

\* create_loop_internal: the loop it makes is another, for its number is new.
LEMMA CreateLoopUndisturbed ==
    ASSUME NEW d, Sound(d), NEW c1, NEW cat \in AnyCategory,
           NEW nn, Names(nn) \subseteq ItemName,
           NEW c, NEW n, Given(d, c, n)
    PROVE  Undisturbed(d, CreateLoopInternal(d, c1, cat, nn).db, c, n)
<1> DEFINE r   == CreateLoopInternal(d, c1, cat, nn)
           d1  == InsertLoop(d, c1, cat)
           m   == NextLoopNum(d, c1)
           d2  == InsertItems(d1, c1, Names(nn), m)
           row == [container_id |-> c1, loop_num |-> m, category |-> cat, last_row_num |-> 0]
<1>1. CASE r.rc = "CIF_OK"
  <2>1. ContainerExists(d, c1) /\ r.db = InsertItems(d1, c1, Names(nn), MaxLoopNumOf(d1, c1))
    BY <1>1 DEF CreateLoopInternal, Atomically, Result
  <2>2. MaxLoopNumOf(d1, c1) = m
    BY <2>1, MaxLoopNumIsNew
  <2>3. /\ Sound(d1) /\ m \in Nat /\ d1.loop = d.loop \cup {row}
        /\ d1.loop_item = d.loop_item /\ d1.item_value = d.item_value
    BY <2>1, InsertLoopSound
  <2>4. PICK k \in d.container : k.id = c1
    BY <2>1 DEF ContainerExists
  <2>5. k.next_loop_num = m
    BY <2>4, NextLoopNumOfRow
  <2>6. ~ (c1 = c /\ m = n)
    BY <2>3, <2>4, <2>5 DEF Given
  <2>7. ~ Denotes(row, c, n)
    BY <2>6 DEF Denotes
  <2> HIDE DEF row, d1, m
  <2>8. Undisturbed(d, d1, c, n)
    BY <2>3, <2>7, SameItemsUndisturbed
  <2>9. Undisturbed(d1, d2, c, n)
    BY <2>3, <2>6, InsertItemsUndisturbed
  <2>. QED
    BY <2>1, <2>2, <2>8, <2>9, UndisturbedTransitive
<1>2. CASE r.rc # "CIF_OK"
  <2>1. r.db = d
    BY <1>2 DEF CreateLoopInternal, Atomically, Result
  <2>. QED
    BY <2>1 DEF Undisturbed
<1>. QED
  BY <1>1, <1>2

\* cif_loop_add_item_internal: the item is new to the container.
LEMMA AddItemUndisturbed ==
    ASSUME NEW d, Sound(d), NEW c1 \in Nat, NEW n1, NEW nm \in ItemName, NEW val,
           NEW c, NEW n, ~ (c1 = c /\ n1 = n)
    PROVE  Undisturbed(d, AddItemInternal(d, c1, n1, nm, val).db, c, n)
<1> DEFINE d1 == InsertItems(d, c1, {nm}, n1)
           d2 == SetAllValues(d1, c1, nm, val)
           r  == IF CanInsertItem(d, c1, nm, n1) THEN Result(d2, "CIF_OK")
                                                 ELSE Result(d, "CIF_DUP_ITEMNAME")
<1>1. ASSUME CanInsertItem(d, c1, nm, n1)
      PROVE  Undisturbed(d, d2, c, n)
  <2>1. Undisturbed(d, d1, c, n) /\ Sound(d1)
    BY <1>1, InsertItemsUndisturbed, InsertItemsSound DEF CanInsertItem
  <2>2. ~ (c1 = c /\ nm \in LoopNames(d1, c, n))
    <3>1. LoopNames(d1, c, n) = LoopNames(d, c, n)
      BY <2>1 DEF Undisturbed
    <3>. QED
      BY <1>1, <3>1, LoopQueries DEF CanInsertItem, ItemExists
  <2> HIDE DEF d1
  <2>3. Undisturbed(d1, d2, c, n)
    <3> DEFINE rows == RowsOfItemLoop(d1, c1, nm)
               new  == {[container_id |-> c1, name |-> nm, row_num |-> row, val |-> val] :
                           row \in rows}
               old  == {v \in d1.item_value : ~ (/\ v.container_id = c1 /\ v.name = nm
                                                 /\ v.row_num \in rows)}
    <3>1. d2.loop = d1.loop /\ d2.loop_item = d1.loop_item /\ d2.item_value = old \cup new
      BY <2>1 DEF SetAllValues, Sound, Database
    <3>2. \A v \in new : v.container_id = c1 /\ v.name = nm
      OBVIOUS
    <3>3. \A v \in d1.item_value : v \in old \/ (v.container_id = c1 /\ v.name = nm)
      OBVIOUS
    <3>4. old \subseteq d1.item_value
      OBVIOUS
    <3> HIDE DEF new, old, d2
    <3>5. \A v \in d2.item_value : v \in d1.item_value \/ ~ (/\ v.container_id = c
                                                             /\ v.name \in LoopNames(d1, c, n))
      BY <2>2, <3>1, <3>2, <3>4
    <3>6. \A v \in d1.item_value : v \in d2.item_value \/ ~ (/\ v.container_id = c
                                                             /\ v.name \in LoopNames(d1, c, n))
      BY <2>2, <3>1, <3>3
    <3>. QED
      BY <2>1, <3>1, <3>5, <3>6, ValuesUndisturbed
  <2>. QED
    BY <2>1, <2>3, UndisturbedTransitive
<1>2. AddItemInternal(d, c1, n1, nm, val) = Atomically(d, r)
  BY DEF AddItemInternal
<1>3. r.rc = "CIF_OK" => Undisturbed(d, r.db, c, n)
  BY <1>1 DEF Result
<1> HIDE DEF r
<1>. QED
  BY <1>2, <1>3, AtomicallyUndisturbed

\* INSERT_VALUE_SQL for names of another loop
LEMMA InsertPacketUndisturbed ==
    ASSUME NEW d, Sound(d), NEW c1, NEW n1, NEW pkt, NEW row,
           DOMAIN pkt \subseteq LoopNames(d, c1, n1),
           NEW c, NEW n, ~ (c1 = c /\ n1 = n)
    PROVE  Undisturbed(d, InsertPacket(d, c1, pkt, row), c, n)
<1> DEFINE e   == InsertPacket(d, c1, pkt, row)
           new == PacketRows(c1, pkt, row)
<1>1. e.loop = d.loop /\ e.loop_item = d.loop_item /\ e.item_value = d.item_value \cup new
  BY DEF InsertPacket, Sound, Database
<1>2. \A v \in new : v.container_id = c1 /\ v.name \in DOMAIN pkt
  BY DEF PacketRows
<1> HIDE DEF e, new
<1>3. ASSUME NEW v \in new
      PROVE  ~ (v.container_id = c /\ v.name \in LoopNames(d, c, n))
  BY <1>2, OneLoopPerName
<1>4. Undisturbed(d, e, c, n)
  BY <1>1, <1>3, ValuesUndisturbed
<1>. QED
  BY <1>4 DEF e

\* cif_loop_add_packet
LEMMA AddPacketUndisturbed ==
    ASSUME NEW d, Sound(d), NEW c1, NEW n1, NEW pkt,
           NEW c, NEW n, ~ (c1 = c /\ n1 = n)
    PROVE  Undisturbed(d, AddPacketInternal(d, c1, n1, pkt).db, c, n)
<1> DEFINE d1  == IncrementPacketNum(d, c1, n1)
           row == PacketNum(d1, c1, n1)
           d2  == InsertPacket(d1, c1, pkt, row)
           r   == AddPacketInternal(d, c1, n1, pkt)
<1>1. CASE r.rc = "CIF_OK"
  <2>1. DOMAIN pkt \subseteq LoopNames(d, c1, n1) /\ r.db = d2
    BY <1>1 DEF AddPacketInternal, Atomically, Result
  <2>2. Undisturbed(d, d1, c, n) /\ Sound(d1)
    BY LoopUpdatesUndisturbed, IncrementPacketNumSound
  <2>3. DOMAIN pkt \subseteq LoopNames(d1, c1, n1)
    BY <2>1 DEF IncrementPacketNum, LoopNames, LoopItems, Sound, Database
  <2> HIDE DEF d1, row
  <2>4. Undisturbed(d1, d2, c, n)
    BY <2>2, <2>3, InsertPacketUndisturbed
  <2>. QED
    BY <2>1, <2>2, <2>4, UndisturbedTransitive
<1>2. CASE r.rc # "CIF_OK"
  <2>1. r.db = d
    BY <1>2 DEF AddPacketInternal, Atomically, Result
  <2>. QED
    BY <2>1 DEF Undisturbed
<1>. QED
  BY <1>1, <1>2

-----------------------------------------------------------------------------
(* Steps. *)

\* A step of which no iterator notices anything
Unnoticed ==
    /\ UNCHANGED iters
    /\ \A it \in iters :
          LET l == lh[it.slot]
          IN  /\ Denotes(lh'[it.slot], l.container_id, l.loop_num)
              /\ Undisturbed(db, db', l.container_id, l.loop_num)

\* What the iterators have left is still what their loops hold.
LEMMA UnnoticedStep ==
    ASSUME IterationCurrent, Unnoticed
    PROVE  IterationCurrent'
BY DEF IterationCurrent, Unnoticed, Undisturbed, Denotes

\* A step outside of transactions, or that changes no table
LEMMA NothingToNotice ==
    ASSUME Inv, autocommit \/ UNCHANGED db, UNCHANGED <<lh, iters>>
    PROVE  Unnoticed
BY DEF Inv, TransactionIsIterators, Unnoticed, Undisturbed, Denotes

\* The handle of an iterator's loop has been given out.
LEMMA IteratedLoop ==
    ASSUME LoopHandleInv, NEW it \in iters
    PROVE  /\ it.slot \in DOMAIN lh
           /\ lh[it.slot] \in LoopRef
           /\ Given(db, lh[it.slot].container_id, lh[it.slot].loop_num)
BY DEF LoopHandleInv, HandleInv, Inv, IteratorHandleHeld, TypeOK, LoopHandlesFit

\* A statement or function that disturbs no iterated loop, and a handle changed
\* in another slot
LEMMA ElsewhereStep ==
    ASSUME LoopHandleInv, UNCHANGED iters,
           NEW s, Idle(s),
           \A x \in DOMAIN lh : x = s \/ (x \in DOMAIN lh' /\ lh'[x] = lh[x]),
           \A it \in iters : Undisturbed(db, db', lh[it.slot].container_id, lh[it.slot].loop_num)
    PROVE  Unnoticed
BY IteratedLoop DEF Unnoticed, Denotes, Idle

\* cif.c, and the functions on frames in container.c
LEMMA CreationUnnoticed ==
    ASSUME LoopHandleInv,
           \/ BlockCall
           \/ \E c \in Ids, sp \in CodeSpelling : CreateFrame(c, sp) \/ GetFrame(c, sp)
    PROVE  Unnoticed
<1>1. Inv
  BY DEF LoopHandleInv, HandleInv
<1>2. autocommit \/ UNCHANGED db
  BY DEF BlockCall, CreateBlock, CreateFrame, CreateContainer, GetBlock, GetFrame,
         TopLevel, Result
<1>3. UNCHANGED <<lh, iters>>
  BY DEF BlockCall, CreateBlock, CreateFrame, CreateContainer, GetBlock, GetFrame
<1>. QED
  BY <1>1, <1>2, <1>3, NothingToNotice

\* container.c
LEMMA ContainerUnnoticed ==
    ASSUME LoopHandleInv, NEW c \in Ids, ContainerCall(c)
    PROVE  Unnoticed
<1>1. Inv /\ Sound(db)
  BY DEF LoopHandleInv, HandleInv, Inv
<1>2. CASE DestroyContainer(c) \/ PruneContainer(c)
  <2>1. /\ MayAccessAll(c) /\ UNCHANGED <<lh, iters>>
        /\ db' = DeleteContainer(db, c) \/ db' = Prune(db, c)
    BY <1>2 DEF DestroyContainer, PruneContainer
  <2>2. ASSUME NEW it \in iters
        PROVE  Undisturbed(db, db', lh[it.slot].container_id, lh[it.slot].loop_num)
    <3> DEFINE ci == lh[it.slot].container_id
               n  == lh[it.slot].loop_num
    <3>1. ci # c
      BY <2>1 DEF MayAccessAll
    <3>2. Undisturbed(db, Prune(db, c), ci, n)
      <4> DEFINE S == {r \in db.loop : r.container_id = c
                                       /\ LoopValues(db, c, r.loop_num) = {}}
      <4>1. \A r \in S : ~ Denotes(r, ci, n)
        BY <3>1 DEF Denotes
      <4> HIDE DEF S
      <4>2. Undisturbed(db, DeleteLoops(db, S), ci, n)
        BY <1>1, <4>1, DeleteLoopsUndisturbed
      <4>. QED
        BY <4>2 DEF Prune, S
    <3>3. Undisturbed(db, DeleteContainer(db, c), ci, n)
      <4> DEFINE S  == {r \in db.loop : r.container_id = c}
                 d1 == DeleteLoops(db, S)
                 d2 == DeleteContainer(db, c)
      <4>1. \A r \in S : ~ Denotes(r, ci, n)
        BY <3>1 DEF Denotes
      <4>2. Undisturbed(db, d1, ci, n)
        <5> HIDE DEF S
        <5>. QED
          BY <1>1, <4>1, DeleteLoopsUndisturbed
      <4>3. d2.loop = d1.loop /\ d2.loop_item = d1.loop_item /\ d2.item_value = d1.item_value
        <5>1. d1 \in Database
          BY <1>1, DeleteLoopsSound DEF Sound
        <5>2. d2 = [d1 EXCEPT !.container  = {r \in @ : r.id # c},
                              !.data_block = {b \in @ : b.container_id # c},
                              !.save_frame = {f \in @ : f.container_id # c /\ f.parent_id # c}]
          BY DEF DeleteContainer
        <5> HIDE DEF d1, d2
        <5>. QED
          BY <5>1, <5>2 DEF Database
      <4> HIDE DEF d1, d2
      <4>4. Undisturbed(d1, d2, ci, n)
        BY <4>3, SameItemsUndisturbed
      <4>5. Undisturbed(db, d2, ci, n)
        BY <4>2, <4>4, UndisturbedTransitive
      <4>. QED
        BY <4>5 DEF d2
    <3>. QED
      BY <2>1, <3>2, <3>3
  <2>. QED
    BY <2>1, <2>2 DEF Unnoticed, Denotes
<1>3. ASSUME \/ \E s \in Slot : GetAllLoops(c, s)
             \/ \E s \in Slot, cat \in AnyCategory : GetCategoryLoop(c, cat, s)
             \/ \E s \in Slot, sp \in ItemSpelling : GetItemLoop(c, sp, s)
      PROVE  Unnoticed
  <2>1. /\ UNCHANGED <<db, iters>>
        /\ \/ UNCHANGED lh
           \/ \E s, l : Idle(s) /\ Keep(s, l)
    BY <1>3 DEF GetAllLoops, GetCategoryLoop, GetItemLoop, GetLoop
  <2>2. CASE UNCHANGED lh
    BY <1>1, <2>1, <2>2, NothingToNotice
  <2>3. ASSUME NEW s, NEW l, Idle(s), Keep(s, l)
        PROVE  Unnoticed
    <3>1. \A x \in DOMAIN lh : x = s \/ (x \in DOMAIN lh' /\ lh'[x] = lh[x])
      BY <2>3 DEF Keep
    <3>2. \A it \in iters : Undisturbed(db, db', lh[it.slot].container_id, lh[it.slot].loop_num)
      BY <2>1 DEF Undisturbed
    <3>. QED
      BY <2>1, <2>3, <3>1, <3>2, ElsewhereStep
  <2>. QED
    BY <2>1, <2>2, <2>3
<1>4. ASSUME NEW s \in Slot, NEW cat \in LoopCategory, NEW names \in NameLists,
             CreateLoop(c, cat, names, s)
      PROVE  Unnoticed
  <2> DEFINE nn == [i \in DOMAIN names |-> NormItem[names[i]]]
             r  == CreateLoopInternal(db, c, cat, nn)
  <2>1. /\ db' = db \/ (names # <<>> /\ Invalid \notin Names(nn) /\ db' = r.db)
        /\ Idle(s) /\ UNCHANGED iters
        /\ UNCHANGED lh \/ \E l : Keep(s, l)
    BY <1>4 DEF CreateLoop, Result
  <2>2. Invalid \notin Names(nn) => Names(nn) \subseteq ItemName
    <3>1. \A i \in DOMAIN names : names[i] \in ItemSpelling
      BY ArgumentAssumption
    <3>. QED
      BY <3>1, NormAssumption DEF Names
  <2>3. cat \in AnyCategory
    BY ArgumentAssumption
  <2> HIDE DEF nn
  <2>4. ASSUME NEW it \in iters
        PROVE  Undisturbed(db, db', lh[it.slot].container_id, lh[it.slot].loop_num)
    <3>1. CASE db' = db
      BY <3>1 DEF Undisturbed
    <3>2. CASE Invalid \notin Names(nn) /\ db' = r.db
      BY <1>1, <2>2, <2>3, <3>2, IteratedLoop, CreateLoopUndisturbed
    <3>. QED
      BY <2>1, <3>1, <3>2
  <2>5. \A x \in DOMAIN lh : x = s \/ (x \in DOMAIN lh' /\ lh'[x] = lh[x])
    BY <2>1 DEF Keep
  <2>. QED
    BY <2>1, <2>4, <2>5, ElsewhereStep
<1>5. ASSUME NEW sp \in ItemSpelling,
             \/ GetValue(c, sp)
             \/ RemoveItem(c, sp)
             \/ \E val \in Value : SetValue(c, sp, val)
      PROVE  Unnoticed
  <2>1. /\ autocommit \/ UNCHANGED db
        /\ UNCHANGED <<lh, iters>>
    BY <1>5 DEF GetValue, SetValue, RemoveItem, TopLevel, Result
  <2>. QED
    BY <1>1, <2>1, NothingToNotice
<1>. QED
  BY <1>2, <1>3, <1>4, <1>5, CreationUnnoticed DEF ContainerCall

\* loop.c, but for an iterator that cif_loop_get_packets opens
LEMMA LoopUnnoticed ==
    ASSUME LoopHandleInv, NEW s \in DOMAIN lh, LoopCall(s), UNCHANGED iters
    PROVE  Unnoticed
<1> DEFINE l == lh[s]
           c == l.container_id
           n == l.loop_num
<1>1. Inv /\ Sound(db) /\ l \in LoopRef /\ c \in Nat
  BY DEF LoopHandleInv, HandleInv, Inv, TypeOK, LoopRef
<1>2. CASE LoopFree(s) \/ LoopGetNames(s) \/ LoopGetPackets(s)
  <2>1. /\ UNCHANGED db
        /\ (Idle(s) /\ Drop({s})) \/ UNCHANGED lh
    BY <1>2 DEF LoopFree, LoopGetNames, LoopGetPackets
  <2>2. CASE UNCHANGED lh
    BY <1>1, <2>1, <2>2, NothingToNotice
  <2>3. CASE Idle(s) /\ Drop({s})
    <3>1. \A x \in DOMAIN lh : x = s \/ (x \in DOMAIN lh' /\ lh'[x] = lh[x])
      BY <2>3 DEF Drop
    <3>2. \A it \in iters : Undisturbed(db, db', lh[it.slot].container_id, lh[it.slot].loop_num)
      BY <2>1 DEF Undisturbed
    <3>. QED
      BY <2>3, <3>1, <3>2, ElsewhereStep
  <2>. QED
    BY <2>1, <2>2, <2>3
<1>3. ASSUME MayAccess(c, n)
      PROVE  /\ Idle(s)
             /\ \A it \in iters : ~ (c = lh[it.slot].container_id /\ n = lh[it.slot].loop_num)
  BY <1>3 DEF MayAccess, Iterated, Denotes, Idle
<1>4. CASE LoopDestroy(s)
  <2>1. /\ db' = DeleteLoop(db, c, n) /\ MayAccess(c, n)
        /\ Drop({s}) \/ UNCHANGED lh
    BY <1>4 DEF LoopDestroy
  <2>2. ASSUME NEW it \in iters
        PROVE  Undisturbed(db, db', lh[it.slot].container_id, lh[it.slot].loop_num)
    <3> DEFINE S == {r \in db.loop : r.container_id = c /\ r.loop_num = n}
    <3>1. \A r \in S : ~ Denotes(r, lh[it.slot].container_id, lh[it.slot].loop_num)
      BY <1>3, <2>1 DEF Denotes
    <3> HIDE DEF S
    <3>2. Undisturbed(db, DeleteLoops(db, S), lh[it.slot].container_id, lh[it.slot].loop_num)
      BY <1>1, <3>1, DeleteLoopsUndisturbed
    <3>. QED
      BY <2>1, <3>2 DEF DeleteLoop, S
  <2>3. \A x \in DOMAIN lh : x = s \/ (x \in DOMAIN lh' /\ lh'[x] = lh[x])
    BY <2>1 DEF Drop
  <2>. QED
    BY <1>3, <2>1, <2>2, <2>3, ElsewhereStep
<1>5. ASSUME NEW cat \in NewCategory, LoopSetCategory(s, cat)
      PROVE  Unnoticed
  <2>1. /\ db' \in {db, UpdateCategory(db, c, n, cat)} /\ MayAccess(c, n)
        /\ UNCHANGED lh \/ \E k : Keep(s, k)
    BY <1>5 DEF LoopSetCategory
  <2>2. \A it \in iters : Undisturbed(db, db', lh[it.slot].container_id, lh[it.slot].loop_num)
    BY <1>1, <2>1, LoopUpdatesUndisturbed DEF Undisturbed
  <2>3. \A x \in DOMAIN lh : x = s \/ (x \in DOMAIN lh' /\ lh'[x] = lh[x])
    BY <2>1 DEF Keep
  <2>. QED
    BY <1>3, <2>1, <2>2, <2>3, ElsewhereStep
<1>6. ASSUME NEW sp \in ItemSpelling, NEW val \in Value, LoopAddItem(s, sp, val)
      PROVE  Unnoticed
  <2> DEFINE nm == NormItem[sp]
  <2>1. /\ \/ db' = db
           \/ nm # Invalid /\ db' = AddItemInternal(db, c, n, nm, val).db
        /\ MayAccess(c, n) /\ UNCHANGED lh
    BY <1>6 DEF LoopAddItem, Result
  <2>2. nm # Invalid => nm \in ItemName
    BY NormAssumption
  <2> HIDE DEF nm
  <2>3. ASSUME NEW it \in iters
        PROVE  Undisturbed(db, db', lh[it.slot].container_id, lh[it.slot].loop_num)
    <3>1. CASE db' = db
      BY <3>1 DEF Undisturbed
    <3>2. CASE nm # Invalid /\ db' = AddItemInternal(db, c, n, nm, val).db
      <4>1. ~ (c = lh[it.slot].container_id /\ n = lh[it.slot].loop_num)
        BY <1>3, <2>1
      <4> HIDE DEF c, n
      <4>. QED
        BY <1>1, <2>2, <3>2, <4>1, AddItemUndisturbed
    <3>. QED
      BY <2>1, <3>1, <3>2
  <2>. QED
    BY <2>1, <2>3 DEF Unnoticed, Denotes
<1>7. ASSUME NEW pkt \in Packets, LoopAddPacket(s, pkt)
      PROVE  Unnoticed
  <2>1. db' = AddPacketInternal(db, c, n, pkt).db /\ MayAccess(c, n) /\ UNCHANGED lh
    BY <1>7 DEF LoopAddPacket
  <2>2. ASSUME NEW it \in iters
        PROVE  Undisturbed(db, db', lh[it.slot].container_id, lh[it.slot].loop_num)
    <3>1. ~ (c = lh[it.slot].container_id /\ n = lh[it.slot].loop_num)
      BY <1>3, <2>1
    <3> HIDE DEF c, n
    <3>. QED
      BY <1>1, <2>1, <3>1, AddPacketUndisturbed
  <2>. QED
    BY <2>1, <2>2 DEF Unnoticed, Denotes
<1>. QED
  BY <1>2, <1>4, <1>5, <1>6, <1>7 DEF LoopCall

\* Iterator it stands before the packets of l's loop in d that it has not had.
Current(it, l, d) ==
    /\ it.rows \subseteq LoopValues(d, l.container_id, l.loop_num)
    /\ it.names = LoopNames(d, l.container_id, l.loop_num)
    /\ \A v \in LoopValues(d, l.container_id, l.loop_num) \ it.rows, v1 \in it.rows :
          v.row_num < v1.row_num
    /\ \A v1 \in it.rows : it.previous_row_num < v1.row_num

\* cif_loop_get_packets: the query reads the loop as it is.
LEMMA OpenedCurrent ==
    ASSUME IterationInv, NEW s \in DOMAIN lh, LoopGetPackets(s)
    PROVE  IterationCurrent'
<1> DEFINE l  == lh[s]
           it == [slot |-> s, rows |-> LoopValues(db, l.container_id, l.loop_num),
                  previous_row_num |-> -1,
                  names |-> LoopNames(db, l.container_id, l.loop_num)]
<1>1. UNCHANGED <<db, lh>> /\ (UNCHANGED iters \/ iters' = iters \cup {it})
  BY DEF LoopGetPackets
<1>2. Current(it, l, db) /\ it.slot = s
  <2>1. \A v \in LoopValues(db, l.container_id, l.loop_num) : v.row_num \in Nat
    BY DEF LoopValues, IterationInv, LoopHandleInv, HandleInv, Inv, Sound, Database, ValueRow
  <2>. QED
    BY <2>1 DEF Current
<1> HIDE DEF it
<1>. QED
  BY <1>1, <1>2 DEF IterationInv, IterationCurrent, Current

\* pktitr.c: cif_pktitr_next_packet takes the packet of the lowest number;
\* cif_pktitr_update_packet and cif_pktitr_remove_packet change the packet
\* delivered last, whose number is below those of the packets to come.
LEMMA IteratorCurrent ==
    ASSUME IterationInv, NEW it \in iters, IteratorCall(it)
    PROVE  IterationCurrent'
<1> DEFINE l    == lh[it.slot]
           c    == l.container_id
           n    == l.loop_num
           prev == it.previous_row_num
<1>1. /\ Inv /\ Sound(db) /\ it \in Iterator /\ iters = {it}
      /\ Current(it, l, db)
  BY DEF IterationInv, LoopHandleInv, HandleInv, Inv, TypeOK, TransactionIsIterators,
         IterationCurrent, Current
<1>2. \A v \in it.rows : v.row_num \in Nat
  BY <1>1 DEF Iterator, ValueRow
<1>3. ASSUME NEW it2, it2.slot = it.slot, UNCHANGED lh, iters' = {it2}, Current(it2, l, db')
      PROVE  IterationCurrent'
  BY <1>3 DEF IterationCurrent, Current
<1>4. CASE NextPacket(it)
  <2>1. CASE UNCHANGED <<db, lh, iters>>
    BY <2>1, <1>1, <1>3
  <2>2. ASSUME NEW row \in RowNums(it.rows), IsNextRow(it, row),
               Replace(it, [it EXCEPT !.rows = {v \in @ : v.row_num # row},
                                      !.previous_row_num = row])
        PROVE  IterationCurrent'
    <3> DEFINE R   == {v \in it.rows : v.row_num # row}
               it2 == [it EXCEPT !.rows = R, !.previous_row_num = row]
    <3>1. iters' = {it2} /\ UNCHANGED <<db, lh>>
      BY <1>1, <1>4, <2>2 DEF Replace, NextPacket
    <3>2. /\ it2.rows = R /\ it2.names = it.names
          /\ it2.previous_row_num = row /\ it2.slot = it.slot
      BY <1>1 DEF Iterator
    <3>3. row \in Nat /\ \A v \in it.rows : row <= v.row_num
      BY <1>2, <2>2 DEF IsNextRow, RowNums
    <3>4. \A v \in R : v \in it.rows /\ row < v.row_num
      BY <1>2, <3>3
    <3>5. \A v \in it.rows : v \in R \/ v.row_num = row
      OBVIOUS
    <3> HIDE DEF it2, R
    <3>6. Current(it2, l, db)
      BY <1>1, <3>2, <3>4, <3>5 DEF Current
    <3>. QED
      BY <1>3, <3>1, <3>2, <3>6
  <2>. QED
    BY <1>4, <2>1, <2>2 DEF NextPacket
<1>5. ASSUME NEW pkt \in Packets, UpdatePacket(it, pkt)
      PROVE  IterationCurrent'
  <2>1. UNCHANGED <<lh, iters>>
    BY <1>5 DEF UpdatePacket
  <2>2. CASE db' = db
    BY <1>1, <1>3, <2>1, <2>2
  <2>3. CASE DOMAIN pkt \subseteq it.names /\ db' = ReplacePacket(db, c, pkt, prev)
    <3> DEFINE new == PacketRows(c, pkt, prev)
               old == {v \in db.item_value : ~ (/\ v.container_id = c /\ v.row_num = prev
                                                /\ v.name \in DOMAIN pkt)}
    <3>1. db'.loop_item = db.loop_item /\ db'.item_value = old \cup new
      BY <1>1, <2>3 DEF ReplacePacket, Sound, Database
    <3>2. \A v \in new : v.row_num = prev
      BY DEF PacketRows
    <3>3. \A v \in old : v \in db.item_value
      OBVIOUS
    <3>4. \A v \in db.item_value : v \in old \/ v.row_num = prev
      OBVIOUS
    <3> HIDE DEF new, old
    <3>5. LoopNames(db', c, n) = LoopNames(db, c, n)
      BY <3>1 DEF LoopNames, LoopItems
    <3>6. \A v \in LoopValues(db', c, n) : v \in LoopValues(db, c, n) \/ v.row_num = prev
      BY <3>1, <3>2, <3>3, <3>5, LoopQueries
    <3>7. prev \in Int
      BY <1>1 DEF Iterator
    <3>8. \A v \in it.rows : v \in db.item_value /\ v.container_id = c
                             /\ v.name \in LoopNames(db, c, n) /\ v.row_num # prev
      BY <1>1, <1>2, <3>7, LoopQueries DEF Current
    <3>9. \A v \in it.rows : v \in LoopValues(db', c, n)
      BY <3>1, <3>4, <3>5, <3>8, LoopQueries
    <3>10. Current(it, l, db')
      BY <1>1, <3>5, <3>6, <3>9 DEF Current
    <3>. QED
      BY <1>1, <1>3, <2>1, <3>10
  <2>4. db' = db \/ (DOMAIN pkt \subseteq it.names /\ db' = ReplacePacket(db, c, pkt, prev))
    BY <1>5 DEF UpdatePacket, Atomically, Result
  <2>. QED
    BY <2>2, <2>3, <2>4
<1>6. CASE RemovePacket(it)
  <2> DEFINE it2 == [it EXCEPT !.previous_row_num = -1]
             d1  == DeletePacket(db, c, n, prev)
             d2  == ResetPacketNum(d1, c, n)
  <2>1. CASE UNCHANGED <<db, iters>>
    BY <1>1, <1>3, <1>6, <2>1 DEF RemovePacket
  <2>2. CASE db' \in {d1, d2} /\ Replace(it, it2)
    <3>1. /\ db'.loop_item = db.loop_item
          /\ db'.item_value = db.item_value \ {v \in LoopValues(db, c, n) : v.row_num = prev}
      BY <1>1, <2>2 DEF DeletePacket, ResetPacketNum, Sound, Database
    <3>2. LoopNames(db', c, n) = LoopNames(db, c, n)
      BY <3>1 DEF LoopNames, LoopItems
    <3>3. \A v \in LoopValues(db', c, n) : v \in LoopValues(db, c, n)
      BY <3>1, <3>2, LoopQueries
    <3>4. prev \in Int
      BY <1>1 DEF Iterator
    <3>5. \A v \in it.rows : v \in LoopValues(db', c, n)
      BY <1>1, <1>2, <3>1, <3>2, <3>4, LoopQueries DEF Current
    <3>6. /\ it2.rows = it.rows /\ it2.names = it.names
          /\ it2.previous_row_num = -1 /\ it2.slot = it.slot
      BY <1>1 DEF Iterator
    <3>7. iters' = {it2} /\ UNCHANGED lh
      BY <1>1, <1>6, <2>2 DEF Replace, RemovePacket
    <3> HIDE DEF it2, d1, d2
    <3>8. Current(it2, l, db')
      BY <1>1, <1>2, <3>2, <3>3, <3>5, <3>6 DEF Current
    <3>. QED
      BY <1>3, <3>6, <3>7, <3>8
  <2>. QED
    BY <1>6, <2>1, <2>2 DEF RemovePacket
<1>7. CASE CloseIterator(it) \/ AbortIterator(it)
  <2>1. iters' = {}
    BY <1>1, <1>7 DEF CloseIterator, AbortIterator, Release
  <2>. QED
    BY <2>1 DEF IterationCurrent
<1>. QED
  BY <1>4, <1>5, <1>6, <1>7 DEF IteratorCall

\* Every step keeps the iterators and their loops in agreement.
LEMMA NextIterationInv == IterationInv /\ [Next]_vars => IterationInv'
<1>. SUFFICES ASSUME IterationInv, [Next]_vars PROVE IterationInv'
  OBVIOUS
<1>1. LoopHandleInv /\ LoopHandleInv' /\ Inv
  BY NextLoopHandleInv DEF IterationInv, LoopHandleInv, HandleInv
<1>2. CASE UNCHANGED vars
  BY <1>1, <1>2, NothingToNotice, UnnoticedStep DEF vars, IterationInv
<1>3. CASE Next
  <2>1. ASSUME NEW s \in DOMAIN lh, LoopCall(s)
        PROVE  IterationCurrent'
    <3>1. CASE UNCHANGED iters
      BY <1>1, <2>1, <3>1, LoopUnnoticed, UnnoticedStep DEF IterationInv
    <3>2. CASE LoopGetPackets(s)
      BY <2>1, <3>2, OpenedCurrent
    <3>. QED
      BY <2>1, <3>1, <3>2 DEF LoopCall, LoopFree, LoopDestroy, LoopSetCategory, LoopGetNames,
                              LoopAddItem, LoopAddPacket
  <2>. QED
    BY <1>1, <1>3, <2>1, CreationUnnoticed, ContainerUnnoticed, UnnoticedStep, IteratorCurrent
       DEF Next, IterationInv
<1>. QED
  BY <1>2, <1>3

\* What an iterator has still to deliver is what its loop holds, whatever calls
\* are made between cif_pktitr_next_packet's: on other loops, through other
\* handles, failing or not, and the iterator's own updates and removals.
THEOREM IterationStaysCurrent == Spec => []IterationCurrent
<1>1. Init => IterationInv
  BY InitLoopHandleInv DEF Init, IterationInv, IterationCurrent
<1>2. IterationInv => IterationCurrent
  BY DEF IterationInv
<1>. QED
  BY <1>1, <1>2, NextIterationInv, PTL DEF Spec

-----------------------------------------------------------------------------
(* Row numbers and scalar loops. *)

\* The packets of every loop have numbers up to its packet count.
RowsIn(d) ==
    \A r \in d.loop : \A v \in LoopValues(d, r.container_id, r.loop_num) :
        0 < v.row_num /\ v.row_num <= r.last_row_num

\* A container has one scalar loop at most, and that has counted one packet at most.
ScalarsIn(d) ==
    /\ \A r1, r2 \in d.loop : /\ r1.container_id = r2.container_id
                              /\ r1.category = Scalars /\ r2.category = Scalars
                              => r1 = r2
    /\ \A r \in d.loop : r.category = Scalars => r.last_row_num <= 1

Orderly(d) == RowsIn(d) /\ ScalarsIn(d)

\* The packet an iterator delivered last is one its loop has counted.
DeliveredCounted ==
    \A it \in iters, r \in db.loop :
        Denotes(r, lh[it.slot].container_id, lh[it.slot].loop_num)
            => it.previous_row_num <= r.last_row_num

\* What is inductive, as long as the scalar loop keeps its category
OrderInv == IterationInv /\ Orderly(db) /\ Orderly(saved) /\ DeliveredCounted

\* Deletions
LEMMA FewerOrderly ==
    ASSUME NEW d, Orderly(d), NEW e,
           e.loop \subseteq d.loop, e.loop_item \subseteq d.loop_item,
           e.item_value \subseteq d.item_value
    PROVE  Orderly(e)
<1>1. \A c, n : LoopValues(e, c, n) \subseteq LoopValues(d, c, n)
  BY DEF LoopValues, LoopNames, LoopItems
<1>. QED
  BY <1>1 DEF Orderly, RowsIn, ScalarsIn

\* The deletions, and the creation of containers
LEMMA DeletionsOrderly ==
    ASSUME NEW d, Sound(d), Orderly(d), NEW c, NEW n, NEW x
    PROVE  /\ Orderly(DeleteLoops(d, x))
           /\ Orderly(DeleteItem(d, c, x))
           /\ Orderly(DeleteContainer(d, c))
           /\ Orderly(DeletePacket(d, c, n, x))
           /\ Orderly(InsertBlock(InsertContainer(d), n, x))
           /\ Orderly(InsertFrame(InsertContainer(d), n, c, x))
<1> DEFINE Fewer(e) == /\ e.loop \subseteq d.loop /\ e.loop_item \subseteq d.loop_item
                       /\ e.item_value \subseteq d.item_value
<1>1. Fewer(DeleteLoops(d, x))
  BY DEF DeleteLoops, DeleteItems, Sound, Database
<1>2. Fewer(DeleteItem(d, c, x))
  BY DEF DeleteItem, DeleteItems, Sound, Database
<1>3. Fewer(DeletePacket(d, c, n, x))
  BY DEF DeletePacket, Sound, Database
<1>4. Fewer(InsertBlock(InsertContainer(d), n, x))
  BY DEF InsertBlock, InsertContainer, Sound, Database
<1>5. Fewer(InsertFrame(InsertContainer(d), n, c, x))
  BY DEF InsertFrame, InsertContainer, Sound, Database
<1>6. Orderly(DeleteContainer(d, c))
  <2> DEFINE e == DeleteContainer(d, c)
  <2>1. /\ e.loop \subseteq d.loop /\ e.loop_item \subseteq d.loop_item
        /\ e.item_value \subseteq d.item_value
    BY DEF DeleteContainer, DeleteLoops, DeleteItems, Sound, Database
  <2> HIDE DEF e
  <2>2. Orderly(e)
    BY <2>1, FewerOrderly
  <2>. QED
    BY <2>2 DEF e
<1>. QED
  BY <1>1, <1>2, <1>3, <1>4, <1>5, <1>6, FewerOrderly

\* A row of table loop is told by its key.
LEMMA OneRowPerLoop ==
    ASSUME NEW d, Sound(d), NEW r1 \in d.loop, NEW r2 \in d.loop, NEW c, NEW n,
           Denotes(r1, c, n), Denotes(r2, c, n)
    PROVE  r1 = r2
BY DEF Sound, Keys, LoopKeys, Denotes

\* The new loop has no items, and is the only scalar loop if it is one (tr1_loop).
LEMMA InsertLoopOrderly ==
    ASSUME NEW d, Sound(d), Orderly(d), NEW c, ContainerExists(d, c), NEW cat \in AnyCategory,
           ~ DuplicatesScalarLoop(d, c, cat)
    PROVE  Orderly(InsertLoop(d, c, cat))
<1> DEFINE e   == InsertLoop(d, c, cat)
           m   == NextLoopNum(d, c)
           row == [container_id |-> c, loop_num |-> m, category |-> cat, last_row_num |-> 0]
<1>1. /\ e.loop = d.loop \cup {row} /\ m \in Nat
      /\ e.loop_item = d.loop_item /\ e.item_value = d.item_value
      /\ \A r \in d.loop : r.container_id = c => r.loop_num < m
  BY InsertLoopSound
<1>2. row.container_id = c /\ row.loop_num = m /\ row.category = cat /\ row.last_row_num = 0
  OBVIOUS
<1> HIDE DEF e, m, row
<1>3. \A c1, n1 : LoopValues(e, c1, n1) = LoopValues(d, c1, n1)
  BY <1>1 DEF LoopValues, LoopNames, LoopItems
<1>4. LoopValues(d, c, m) = {}
  <2>1. ~ LoopExists(d, c, m)
    BY <1>1 DEF LoopExists
  <2>2. LoopNames(d, c, m) = {}
    BY <2>1 DEF LoopNames, LoopItems, Sound, ForeignKeys
  <2>. QED
    BY <2>2 DEF LoopValues
<1>5. RowsIn(e)
  BY <1>1, <1>2, <1>3, <1>4 DEF Orderly, RowsIn
<1>6. ScalarsIn(e)
  BY <1>1, <1>2 DEF Orderly, ScalarsIn, DuplicatesScalarLoop, CategoryLoops
<1>7. Orderly(e)
  BY <1>5, <1>6 DEF Orderly
<1>. QED
  BY <1>7 DEF e

\* Items new to the container have no values.
LEMMA InsertItemsOrderly ==
    ASSUME NEW d, Sound(d), Orderly(d), NEW c, NEW n, NEW names,
           \A nm \in names : ~ ItemExists(d, c, nm)
    PROVE  Orderly(InsertItems(d, c, names, n))
<1> DEFINE e   == InsertItems(d, c, names, n)
           new == {[container_id |-> c, name |-> nm, loop_num |-> n] : nm \in names}
<1>1. /\ e.loop = d.loop /\ e.item_value = d.item_value
      /\ e.loop_item = d.loop_item \cup new
  BY DEF InsertItems, Sound, Database
<1>2. \A i \in new : i.container_id = c /\ i.name \in names
  OBVIOUS
<1> HIDE DEF e, new
<1>3. ASSUME NEW r \in d.loop, NEW v \in LoopValues(e, r.container_id, r.loop_num)
      PROVE  v \in LoopValues(d, r.container_id, r.loop_num)
  <2>1. v \in d.item_value /\ v.container_id = r.container_id
    BY <1>1, LoopQueries
  <2>2. PICK i \in e.loop_item : /\ i.container_id = r.container_id
                                 /\ i.loop_num = r.loop_num /\ i.name = v.name
    BY LoopQueries
  <2>3. ItemExists(d, v.container_id, v.name)
    BY <2>1 DEF Sound, ForeignKeys
  <2>4. i \in d.loop_item
    BY <1>1, <1>2, <2>1, <2>2, <2>3
  <2>. QED
    BY <2>1, <2>2, <2>4, LoopQueries
<1>4. Orderly(e)
  BY <1>1, <1>3 DEF Orderly, RowsIn, ScalarsIn
<1>. QED
  BY <1>4 DEF e

\* Values at row numbers that their loop has counted
LEMMA ValuesOrderly ==
    ASSUME NEW d, Sound(d), Orderly(d), NEW e, e.loop = d.loop, e.loop_item = d.loop_item,
           \A v \in e.item_value, r \in d.loop :
              \/ v \in d.item_value
              \/ ~ (v.container_id = r.container_id
                    /\ v.name \in LoopNames(d, r.container_id, r.loop_num))
              \/ 0 < v.row_num /\ v.row_num <= r.last_row_num
    PROVE  Orderly(e)
<1>1. \A c, n : LoopNames(e, c, n) = LoopNames(d, c, n)
  BY DEF LoopNames, LoopItems
<1>2. ASSUME NEW r \in d.loop, NEW v \in LoopValues(e, r.container_id, r.loop_num)
      PROVE  0 < v.row_num /\ v.row_num <= r.last_row_num
  <2>1. /\ v \in e.item_value /\ v.container_id = r.container_id
        /\ v.name \in LoopNames(d, r.container_id, r.loop_num)
    BY <1>1, LoopQueries
  <2>2. CASE v \in d.item_value
    <3>1. v \in LoopValues(d, r.container_id, r.loop_num)
      BY <2>1, <2>2, LoopQueries
    <3>. QED
      BY <3>1 DEF Orderly, RowsIn
  <2>. QED
    BY <2>1, <2>2
<1>. QED
  BY <1>2 DEF Orderly, RowsIn, ScalarsIn

\* SET_ALL_VALUES_SQL takes its row numbers from the item's loop.
LEMMA SetAllValuesOrderly ==
    ASSUME NEW d, Sound(d), Orderly(d), NEW c, NEW nm, NEW val
    PROVE  Orderly(SetAllValues(d, c, nm, val))
<1> DEFINE rows == RowsOfItemLoop(d, c, nm)
           new  == {[container_id |-> c, name |-> nm, row_num |-> row, val |-> val] :
                       row \in rows}
           old  == {v \in d.item_value : ~ (/\ v.container_id = c /\ v.name = nm
                                            /\ v.row_num \in rows)}
           e    == SetAllValues(d, c, nm, val)
<1>1. e.loop = d.loop /\ e.loop_item = d.loop_item /\ e.item_value = old \cup new
  BY DEF SetAllValues, Sound, Database
<1>2. \A v \in new : v.container_id = c /\ v.name = nm /\ v.row_num \in rows
  OBVIOUS
<1>3. \A v \in old : v \in d.item_value
  OBVIOUS
<1> HIDE DEF old, new, e
<1>4. ASSUME NEW row \in rows, NEW r \in d.loop, c = r.container_id,
             nm \in LoopNames(d, c, r.loop_num)
      PROVE  0 < row /\ row <= r.last_row_num
  <2>1. PICK r1 \in ItemLoops(d, c, nm) : row \in RowNums(LoopValues(d, c, r1.loop_num))
    BY <1>4 DEF RowsOfItemLoop
  <2>2. /\ r1 \in d.loop /\ r1.container_id = c
        /\ nm \in LoopNames(d, c, r1.loop_num)
    BY <2>1 DEF ItemLoops, LoopNames
  <2>3. r1.loop_num = r.loop_num
    BY <1>4, <2>2, OneLoopPerName
  <2>4. r1 = r
    BY <1>4, <2>2, <2>3, OneRowPerLoop DEF Denotes
  <2>. QED
    BY <1>4, <2>1, <2>4 DEF RowNums, Orderly, RowsIn
<1> HIDE DEF rows
<1>5. \A v \in e.item_value, r \in d.loop :
         \/ v \in d.item_value
         \/ ~ (v.container_id = r.container_id
               /\ v.name \in LoopNames(d, r.container_id, r.loop_num))
         \/ 0 < v.row_num /\ v.row_num <= r.last_row_num
  BY <1>1, <1>2, <1>3, <1>4
<1>6. Orderly(e)
  BY <1>1, <1>5, ValuesOrderly
<1>. QED
  BY <1>6 DEF e

\* INSERT_VALUE_SQL and UPDATE_VALUE_SQL, at a row number that the loop of the
\* names has counted
LEMMA PacketsOrderly ==
    ASSUME NEW d, Sound(d), Orderly(d), NEW c, NEW n, NEW pkt, NEW row,
           DOMAIN pkt \subseteq LoopNames(d, c, n), 0 < row,
           \A r \in d.loop : Denotes(r, c, n) => row <= r.last_row_num
    PROVE  /\ Orderly(InsertPacket(d, c, pkt, row))
           /\ Orderly(ReplacePacket(d, c, pkt, row))
<1> DEFINE new == PacketRows(c, pkt, row)
<1>1. \A v \in new : v.container_id = c /\ v.row_num = row /\ v.name \in DOMAIN pkt
  BY DEF PacketRows
<1>2. \A e \in {InsertPacket(d, c, pkt, row), ReplacePacket(d, c, pkt, row)} :
         /\ e.loop = d.loop /\ e.loop_item = d.loop_item
         /\ e.item_value \subseteq d.item_value \cup new
  BY DEF InsertPacket, ReplacePacket, Sound, Database
<1> HIDE DEF new
<1>3. ASSUME NEW v \in new, NEW r \in d.loop, v.container_id = r.container_id,
             v.name \in LoopNames(d, r.container_id, r.loop_num)
      PROVE  0 < v.row_num /\ v.row_num <= r.last_row_num
  <2>1. r.loop_num = n
    BY <1>1, <1>3, OneLoopPerName
  <2>. QED
    BY <1>1, <1>3, <2>1 DEF Denotes
<1>4. ASSUME NEW e, e.loop = d.loop, e.loop_item = d.loop_item,
             e.item_value \subseteq d.item_value \cup new
      PROVE  Orderly(e)
  <2>1. \A v \in e.item_value, r \in d.loop :
           \/ v \in d.item_value
           \/ ~ (v.container_id = r.container_id
                 /\ v.name \in LoopNames(d, r.container_id, r.loop_num))
           \/ 0 < v.row_num /\ v.row_num <= r.last_row_num
    BY <1>3, <1>4
  <2>. QED
    BY <1>4, <2>1, ValuesOrderly
<1>. QED
  BY <1>2, <1>4

\* Updates of the loops' columns but for their keys
LEMMA UpdateOrderly ==
    ASSUME NEW d, Sound(d), Orderly(d), NEW f,
           \A r \in d.loop :
              /\ f[r].container_id = r.container_id
              /\ f[r].loop_num = r.loop_num
              /\ f[r].category = Scalars => r.category = Scalars /\ f[r].last_row_num <= 1
              /\ \A v \in LoopValues(d, r.container_id, r.loop_num) :
                    v.row_num <= f[r].last_row_num
    PROVE  Orderly([d EXCEPT !.loop = {f[r] : r \in d.loop}])
<1> DEFINE e == [d EXCEPT !.loop = {f[r] : r \in d.loop}]
<1>1. /\ e.loop = {f[r] : r \in d.loop}
      /\ e.loop_item = d.loop_item /\ e.item_value = d.item_value
  BY DEF Sound, Database
<1> HIDE DEF e
<1>2. \A c, n : LoopValues(e, c, n) = LoopValues(d, c, n)
  BY <1>1 DEF LoopValues, LoopNames, LoopItems
<1>3. RowsIn(e)
  BY <1>1, <1>2 DEF Orderly, RowsIn
<1>4. ScalarsIn(e)
  <2>1. ASSUME NEW r1 \in d.loop, NEW r2 \in d.loop,
               f[r1].container_id = f[r2].container_id,
               f[r1].category = Scalars, f[r2].category = Scalars
        PROVE  f[r1] = f[r2]
    <3>1. r1 = r2
      BY <2>1 DEF Orderly, ScalarsIn
    <3>. QED
      BY <3>1
  <2>. QED
    BY <1>1, <2>1 DEF ScalarsIn
<1>5. Orderly(e)
  BY <1>3, <1>4 DEF Orderly
<1>. QED
  BY <1>5 DEF e

\* SET_CATEGORY_SQL to a category other than the scalars', UPDATE_PACKET_NUM_SQL
\* where tr4_loop does not abort it, RESET_PACKET_NUM_SQL for a loop without packets
LEMMA LoopUpdatesOrderly ==
    ASSUME NEW d, Sound(d), Orderly(d), NEW c, NEW n, NEW cat
    PROVE  /\ cat # Scalars => Orderly(UpdateCategory(d, c, n, cat))
           /\ ~ ExceedsScalar(d, c, n) => Orderly(IncrementPacketNum(d, c, n))
           /\ LoopValues(d, c, n) = {} => Orderly(ResetPacketNum(d, c, n))
<1> DEFINE in(r) == r.container_id = c /\ r.loop_num = n
           f1 == [r \in d.loop |-> IF in(r) THEN [r EXCEPT !.category = cat] ELSE r]
           f2 == [r \in d.loop |-> IF in(r) THEN [r EXCEPT !.last_row_num = @ + 1] ELSE r]
           f3 == [r \in d.loop |-> IF in(r) THEN [r EXCEPT !.last_row_num = 0] ELSE r]
           fits(f) == \A r \in d.loop :
              /\ f[r].container_id = r.container_id
              /\ f[r].loop_num = r.loop_num
              /\ f[r].category = Scalars => r.category = Scalars /\ f[r].last_row_num <= 1
              /\ \A v \in LoopValues(d, r.container_id, r.loop_num) :
                    v.row_num <= f[r].last_row_num
<1>1. /\ \A r \in d.loop : r \in LoopRow
      /\ \A r \in d.loop : r.category = Scalars => r.last_row_num <= 1
      /\ \A r \in d.loop : \A v \in LoopValues(d, r.container_id, r.loop_num) :
            v.row_num \in Nat /\ v.row_num <= r.last_row_num
  BY DEF Sound, Database, ValueRow, LoopValues, Orderly, RowsIn, ScalarsIn
<1>2. cat # Scalars => fits(f1)
  BY <1>1 DEF LoopRow
<1>3. ~ ExceedsScalar(d, c, n) => fits(f2)
  <2> SUFFICES ASSUME ~ ExceedsScalar(d, c, n), NEW r \in d.loop
               PROVE  /\ f2[r].container_id = r.container_id
                      /\ f2[r].loop_num = r.loop_num
                      /\ f2[r].category = Scalars =>
                            r.category = Scalars /\ f2[r].last_row_num <= 1
                      /\ \A v \in LoopValues(d, r.container_id, r.loop_num) :
                            v.row_num <= f2[r].last_row_num
    OBVIOUS
  <2>1. r.last_row_num \in Nat
    BY <1>1 DEF LoopRow
  <2>2. CASE in(r)
    <3>1. r.category = Scalars => ~ (r.last_row_num >= 1)
      BY <2>2 DEF ExceedsScalar, CategoryLoops
    <3>2. /\ f2[r].container_id = r.container_id /\ f2[r].loop_num = r.loop_num
          /\ f2[r].category = r.category /\ f2[r].last_row_num = r.last_row_num + 1
      BY <1>1, <2>2 DEF LoopRow
    <3> HIDE DEF f2
    <3>. QED
      BY <1>1, <2>1, <3>1, <3>2
  <2>3. CASE ~ in(r)
    BY <1>1, <2>3
  <2>. QED
    BY <2>2, <2>3
<1>4. LoopValues(d, c, n) = {} => fits(f3)
  BY <1>1 DEF LoopRow
<1>5. /\ UpdateCategory(d, c, n, cat) = [d EXCEPT !.loop = {f1[r] : r \in d.loop}]
      /\ IncrementPacketNum(d, c, n) = [d EXCEPT !.loop = {f2[r] : r \in d.loop}]
      /\ ResetPacketNum(d, c, n) = [d EXCEPT !.loop = {f3[r] : r \in d.loop}]
  BY DEF UpdateCategory, IncrementPacketNum, ResetPacketNum
<1> HIDE DEF f1, f2, f3
<1>6. fits(f1) => Orderly(UpdateCategory(d, c, n, cat))
  BY <1>5, UpdateOrderly
<1>7. fits(f2) => Orderly(IncrementPacketNum(d, c, n))
  BY <1>5, UpdateOrderly
<1>8. fits(f3) => Orderly(ResetPacketNum(d, c, n))
  BY <1>5, UpdateOrderly
<1> HIDE DEF fits
<1>. QED
  BY <1>2, <1>3, <1>4, <1>6, <1>7, <1>8

-----------------------------------------------------------------------------
(* Functions. *)

\* create_loop_internal
LEMMA CreateLoopOrderly ==
    ASSUME NEW d, Sound(d), Orderly(d), NEW c, NEW cat \in AnyCategory,
           NEW nn, Names(nn) \subseteq ItemName
    PROVE  Orderly(CreateLoopInternal(d, c, cat, nn).db)
<1> DEFINE r  == CreateLoopInternal(d, c, cat, nn)
           d1 == InsertLoop(d, c, cat)
           m  == MaxLoopNumOf(d1, c)
<1>1. CASE r.rc = "CIF_OK"
  <2>1. /\ ContainerExists(d, c) /\ ~ DuplicatesScalarLoop(d, c, cat)
        /\ \A nm \in Names(nn) : ~ ItemExists(d, c, nm)
        /\ r.db = InsertItems(d1, c, Names(nn), m)
    BY <1>1 DEF CreateLoopInternal, Atomically, Result
  <2>2. Sound(d1) /\ Orderly(d1) /\ d1.loop_item = d.loop_item
    BY <2>1, InsertLoopSound, InsertLoopOrderly
  <2>3. \A nm \in Names(nn) : ~ ItemExists(d1, c, nm)
    BY <2>1, <2>2 DEF ItemExists
  <2> HIDE DEF d1, m
  <2>. QED
    BY <2>1, <2>2, <2>3, InsertItemsOrderly
<1>2. CASE r.rc # "CIF_OK"
  BY <1>2 DEF CreateLoopInternal, Atomically, Result
<1>. QED
  BY <1>1, <1>2

\* cif_loop_add_item_internal
LEMMA AddItemOrderly ==
    ASSUME NEW d, Sound(d), Orderly(d), NEW c \in Nat, NEW n, NEW nm \in ItemName, NEW val
    PROVE  Orderly(AddItemInternal(d, c, n, nm, val).db)
<1> DEFINE d1 == InsertItems(d, c, {nm}, n)
<1>1. CASE CanInsertItem(d, c, nm, n)
  <2>1. Sound(d1)
    BY <1>1, InsertItemsSound DEF CanInsertItem
  <2>2. Orderly(d1)
    BY <1>1, InsertItemsOrderly DEF CanInsertItem
  <2>3. AddItemInternal(d, c, n, nm, val).db = SetAllValues(d1, c, nm, val)
    BY <1>1 DEF AddItemInternal, Atomically, Result
  <2> HIDE DEF d1
  <2>. QED
    BY <2>1, <2>2, <2>3, SetAllValuesOrderly
<1>2. CASE ~ CanInsertItem(d, c, nm, n)
  BY <1>2 DEF AddItemInternal, Atomically, Result
<1>. QED
  BY <1>1, <1>2

\* cif_loop_add_packet: the number of the new packet is the count, just advanced.
LEMMA AddPacketOrderly ==
    ASSUME NEW d, Sound(d), Orderly(d), NEW c, NEW n, NEW pkt
    PROVE  Orderly(AddPacketInternal(d, c, n, pkt).db)
<1> DEFINE d1    == IncrementPacketNum(d, c, n)
           row   == PacketNum(d1, c, n)
           r     == AddPacketInternal(d, c, n, pkt)
           up(k) == IF k.container_id = c /\ k.loop_num = n
                    THEN [k EXCEPT !.last_row_num = @ + 1] ELSE k
<1>1. CASE r.rc = "CIF_OK"
  <2>1. /\ LoopExists(d, c, n) /\ ~ ExceedsScalar(d, c, n)
        /\ DOMAIN pkt \subseteq LoopNames(d, c, n)
        /\ r.db = InsertPacket(d1, c, pkt, row)
    BY <1>1 DEF AddPacketInternal, Atomically, Result
  <2>2. Sound(d1) /\ Orderly(d1)
    BY <2>1, IncrementPacketNumSound, LoopUpdatesOrderly
  <2>3. d1.loop = {up(k) : k \in d.loop} /\ d1.loop_item = d.loop_item
    BY DEF IncrementPacketNum, Sound, Database
  <2>4. DOMAIN pkt \subseteq LoopNames(d1, c, n)
    BY <2>1, <2>3 DEF LoopNames, LoopItems
  <2>5. \A k \in d.loop : /\ up(k).container_id = k.container_id
                          /\ up(k).loop_num = k.loop_num
                          /\ Denotes(k, c, n) => 0 < up(k).last_row_num
    BY DEF Sound, Database, LoopRow, Denotes
  <2> HIDE DEF up
  <2>6. PICK q \in d1.loop : Denotes(q, c, n)
    BY <2>1, <2>3, <2>5 DEF LoopExists, Denotes
  <2>7. 0 < q.last_row_num
    BY <2>3, <2>5, <2>6 DEF Denotes
  <2> HIDE DEF d1
  <2>8. \A k \in d1.loop : Denotes(k, c, n) => k = q
    BY <2>2, <2>6, OneRowPerLoop
  <2>9. row = q.last_row_num
    BY <2>6, <2>8 DEF PacketNum, Denotes
  <2>10. q.last_row_num \in Nat
    BY <2>2, <2>6 DEF Sound, Database, LoopRow
  <2> HIDE DEF row
  <2>11. 0 < row /\ \A k \in d1.loop : Denotes(k, c, n) => row <= k.last_row_num
    BY <2>7, <2>8, <2>9, <2>10
  <2>. QED
    BY <2>1, <2>2, <2>4, <2>11, PacketsOrderly
<1>2. CASE r.rc # "CIF_OK"
  BY <1>2 DEF AddPacketInternal, Atomically, Result
<1>. QED
  BY <1>1, <1>2

\* cif_container_set_value and cif_container_remove_item
LEMMA SetAndRemoveOrderly ==
    ASSUME NEW d, Sound(d), Orderly(d), NEW c \in Nat, NEW nm \in ItemName, NEW val \in Value
    PROVE  /\ Orderly(SetValueInternal(d, c, nm, val).db)
           /\ Orderly(RemoveItemInternal(d, c, nm).db)
<1>1. Orderly(AddScalar(d, c, nm, val).db)
  <2> DEFINE r1 == IF CategoryLoops(d, c, Scalars) = {}
                   THEN CreateLoopInternal(d, c, Scalars, <<>>)
                   ELSE Result(d, "CIF_OK")
             n  == (CHOOSE r \in CategoryLoops(r1.db, c, Scalars) : TRUE).loop_num
             r2 == AddItemInternal(r1.db, c, n, nm, val)
             r3 == AddPacketInternal(r2.db, c, n, [x \in {nm} |-> val])
  <2>1. Names(<<>>) \subseteq ItemName /\ Scalars \in AnyCategory
    BY DEF Names, AnyCategory
  <2>2. Sound(r1.db)
    BY <2>1, CreateLoopInternalSound DEF Result
  <2>3. Orderly(r1.db)
    <3>1. Orderly(CreateLoopInternal(d, c, Scalars, <<>>).db)
      BY <2>1, CreateLoopOrderly
    <3>2. Orderly(Result(d, "CIF_OK").db)
      BY DEF Result
    <3>. QED
      BY <3>1, <3>2
  <2> HIDE DEF r1, n
  <2>4. Sound(r2.db) /\ Orderly(r2.db)
    BY <2>2, <2>3, AddItemInternalSound, AddItemOrderly
  <2> HIDE DEF r2
  <2>5. Orderly(r3.db)
    BY <2>4, AddPacketOrderly
  <2> HIDE DEF r3
  <2>6. AddScalar(d, c, nm, val) \in {r1, r2, r3}
    BY DEF AddScalar, r1, r2, r3, n
  <2>. QED
    BY <2>3, <2>4, <2>5, <2>6
<1>2. Orderly(SetValueInternal(d, c, nm, val).db)
  BY <1>1, SetAllValuesOrderly DEF SetValueInternal, Result
<1>3. Orderly(RemoveItemInternal(d, c, nm).db)
  BY DeletionsOrderly DEF RemoveItemInternal, Result
<1>. QED
  BY <1>2, <1>3

\* BEGIN ... COMMIT or ROLLBACK
LEMMA TransactionOrderly ==
    ASSUME NEW d, Orderly(d), NEW r, Orderly(r.db)
    PROVE  Orderly(Atomically(d, r).db) /\ Orderly(TopLevel(d, r).db)
BY DEF Atomically, TopLevel, Result

-----------------------------------------------------------------------------
(* Steps. *)

\* cif.c and container.c
LEMMA ContainerOrderly ==
    ASSUME OrderInv, BlockCall \/ \E c \in Ids : ContainerCall(c)
    PROVE  Orderly(db')
<1>1. Sound(db) /\ Orderly(db) /\ \A c \in Ids : c \in Nat
  BY DEF OrderInv, IterationInv, LoopHandleInv, HandleInv, Inv, TypeOK, Ids, ContHandle
<1> DEFINE block(code) == InsertBlock(InsertContainer(db), NewContainerId(db), code)
           frame(c, code) == InsertFrame(InsertContainer(db), NewContainerId(db), c, code)
<1>2. /\ \A code : Orderly(block(code))
      /\ \A c, code : Orderly(frame(c, code))
  BY <1>1, DeletionsOrderly
<1>3. ASSUME NEW sp \in CodeSpelling, CreateBlock(sp) \/ GetBlock(sp)
      PROVE  Orderly(db')
  <2>1. db' = db \/ db' = block(NormCode[sp])
    BY <1>3 DEF CreateBlock, CreateContainer, GetBlock, TopLevel, Atomically, Result
  <2> HIDE DEF block
  <2>. QED
    BY <1>1, <1>2, <2>1
<1>4. ASSUME NEW c \in Ids, NEW sp \in CodeSpelling, CreateFrame(c, sp) \/ GetFrame(c, sp)
      PROVE  Orderly(db')
  <2>1. db' = db \/ db' = frame(c, NormCode[sp])
    BY <1>4 DEF CreateFrame, CreateContainer, GetFrame, TopLevel, Atomically, Result
  <2> HIDE DEF frame
  <2>. QED
    BY <1>1, <1>2, <2>1
<1>5. ASSUME NEW c \in Ids, DestroyContainer(c) \/ PruneContainer(c)
      PROVE  Orderly(db')
  BY <1>1, <1>5, DeletionsOrderly DEF DestroyContainer, PruneContainer, Prune
<1>6. ASSUME NEW c \in Ids,
             \/ \E s \in Slot : GetAllLoops(c, s)
             \/ \E s \in Slot, cat \in AnyCategory : GetCategoryLoop(c, cat, s)
             \/ \E s \in Slot, sp \in ItemSpelling : GetItemLoop(c, sp, s)
             \/ \E sp \in ItemSpelling : GetValue(c, sp)
      PROVE  Orderly(db')
  <2>1. db' = db
    BY <1>6 DEF GetAllLoops, GetCategoryLoop, GetItemLoop, GetLoop, GetValue
  <2>. QED
    BY <1>1, <2>1
<1>7. ASSUME NEW c \in Ids, NEW s \in Slot, NEW cat \in LoopCategory, NEW names \in NameLists,
             CreateLoop(c, cat, names, s)
      PROVE  Orderly(db')
  <2> DEFINE nn == [i \in DOMAIN names |-> NormItem[names[i]]]
             r  == CreateLoopInternal(db, c, cat, nn)
  <2>1. db' = db \/ (Invalid \notin Names(nn) /\ db' = r.db)
    BY <1>7 DEF CreateLoop, Result
  <2>2. Invalid \notin Names(nn) => Names(nn) \subseteq ItemName
    <3>1. \A i \in DOMAIN names : names[i] \in ItemSpelling
      BY ArgumentAssumption
    <3>. QED
      BY <3>1, NormAssumption DEF Names
  <2>3. cat \in AnyCategory
    BY ArgumentAssumption
  <2> HIDE DEF nn
  <2>. QED
    BY <1>1, <2>1, <2>2, <2>3, CreateLoopOrderly
<1>8. ASSUME NEW c \in Ids, NEW sp \in ItemSpelling,
             RemoveItem(c, sp) \/ \E val \in Value : SetValue(c, sp, val)
      PROVE  Orderly(db')
  <2> DEFINE nm       == NormItem[sp]
             set(val) == TopLevel(db, SetValueInternal(db, c, nm, val)).db
             removed  == TopLevel(db, RemoveItemInternal(db, c, nm)).db
  <2>1. ASSUME nm # Invalid, NEW val \in Value
        PROVE  Orderly(set(val)) /\ Orderly(removed)
    <3>1. nm \in ItemName
      BY <2>1, NormAssumption
    <3> HIDE DEF nm
    <3>2. /\ Orderly(SetValueInternal(db, c, nm, val).db)
          /\ Orderly(RemoveItemInternal(db, c, nm).db)
      BY <1>1, <3>1, SetAndRemoveOrderly
    <3>. QED
      BY <1>1, <3>2, TransactionOrderly
  <2>2. \/ db' = db
        \/ nm # Invalid /\ db' = removed
        \/ \E val \in Value : nm # Invalid /\ db' = set(val)
    BY <1>8 DEF SetValue, RemoveItem, Result
  <2> HIDE DEF set, removed, nm
  <2>. QED
    BY <1>1, <2>1, <2>2, UnknownAssumption
<1>. QED
  BY <1>3, <1>4, <1>5, <1>6, <1>7, <1>8 DEF BlockCall, ContainerCall

\* loop.c
LEMMA LoopOrderly ==
    ASSUME OrderInv, NEW s \in DOMAIN lh, LoopCall(s)
    PROVE  Orderly(db')
<1> DEFINE c == lh[s].container_id
           n == lh[s].loop_num
<1>1. Sound(db) /\ Orderly(db) /\ c \in Nat
  BY DEF OrderInv, IterationInv, LoopHandleInv, HandleInv, Inv, TypeOK, LoopRef
<1>2. CASE LoopFree(s) \/ LoopGetNames(s) \/ LoopGetPackets(s)
  BY <1>1, <1>2 DEF LoopFree, LoopGetNames, LoopGetPackets
<1>3. CASE LoopDestroy(s)
  BY <1>1, <1>3, DeletionsOrderly DEF LoopDestroy, DeleteLoop
<1>4. ASSUME NEW cat \in NewCategory, LoopSetCategory(s, cat)
      PROVE  Orderly(db')
  <2>1. db' = db \/ (cat # Scalars /\ db' = UpdateCategory(db, c, n, cat))
    BY <1>4 DEF LoopSetCategory
  <2>. QED
    BY <1>1, <2>1, LoopUpdatesOrderly
<1>5. ASSUME NEW sp \in ItemSpelling, NEW val \in Value, LoopAddItem(s, sp, val)
      PROVE  Orderly(db')
  <2>1. \/ db' = db
        \/ /\ NormItem[sp] # Invalid
           /\ db' = AddItemInternal(db, c, n, NormItem[sp], val).db
    BY <1>5 DEF LoopAddItem, Result
  <2>2. NormItem[sp] # Invalid => NormItem[sp] \in ItemName
    BY NormAssumption
  <2> HIDE DEF c, n
  <2>. QED
    BY <1>1, <2>1, <2>2, AddItemOrderly
<1>6. ASSUME NEW pkt \in Packets, LoopAddPacket(s, pkt)
      PROVE  Orderly(db')
  BY <1>1, <1>6, AddPacketOrderly DEF LoopAddPacket
<1>. QED
  BY <1>2, <1>3, <1>4, <1>5, <1>6 DEF LoopCall

\* pktitr.c.  What cif_pktitr_remove_packet resets is the count of a loop that has
\* just lost its last packet: the handle says truly that the loop is the scalar one.
LEMMA IteratorOrderly ==
    ASSUME ~ UnsetsScalar, OrderInv, NEW it \in iters, IteratorCall(it)
    PROVE  Orderly(db') /\ DeliveredCounted'
<1> DEFINE l    == lh[it.slot]
           c    == l.container_id
           n    == l.loop_num
           prev == it.previous_row_num
<1>1. /\ Inv /\ Sound(db) /\ Orderly(db) /\ it \in Iterator /\ iters = {it}
      /\ Current(it, l, db) /\ Agrees(l, db)
      /\ \A r \in db.loop : r \in LoopRow
  BY DEF OrderInv, IterationInv, LoopHandleInv, LoopHandlesFit, HandleInv, Inv, TypeOK,
         TransactionIsIterators, IteratorHandleHeld, IterationCurrent, Current, Sound, Database
<1>2. prev \in Int /\ \A r \in db.loop : Denotes(r, c, n) => prev <= r.last_row_num
  BY <1>1 DEF Iterator, OrderInv, DeliveredCounted
<1>3. CASE UNCHANGED <<db, lh, iters>>
  BY <1>1, <1>3 DEF OrderInv, DeliveredCounted
<1>4. CASE NextPacket(it)
  <2>1. ASSUME NEW row \in RowNums(it.rows),
               Replace(it, [it EXCEPT !.rows = {v \in @ : v.row_num # row},
                                      !.previous_row_num = row])
        PROVE  DeliveredCounted'
    <3> DEFINE R   == {v \in it.rows : v.row_num # row}
               it2 == [it EXCEPT !.rows = R, !.previous_row_num = row]
    <3>1. iters' = {it2} /\ UNCHANGED <<db, lh>>
      BY <1>1, <1>4, <2>1 DEF Replace, NextPacket
    <3>2. it2.previous_row_num = row /\ it2.slot = it.slot
      BY <1>1 DEF Iterator
    <3>3. PICK v \in it.rows : v.row_num = row
      BY DEF RowNums
    <3>4. v \in LoopValues(db, c, n)
      BY <1>1, <3>3 DEF Current
    <3>5. \A r \in db.loop : Denotes(r, c, n) => row <= r.last_row_num
      BY <1>1, <3>3, <3>4 DEF Orderly, RowsIn, Denotes
    <3> HIDE DEF it2
    <3>. QED
      BY <3>1, <3>2, <3>5 DEF DeliveredCounted
  <2>. QED
    BY <1>1, <1>3, <1>4, <2>1 DEF NextPacket
<1>5. ASSUME NEW pkt \in Packets, UpdatePacket(it, pkt)
      PROVE  Orderly(db') /\ DeliveredCounted'
  <2>1. \/ db' = db
        \/ /\ ~ prev <= 0 /\ DOMAIN pkt \subseteq it.names
           /\ db' = ReplacePacket(db, c, pkt, prev)
    BY <1>5 DEF UpdatePacket, Atomically, Result
  <2>2. UNCHANGED <<lh, iters>>
    BY <1>5 DEF UpdatePacket
  <2>3. CASE db' = db
    BY <1>3, <2>2, <2>3
  <2>4. CASE ~ prev <= 0 /\ DOMAIN pkt \subseteq it.names /\ db' = ReplacePacket(db, c, pkt, prev)
    <3>1. DOMAIN pkt \subseteq LoopNames(db, c, n) /\ 0 < prev
      BY <1>1, <1>2, <2>4 DEF Current
    <3>2. db'.loop = db.loop
      BY <1>1, <2>4 DEF ReplacePacket, Sound, Database
    <3> HIDE DEF prev, c, n
    <3>3. Orderly(ReplacePacket(db, c, pkt, prev))
      BY <1>1, <1>2, <3>1, PacketsOrderly
    <3>4. DeliveredCounted'
      BY <2>2, <3>2 DEF OrderInv, DeliveredCounted
    <3>. QED
      BY <2>4, <3>3, <3>4
  <2>. QED
    BY <2>1, <2>3, <2>4
<1>6. CASE RemovePacket(it)
  <2> DEFINE it2 == [it EXCEPT !.previous_row_num = -1]
             d1  == DeletePacket(db, c, n, prev)
             d2  == ResetPacketNum(d1, c, n)
  <2>1. \/ UNCHANGED <<db, iters, lh>>
        \/ /\ ~ prev <= 0 /\ Replace(it, it2) /\ UNCHANGED lh
           /\ db' = d1 \/ (l.category = Scalars /\ db' = d2)
    BY <1>6 DEF RemovePacket, StartsOver
  <2>2. CASE /\ ~ prev <= 0 /\ Replace(it, it2) /\ UNCHANGED lh
             /\ db' = d1 \/ (l.category = Scalars /\ db' = d2)
    <3>1. Sound(d1) /\ Orderly(d1)
      BY <1>1, DeletePacketSound, DeletionsOrderly
    <3>2. ASSUME l.category = Scalars, NEW v \in LoopValues(d1, c, n)
          PROVE  FALSE
      <4>1. /\ d1.loop_item = db.loop_item
            /\ d1.item_value = db.item_value \ {w \in LoopValues(db, c, n) : w.row_num = prev}
        BY <1>1 DEF DeletePacket, Sound, Database
      <4>2. LoopNames(d1, c, n) = LoopNames(db, c, n)
        BY <4>1 DEF LoopNames, LoopItems
      <4> HIDE DEF d1
      <4>3. v \in LoopValues(db, c, n) /\ v.row_num # prev
        BY <3>2, <4>1, <4>2, LoopQueries
      <4>4. LoopExists(db, c, n)
        BY <1>1, <4>3, LoopQueries DEF Sound, ForeignKeys
      <4>5. PICK r \in db.loop : Denotes(r, c, n)
        BY <4>4 DEF LoopExists, Denotes
      <4>6. r.category = Scalars
        BY <1>1, <3>2, <4>5 DEF Agrees, SameKind
      <4>7. r.last_row_num <= 1 /\ 0 < v.row_num /\ v.row_num <= r.last_row_num
        BY <1>1, <4>3, <4>5, <4>6 DEF Orderly, ScalarsIn, RowsIn, Denotes
      <4>8. prev <= r.last_row_num /\ 0 < prev
        BY <1>2, <2>2, <4>5
      <4>9. v.row_num \in Nat /\ r.last_row_num \in Nat
        BY <1>1, <4>3, <4>5 DEF LoopValues, Sound, Database, ValueRow, LoopRow
      <4>. QED
        BY <1>2, <4>3, <4>7, <4>8, <4>9
    <3> HIDE DEF d1
    <3>3. Orderly(db')
      <4>1. l.category = Scalars => LoopValues(d1, c, n) = {}
        BY <3>2
      <4>. QED
        BY <2>2, <3>1, <4>1, LoopUpdatesOrderly
    <3>4. it2.previous_row_num = -1
      BY <1>1 DEF Iterator
    <3>5. iters' = {it2}
      BY <1>1, <2>2 DEF Replace
    <3>6. Sound(db')
      BY <2>2, <3>1, ResetPacketNumSound
    <3>7. \A r \in db'.loop : r.last_row_num \in Nat
      BY <3>6 DEF Sound, Database, LoopRow
    <3> HIDE DEF it2
    <3>8. DeliveredCounted'
      BY <3>4, <3>5, <3>7 DEF DeliveredCounted
    <3>. QED
      BY <3>3, <3>8
  <2>. QED
    BY <1>3, <2>1, <2>2
<1>7. CASE CloseIterator(it) \/ AbortIterator(it)
  <2>1. iters' = {} /\ (db' = db \/ db' = saved)
    BY <1>1, <1>7 DEF CloseIterator, AbortIterator, Release
  <2>. QED
    BY <2>1 DEF OrderInv, DeliveredCounted
<1>8. NextPacket(it) => db' = db
  BY DEF NextPacket
<1>. QED
  BY <1>1, <1>4, <1>5, <1>6, <1>7, <1>8 DEF IteratorCall

\* What is kept for a rollback is what was kept already, the database as it is when
\* cif_loop_get_packets opens the transaction, or nothing.
LEMMA WhatIsSaved == Next => saved' \in {saved, db, EmptyDatabase}
<1>1. BlockCall => saved' = saved
  BY DEF BlockCall, CreateBlock, CreateContainer, GetBlock
<1>2. ASSUME NEW c \in Ids, ContainerCall(c)
      PROVE  saved' = saved
  <2>1. ASSUME NEW sp \in CodeSpelling, CreateFrame(c, sp) \/ GetFrame(c, sp)
        PROVE  saved' = saved
    BY <2>1 DEF CreateFrame, CreateContainer, GetFrame
  <2>2. DestroyContainer(c) \/ PruneContainer(c) => saved' = saved
    BY DEF DestroyContainer, PruneContainer
  <2>3. ASSUME NEW s \in Slot, GetAllLoops(c, s)
        PROVE  saved' = saved
    BY <2>3 DEF GetAllLoops
  <2>4. ASSUME NEW s \in Slot, NEW cat \in AnyCategory, GetCategoryLoop(c, cat, s)
        PROVE  saved' = saved
    BY <2>4 DEF GetCategoryLoop, GetLoop
  <2>5. ASSUME NEW s \in Slot, NEW cat \in LoopCategory, NEW names \in NameLists,
               CreateLoop(c, cat, names, s)
        PROVE  saved' = saved
    BY <2>5 DEF CreateLoop
  <2>6. ASSUME NEW sp \in ItemSpelling, GetValue(c, sp) \/ RemoveItem(c, sp)
        PROVE  saved' = saved
    BY <2>6 DEF GetValue, RemoveItem
  <2>7. ASSUME NEW sp \in ItemSpelling, NEW s \in Slot, GetItemLoop(c, sp, s)
        PROVE  saved' = saved
    BY <2>7 DEF GetItemLoop, GetLoop
  <2>8. ASSUME NEW sp \in ItemSpelling, NEW val \in Value, SetValue(c, sp, val)
        PROVE  saved' = saved
    BY <2>8 DEF SetValue
  <2>. QED
    BY <1>2, <2>1, <2>2, <2>3, <2>4, <2>5, <2>6, <2>7, <2>8 DEF ContainerCall
<1>3. ASSUME NEW s \in DOMAIN lh, LoopCall(s)
      PROVE  saved' \in {saved, db}
  <2>1. LoopGetPackets(s) => saved' \in {saved, db}
    BY DEF LoopGetPackets
  <2>2. LoopFree(s) \/ LoopDestroy(s) \/ LoopGetNames(s) => saved' = saved
    BY DEF LoopFree, LoopDestroy, LoopGetNames
  <2>3. ASSUME NEW cat \in NewCategory, LoopSetCategory(s, cat)
        PROVE  saved' = saved
    BY <2>3 DEF LoopSetCategory
  <2>4. ASSUME NEW sp \in ItemSpelling, NEW val \in Value, LoopAddItem(s, sp, val)
        PROVE  saved' = saved
    BY <2>4 DEF LoopAddItem
  <2>5. ASSUME NEW pkt \in Packets, LoopAddPacket(s, pkt)
        PROVE  saved' = saved
    BY <2>5 DEF LoopAddPacket
  <2>. QED
    BY <1>3, <2>1, <2>2, <2>3, <2>4, <2>5 DEF LoopCall
<1>4. ASSUME NEW it \in iters, IteratorCall(it)
      PROVE  saved' \in {saved, EmptyDatabase}
  BY <1>4 DEF IteratorCall, NextPacket, UpdatePacket, RemovePacket, CloseIterator,
              AbortIterator, Release
<1>. QED
  BY <1>1, <1>2, <1>3, <1>4 DEF Next

\* Every step keeps packets counted and scalar loops scalar.
LEMMA NextOrderInv == ~ UnsetsScalar /\ OrderInv /\ [Next]_vars => OrderInv'
<1>. SUFFICES ASSUME ~ UnsetsScalar, OrderInv, [Next]_vars PROVE OrderInv'
  OBVIOUS
<1>1. IterationInv /\ IterationInv' /\ LoopHandleInv /\ Sound(db)
  BY NextIterationInv DEF OrderInv, IterationInv, LoopHandleInv, HandleInv, Inv
<1>2. ASSUME Unnoticed
      PROVE  DeliveredCounted'
  BY <1>2 DEF Unnoticed, Undisturbed, Denotes, OrderInv, DeliveredCounted
<1>3. ASSUME NEW s \in DOMAIN lh, LoopCall(s)
      PROVE  DeliveredCounted'
  <2>1. CASE UNCHANGED iters
    BY <1>1, <1>2, <1>3, <2>1, LoopUnnoticed
  <2>2. CASE LoopGetPackets(s)
    <3> DEFINE it == [slot |-> s,
                      rows |-> LoopValues(db, lh[s].container_id, lh[s].loop_num),
                      previous_row_num |-> -1,
                      names |-> LoopNames(db, lh[s].container_id, lh[s].loop_num)]
    <3>1. UNCHANGED <<db, lh>> /\ (UNCHANGED iters \/ iters' = iters \cup {it})
      BY <2>2 DEF LoopGetPackets
    <3>2. it.previous_row_num = -1
      OBVIOUS
    <3>3. \A r \in db.loop : r.last_row_num \in Nat
      BY <1>1 DEF Sound, Database, LoopRow
    <3> HIDE DEF it
    <3>. QED
      BY <3>1, <3>2, <3>3 DEF OrderInv, DeliveredCounted
  <2>. QED
    BY <1>3, <2>1, <2>2 DEF LoopCall, LoopFree, LoopDestroy, LoopSetCategory, LoopGetNames,
                            LoopAddItem, LoopAddPacket
<1>4. Orderly(saved')
  <2>1. saved' \in {saved, db, EmptyDatabase}
    BY WhatIsSaved DEF vars
  <2>2. Orderly(EmptyDatabase)
    BY DEF EmptyDatabase, Orderly, RowsIn, ScalarsIn
  <2>. QED
    BY <2>1, <2>2 DEF OrderInv
<1>5. CASE UNCHANGED vars
  BY <1>1, <1>4, <1>5 DEF vars, OrderInv, DeliveredCounted
<1>6. CASE Next
  <2>1. Orderly(db')
    BY <1>6, ContainerOrderly, LoopOrderly, IteratorOrderly DEF Next
  <2>2. DeliveredCounted'
    BY <1>1, <1>2, <1>3, <1>6, CreationUnnoticed, ContainerUnnoticed, IteratorOrderly DEF Next
  <2>. QED
    BY <1>1, <1>4, <2>1, <2>2 DEF OrderInv
<1>. QED
  BY <1>5, <1>6

\* Before any call there are no loops.
LEMMA InitOrderInv == Init => OrderInv
BY InitLoopHandleInv DEF Init, OrderInv, IterationInv, IterationCurrent, DeliveredCounted,
                         EmptyDatabase, Orderly, RowsIn, ScalarsIn

\* As long as the application obeys the documentation and never takes its category
\* from the scalar loop: the packets of a loop have numbers from 1 to its
\* last_row_num, so that the number cif_loop_add_packet gives to the next is free.
THEOREM RowsStayBelowLast ==
    ASSUME ~ UnsetsScalar
    PROVE  Spec => []RowsBelowLast
<1>1. OrderInv => RowsBelowLast
  BY DEF OrderInv, Orderly, RowsIn, RowsBelowLast
<1>. QED
  BY <1>1, InitOrderInv, NextOrderInv, PTL DEF Spec

\* Under the same condition a container has one scalar loop at most and that loop
\* one packet at most, though the schema's triggers count packets and
\* cif_pktitr_remove_packet resets the count on the word of a loop handle.
THEOREM ScalarsStayScalar ==
    ASSUME ~ UnsetsScalar
    PROVE  Spec => []ScalarsAreScalar
<1>1. OrderInv => ScalarsAreScalar
  <2> SUFFICES ASSUME OrderInv PROVE ScalarsAreScalar
    OBVIOUS
  <2>1. Orderly(db) /\ Sound(db)
    BY DEF OrderInv, IterationInv, LoopHandleInv, HandleInv, Inv
  <2>2. ASSUME NEW r \in db.loop, r.category = Scalars,
               NEW v \in LoopValues(db, r.container_id, r.loop_num)
        PROVE  v.row_num = 1
    <3>1. 0 < v.row_num /\ v.row_num <= r.last_row_num /\ r.last_row_num <= 1
      BY <2>1, <2>2 DEF Orderly, RowsIn, ScalarsIn
    <3>2. v.row_num \in Nat /\ r.last_row_num \in Nat
      BY <2>1 DEF LoopValues, Sound, Database, ValueRow, LoopRow
    <3>. QED
      BY <3>1, <3>2
  <2>. QED
    BY <2>1, <2>2 DEF Orderly, ScalarsIn, ScalarsAreScalar
<1>. QED
  BY <1>1, InitOrderInv, NextOrderInv, PTL DEF Spec
=============================================================================
