----------------------------- MODULE CifMapProofs -----------------------------
(***************************************************************************)
(* Who owns the strings of packets and tables, for any number of handles,  *)
(* items, spellings and values.  The strings of an entry are in blocks     *)
(* first used for its map and its item, so that entries of different items *)
(* or maps share none; that leaves to show that every operation frees just *)
(* what its entry leaves behind, in particular where an entry has one      *)
(* string in both places, and that a map never has two entries of one      *)
(* item.  All of it holds as long as the application does not set, under   *)
(* another spelling, an item whose two strings are one                     *)
(* (~ RespellNormalized), after which the code is in undefined behaviour.  *)
(***************************************************************************)
EXTENDS CifMap, SelectionProofs

BlockName == (Maps \cup {Unk}) \X Items \X (1 .. 3)

Entry == [key : BlockName, orig : BlockName, val : Vals]

\* A memory: blocks with strings
Memory(M) == M \in [DOMAIN M -> Spelling] /\ DOMAIN M \subseteq BlockName

HeldBy(es) == UNION {{es[i].key, es[i].orig} : i \in DOMAIN es}

\* The entry e of map m has strings of its own map and item, that match.
EntryFits(M, m, e) ==
    /\ {e.key, e.orig} \subseteq DOMAIN M
    /\ e.key[1] = m /\ e.orig[1] = m
    /\ e.key[2] = M[e.orig].item /\ e.orig[2] = M[e.orig].item
    /\ M[e.key] = Norm(M[e.orig])

\* The entries es can be those of map m, every item at most once.
EntriesFit(M, m, es) ==
    /\ es \in Seq(Entry)
    /\ \A i \in DOMAIN es : EntryFits(M, m, es[i])
    /\ \A i, j \in DOMAIN es : es[i].orig[2] = es[j].orig[2] => i = j

\* Nothing else is allocated for m.
AllHeld(M, m, es) == \A b \in DOMAIN M : b[1] = m => b \in HeldBy(es)

MapFits(M, m, es) == EntriesFit(M, m, es) /\ AllHeld(M, m, es)

\* The names of the iterator are normalized, and they are all it has.
IterFits(M, it) ==
    /\ it \in Seq(BlockName) /\ Len(it) <= MaxNames
    /\ \A i \in DOMAIN it : /\ it[i] \in DOMAIN M /\ it[i][1] = Unk
                            /\ it[i][2] = M[it[i]].item /\ M[it[i]].form = 0
    /\ \A i, j \in DOMAIN it : it[i][2] = it[j][2] => i = j
    /\ \A b \in DOMAIN M : b[1] = Unk => b \in Range(it)

\* What is inductive
MapInv ==
    /\ Memory(mem)
    /\ DOMAIN maps \subseteq Maps /\ maps \in [DOMAIN maps -> Seq(Entry)]
    /\ \A m \in DOMAIN maps : MapFits(mem, m, maps[m])
    /\ \A b \in DOMAIN mem : b[1] \in DOMAIN maps \cup {Unk}
    /\ IterFits(mem, itr)

\* Nothing changes for h.
SameFor(M, N, h) ==
    \A b \in BlockName : b[1] = h => /\ b \in DOMAIN M <=> b \in DOMAIN N
                                     /\ b \in DOMAIN M => N[b] = M[b]

-----------------------------------------------------------------------------
(* Memory. *)

\* Where no string of an item is allocated, the first blocks are given out.
LEMMA BlockFresh ==
    ASSUME NEW h, NEW s, \A n \in 1 .. 3 : <<h, s.item, n>> \notin DOMAIN mem
    PROVE  Block(h, s, 1) = <<h, s.item, 1>> /\ Block(h, s, 2) = <<h, s.item, 2>>
<1>1. {n \in 1 .. 3 : <<h, s.item, n>> \notin DOMAIN mem} = 1 .. 3
  OBVIOUS
<1>2. Ascending(1 .. 3)[1] = 1 /\ Ascending(1 .. 3)[2] = 2
  <2>1. 3 \in Nat /\ 1 \in 1 .. 3 /\ 2 \in 1 .. 3
    OBVIOUS
  <2>. QED
    BY <2>1, AscendingInterval
<1>. QED
  BY <1>1, <1>2 DEF Block

\* A normalized name is its own normalized form.
LEMMA NormType ==
    ASSUME NEW s \in Spelling
    PROVE  /\ Norm(s) \in Spelling /\ Norm(s).item = s.item /\ Norm(s).form = 0
           /\ s.form = 0 => Norm(s) = s
BY MapAssumption DEF Spelling, Norm

\* Spellings of one item have one normalized form.
LEMMA NormOfItem ==
    ASSUME NEW s \in Spelling, NEW t \in Spelling
    PROVE  (Norm(s) = Norm(t)) <=> (s.item = t.item)
BY DEF Spelling, Norm

\* What an allocation that frees does
LEMMA StoreEffect ==
    ASSUME Memory(mem), NEW h \in Maps \cup {Unk}, NEW new, NEW freed, Store(new, freed),
           new \in [DOMAIN new -> Spelling],
           \A b \in DOMAIN new : b \in BlockName /\ b[1] = h,
           \A b \in freed : b[1] = h
    PROVE  /\ Memory(mem')
           /\ \A b : b \in DOMAIN mem' <=> (b \in DOMAIN mem /\ b \notin freed) \/ b \in DOMAIN new
           /\ \A b \in DOMAIN mem' : mem'[b] = IF b \in DOMAIN new THEN new[b] ELSE mem[b]
           /\ \A k : k # h => SameFor(mem, mem', k)
<1>1. mem' = [b \in (DOMAIN mem \ freed) \cup DOMAIN new |->
                IF b \in DOMAIN new THEN new[b] ELSE mem[b]]
  BY DEF Store
<1>2. /\ \A b : b \in DOMAIN mem' <=> (b \in DOMAIN mem /\ b \notin freed) \/ b \in DOMAIN new
      /\ \A b \in DOMAIN mem' : mem'[b] = IF b \in DOMAIN new THEN new[b] ELSE mem[b]
  BY <1>1
<1>3. Memory(mem')
  BY <1>1, <1>2 DEF Memory
<1>4. \A k : k # h => SameFor(mem, mem', k)
  BY <1>2 DEF SameFor
<1>. QED
  BY <1>2, <1>3, <1>4

\* What freeing does
LEMMA FreeEffect ==
    ASSUME Memory(mem), NEW h \in Maps \cup {Unk}, NEW freed, Free(freed),
           \A b \in freed : b[1] = h
    PROVE  /\ Memory(mem')
           /\ \A b : b \in DOMAIN mem' <=> b \in DOMAIN mem /\ b \notin freed
           /\ \A b \in DOMAIN mem' : mem'[b] = mem[b]
           /\ \A k : k # h => SameFor(mem, mem', k)
<1>1. mem' = [b \in DOMAIN mem \ freed |-> mem[b]]
  BY DEF Free, Restrict
<1>2. /\ \A b : b \in DOMAIN mem' <=> b \in DOMAIN mem /\ b \notin freed
      /\ \A b \in DOMAIN mem' : mem'[b] = mem[b]
  BY <1>1
<1>3. Memory(mem')
  BY <1>1, <1>2 DEF Memory
<1>4. \A k : k # h => SameFor(mem, mem', k)
  BY <1>2 DEF SameFor
<1>. QED
  BY <1>2, <1>3, <1>4

\* The names nms of h can be added, the ones in `two' in two forms: no item is
\* named twice, or has strings of h already, and a name that is to serve as its
\* key as well is normalized.
Addable(h, nms, two) ==
    /\ nms \in Seq(Spelling) /\ two \subseteq DOMAIN nms
    /\ \A i, j \in DOMAIN nms : nms[i].item = nms[j].item => i = j
    /\ \A i \in DOMAIN nms, n \in 1 .. 3 : <<h, nms[i].item, n>> \notin DOMAIN mem
    /\ \A i \in DOMAIN nms \ two : nms[i].form = 0

\* The strings of new entries
LEMMA NewStringsEffect ==
    ASSUME NEW h \in Maps \cup {Unk}, NEW nms, NEW two, Addable(h, nms, two)
    PROVE  /\ NewStrings(h, nms, two) \in [DOMAIN NewStrings(h, nms, two) -> Spelling]
           /\ \A b \in DOMAIN NewStrings(h, nms, two) :
                 /\ b \in BlockName /\ b[1] = h
                 /\ \E i \in DOMAIN nms :
                       b = Block(h, nms[i], 1) \/ (i \in two /\ b = Block(h, nms[i], 2))
           /\ \A i \in DOMAIN nms :
                 /\ Block(h, nms[i], 1) \in DOMAIN NewStrings(h, nms, two)
                 /\ i \in two => Block(h, nms[i], 2) \in DOMAIN NewStrings(h, nms, two)
           /\ \A i \in DOMAIN nms :
                 /\ Block(h, nms[i], 1) = <<h, nms[i].item, 1>>
                 /\ Block(h, nms[i], 2) = <<h, nms[i].item, 2>>
                 /\ NewStrings(h, nms, two)[Block(h, nms[i], 1)] = Norm(nms[i])
                 /\ i \in two => NewStrings(h, nms, two)[Block(h, nms[i], 2)] = nms[i]
<1> DEFINE new == NewStrings(h, nms, two)
           key(i) == Block(h, nms[i], 1)
           orig(i) == Block(h, nms[i], 2)
           keys == {key(i) : i \in DOMAIN nms}
           names == {orig(i) : i \in two}
           Named(b) == nms[CHOOSE i \in DOMAIN nms : b \in {key(i), orig(i)}]
<1>1. /\ two \subseteq DOMAIN nms
      /\ \A i \in DOMAIN nms : nms[i] \in Spelling /\ nms[i].item \in Items
      /\ \A i, j \in DOMAIN nms : nms[i].item = nms[j].item => i = j
  <2>1. nms \in Seq(Spelling)
    BY DEF Addable
  <2>2. \A i \in DOMAIN nms : nms[i] \in Spelling
    BY <2>1
  <2>. QED
    BY <2>2 DEF Addable, Spelling
<1>2. ASSUME NEW i \in DOMAIN nms
      PROVE  key(i) = <<h, nms[i].item, 1>> /\ orig(i) = <<h, nms[i].item, 2>>
  <2>1. \A n \in 1 .. 3 : <<h, nms[i].item, n>> \notin DOMAIN mem
    BY DEF Addable
  <2>. QED
    BY <2>1, BlockFresh
<1>3. new = [b \in keys \cup names |-> IF b \in keys THEN Norm(Named(b)) ELSE Named(b)]
  BY DEF NewStrings
<1> HIDE DEF key, orig, new
<1>4. ASSUME NEW i \in DOMAIN nms
      PROVE  Named(key(i)) = nms[i] /\ Named(orig(i)) = nms[i]
  <2>1. \A j \in DOMAIN nms : key(i) \in {key(j), orig(j)} => j = i
    BY <1>1, <1>2
  <2>2. \A j \in DOMAIN nms : orig(i) \in {key(j), orig(j)} => j = i
    BY <1>1, <1>2
  <2>. QED
    BY <2>1, <2>2
<1> HIDE DEF Named
<1>5. \A i \in DOMAIN nms : key(i) \in keys /\ orig(i) \notin keys
  BY <1>2
<1>6. \A i \in two : orig(i) \in names
  OBVIOUS
<1>7. DOMAIN new = keys \cup names
  BY <1>3
<1>8. \A i \in DOMAIN nms : new[key(i)] = Norm(nms[i])
  BY <1>3, <1>4, <1>5
<1>9. \A i \in two : new[orig(i)] = nms[i]
  BY <1>1, <1>3, <1>4, <1>5, <1>6
<1>10. \A b \in DOMAIN new : new[b] \in Spelling
  BY <1>1, <1>7, <1>8, <1>9, NormType
<1>11. \A b \in DOMAIN new : b \in BlockName /\ b[1] = h
  BY <1>1, <1>2, <1>7 DEF BlockName
<1>12. new \in [DOMAIN new -> Spelling]
  BY <1>3, <1>7, <1>10
<1>13. \A b \in DOMAIN new :
          \E i \in DOMAIN nms : b = key(i) \/ (i \in two /\ b = orig(i))
  BY <1>1, <1>7
<1>14. \A i \in DOMAIN nms : key(i) \in DOMAIN new /\ (i \in two => orig(i) \in DOMAIN new)
  BY <1>5, <1>6, <1>7
<1>. QED
  BY <1>1, <1>2, <1>8, <1>9, <1>11, <1>12, <1>13, <1>14 DEF key, orig, new

-----------------------------------------------------------------------------
(* Maps and the iterator. *)

\* The strings of entries
LEMMA InHeldBy ==
    ASSUME NEW es, NEW b
    PROVE  b \in HeldBy(es) <=> \E i \in DOMAIN es : b = es[i].key \/ b = es[i].orig
BY DEF HeldBy

\* What is allocated for others is nothing to a map.
LEMMA FitsFrame ==
    ASSUME NEW M, NEW N, NEW m, NEW es, SameFor(M, N, m), MapFits(M, m, es),
           DOMAIN M \subseteq BlockName, DOMAIN N \subseteq BlockName
    PROVE  /\ MapFits(N, m, es)
           /\ \A i \in DOMAIN es : N[es[i].orig] = M[es[i].orig]
<1>1. \A i \in DOMAIN es : /\ es[i].key \in DOMAIN M /\ es[i].orig \in DOMAIN M
                           /\ es[i].key[1] = m /\ es[i].orig[1] = m
  BY DEF MapFits, EntriesFit, EntryFits
<1>2. \A i \in DOMAIN es : /\ es[i].key \in DOMAIN N /\ N[es[i].key] = M[es[i].key]
                           /\ es[i].orig \in DOMAIN N /\ N[es[i].orig] = M[es[i].orig]
  BY <1>1 DEF SameFor
<1>3. \A i \in DOMAIN es : EntryFits(N, m, es[i])
  BY <1>2 DEF MapFits, EntriesFit, EntryFits
<1>4. AllHeld(N, m, es)
  BY DEF SameFor, MapFits, AllHeld
<1>. QED
  BY <1>2, <1>3, <1>4 DEF MapFits, EntriesFit

\* Nor to the iterator.
LEMMA IterFrame ==
    ASSUME NEW M, NEW N, NEW it, SameFor(M, N, Unk), IterFits(M, it),
           DOMAIN M \subseteq BlockName, DOMAIN N \subseteq BlockName
    PROVE  /\ IterFits(N, it)
           /\ \A i \in DOMAIN it : N[it[i]] = M[it[i]]
<1>1. \A i \in DOMAIN it : it[i] \in DOMAIN N /\ N[it[i]] = M[it[i]]
  BY DEF SameFor, IterFits
<1>2. \A b \in DOMAIN N : b[1] = Unk => b \in Range(it)
  BY DEF SameFor, IterFits
<1>. QED
  BY <1>1, <1>2 DEF IterFits

\* Entries fit as long as their strings are there.
LEMMA FitsElsewhere ==
    ASSUME NEW M, NEW N, NEW m, NEW es, EntriesFit(M, m, es),
           \A i \in DOMAIN es : /\ es[i].key \in DOMAIN N /\ N[es[i].key] = M[es[i].key]
                                /\ es[i].orig \in DOMAIN N /\ N[es[i].orig] = M[es[i].orig]
    PROVE  EntriesFit(N, m, es) /\ Shown(N, es) = Shown(M, es)
<1>1. \A i \in DOMAIN es : EntryFits(N, m, es[i])
  BY DEF EntriesFit, EntryFits
<1>. QED
  BY <1>1 DEF EntriesFit, Shown

\* Values make no difference.
LEMMA FitsWithValues ==
    ASSUME NEW M, NEW m, NEW es, EntriesFit(M, m, es),
           NEW fs \in Seq(Entry), DOMAIN fs = DOMAIN es,
           \A i \in DOMAIN es : fs[i].key = es[i].key /\ fs[i].orig = es[i].orig
    PROVE  /\ EntriesFit(M, m, fs)
           /\ \A b : b \in HeldBy(fs) <=> b \in HeldBy(es)
<1>1. \A i \in DOMAIN fs : EntryFits(M, m, fs[i])
  BY DEF EntriesFit, EntryFits
<1>2. \A b : b \in HeldBy(fs) <=> b \in HeldBy(es)
  BY InHeldBy
<1>. QED
  BY <1>1, <1>2 DEF EntriesFit

\* What is seen is as long as what there is.
LEMMA ShownType ==
    ASSUME NEW M, Memory(M), NEW m, NEW es, EntriesFit(M, m, es)
    PROVE  /\ Shown(M, es) \in Seq([name : Spelling, val : Vals])
           /\ Len(Shown(M, es)) = Len(es) /\ DOMAIN Shown(M, es) = DOMAIN es
<1> DEFINE R == [name : Spelling, val : Vals]
<1>1. es \in Seq(Entry) /\ DOMAIN es = 1 .. Len(es) /\ Len(es) \in Nat
  BY DEF EntriesFit
<1>2. ASSUME NEW i \in DOMAIN es
      PROVE  [name |-> M[es[i].orig], val |-> es[i].val] \in R
  <2>1. es[i] \in Entry /\ es[i].orig \in DOMAIN M
    BY <1>1 DEF EntriesFit, EntryFits
  <2>2. es[i].val \in Vals /\ M[es[i].orig] \in Spelling
    BY <2>1 DEF Entry, Memory
  <2>. QED
    BY <2>2
<1>3. Shown(M, es) = [i \in 1 .. Len(es) |-> [name |-> M[es[i].orig], val |-> es[i].val]]
  BY <1>1 DEF Shown
<1> HIDE DEF R
<1>4. Shown(M, es) \in Seq(R) /\ Len(Shown(M, es)) = Len(es)
  BY <1>1, <1>2, <1>3
<1>. QED
  BY <1>1, <1>3, <1>4 DEF R

\* A sequence that agrees with one and then with another is both together.
LEMMA ConcatByElements ==
    ASSUME NEW T, NEW x \in Seq(T), NEW y \in Seq(T), NEW z \in Seq(T),
           Len(x) = Len(y) + Len(z),
           \A i \in 1 .. Len(y) : x[i] = y[i],
           \A j \in 1 .. Len(z) : x[Len(y) + j] = z[j]
    PROVE  x = y \o z
<1>1. y \o z \in Seq(T) /\ Len(y \o z) = Len(x) /\ Len(y) \in Nat /\ Len(z) \in Nat
  OBVIOUS
<1>2. ASSUME NEW i \in 1 .. Len(x)
      PROVE  x[i] = (y \o z)[i]
  <2>1. CASE i <= Len(y)
    BY <1>1, <2>1
  <2>2. CASE ~ (i <= Len(y))
    <3>1. i - Len(y) \in 1 .. Len(z) /\ Len(y) + (i - Len(y)) = i
      BY <1>1, <2>2
    <3>2. (y \o z)[i] = z[i - Len(y)]
      BY <1>1, <2>2
    <3>3. x[i] = z[i - Len(y)]
      BY <3>1
    <3>. QED
      BY <3>2, <3>3
  <2>. QED
    BY <2>1, <2>2
<1>. QED
  BY <1>1, <1>2, SeqEqual

\* Entries of other items can follow.
LEMMA FitsConcat ==
    ASSUME NEW M, Memory(M), NEW m, NEW es, EntriesFit(M, m, es),
           NEW fs, EntriesFit(M, m, fs),
           \A i \in DOMAIN es, j \in DOMAIN fs : es[i].orig[2] # fs[j].orig[2]
    PROVE  /\ EntriesFit(M, m, es \o fs)
           /\ \A b : b \in HeldBy(es \o fs) <=> b \in HeldBy(es) \/ b \in HeldBy(fs)
           /\ Shown(M, es \o fs) = Shown(M, es) \o Shown(M, fs)
<1> DEFINE c == es \o fs
           l == Len(es)
           n == Len(fs)
<1>1. /\ es \in Seq(Entry) /\ fs \in Seq(Entry) /\ l \in Nat /\ n \in Nat
      /\ DOMAIN es = 1 .. l /\ DOMAIN fs = 1 .. n
  BY DEF EntriesFit
<1>2. /\ c \in Seq(Entry) /\ DOMAIN c = 1 .. l + n
      /\ \A i \in 1 .. l : c[i] = es[i]
      /\ \A j \in 1 .. n : c[l + j] = fs[j]
  BY <1>1
<1> HIDE DEF c, l, n
<1>3. \A i \in 1 .. l + n : i \in 1 .. l \/ \E j \in 1 .. n : i = l + j
  <2> TAKE i \in 1 .. l + n
  <2>1. i \in 1 .. l \/ (i - l \in 1 .. n /\ i = l + (i - l))
    BY <1>1
  <2>. QED
    BY <2>1
<1>4. (\A i \in 1 .. l : i \in 1 .. l + n) /\ (\A j \in 1 .. n : l + j \in 1 .. l + n)
  BY <1>1
<1>5. /\ \A i \in 1 .. l : EntryFits(M, m, es[i])
      /\ \A j \in 1 .. n : EntryFits(M, m, fs[j])
      /\ \A i, j \in 1 .. l : es[i].orig[2] = es[j].orig[2] => i = j
      /\ \A i, j \in 1 .. n : fs[i].orig[2] = fs[j].orig[2] => i = j
      /\ \A i \in 1 .. l, j \in 1 .. n : es[i].orig[2] # fs[j].orig[2]
  BY <1>1 DEF EntriesFit
<1>6. EntriesFit(M, m, c)
  <2>1. ASSUME NEW i \in DOMAIN c
        PROVE  EntryFits(M, m, c[i])
    <3>1. CASE i \in 1 .. l
      BY <1>2, <1>5, <3>1
    <3>2. ASSUME NEW j \in 1 .. n, i = l + j
          PROVE  EntryFits(M, m, c[i])
      BY <1>2, <1>5, <3>2
    <3>. QED
      BY <1>2, <1>3, <3>1, <3>2
  <2>2. ASSUME NEW i \in DOMAIN c, NEW j \in DOMAIN c, c[i].orig[2] = c[j].orig[2]
        PROVE  i = j
    <3>1. CASE i \in 1 .. l /\ j \in 1 .. l
      BY <1>2, <1>5, <2>2, <3>1
    <3>2. ASSUME NEW a \in 1 .. n, i = l + a, NEW b \in 1 .. n, j = l + b
          PROVE  i = j
      <4>1. fs[a].orig[2] = fs[b].orig[2]
        BY <1>2, <2>2, <3>2
      <4>. QED
        BY <1>5, <3>2, <4>1
    <3>3. ASSUME i \in 1 .. l, NEW b \in 1 .. n, j = l + b
          PROVE  FALSE
      <4>1. es[i].orig[2] = fs[b].orig[2]
        BY <1>2, <2>2, <3>3
      <4>. QED
        BY <1>5, <3>3, <4>1
    <3>4. ASSUME NEW a \in 1 .. n, i = l + a, j \in 1 .. l
          PROVE  FALSE
      <4>1. es[j].orig[2] = fs[a].orig[2]
        BY <1>2, <2>2, <3>4
      <4>. QED
        BY <1>5, <3>4, <4>1
    <3>. QED
      BY <1>2, <1>3, <3>1, <3>2, <3>3, <3>4
  <2>. QED
    BY <1>2, <2>1, <2>2 DEF EntriesFit
<1>7. \A b : b \in HeldBy(c) <=> b \in HeldBy(es) \/ b \in HeldBy(fs)
  <2>1. ASSUME NEW b, b \in HeldBy(c)
        PROVE  b \in HeldBy(es) \/ b \in HeldBy(fs)
    <3>1. PICK i \in DOMAIN c : b = c[i].key \/ b = c[i].orig
      BY <2>1, InHeldBy
    <3>2. ASSUME i \in 1 .. l
          PROVE  b \in HeldBy(es)
      BY <1>1, <1>2, <3>1, <3>2, InHeldBy
    <3>3. ASSUME NEW j \in 1 .. n, i = l + j
          PROVE  b \in HeldBy(fs)
      <4>1. c[i] = fs[j] /\ j \in DOMAIN fs
        BY <1>1, <1>2, <3>3
      <4>. QED
        BY <3>1, <4>1, InHeldBy
    <3>. QED
      BY <1>2, <1>3, <3>2, <3>3
  <2>2. ASSUME NEW b, b \in HeldBy(es)
        PROVE  b \in HeldBy(c)
    <3>1. PICK i \in DOMAIN es : b = es[i].key \/ b = es[i].orig
      BY <2>2, InHeldBy
    <3>. QED
      BY <1>1, <1>2, <1>4, <3>1, InHeldBy
  <2>3. ASSUME NEW b, b \in HeldBy(fs)
        PROVE  b \in HeldBy(c)
    <3>1. PICK j \in DOMAIN fs : b = fs[j].key \/ b = fs[j].orig
      BY <2>3, InHeldBy
    <3>. QED
      BY <1>1, <1>2, <1>4, <3>1, InHeldBy
  <2>. QED
    BY <2>1, <2>2, <2>3
<1>8. Shown(M, c) = Shown(M, es) \o Shown(M, fs)
  <2> DEFINE R == [name : Spelling, val : Vals]
             x == Shown(M, c)
             y == Shown(M, es)
             z == Shown(M, fs)
  <2>1. /\ x \in Seq(R) /\ Len(x) = l + n
        /\ y \in Seq(R) /\ Len(y) = l
        /\ z \in Seq(R) /\ Len(z) = n
    <3>1. Len(c) = l + n /\ Len(es) = l /\ Len(fs) = n
      BY <1>1, <1>2 DEF l, n
    <3>. QED
      BY <1>6, <3>1, ShownType
  <2>2. \A i \in 1 .. l : x[i] = y[i]
    BY <1>1, <1>2, <1>4 DEF Shown
  <2>3. \A j \in 1 .. n : x[l + j] = z[j]
    BY <1>1, <1>2, <1>4 DEF Shown
  <2> HIDE DEF x, y, z, R
  <2>4. x = y \o z
    BY <2>1, <2>2, <2>3, ConcatByElements
  <2>. QED
    BY <2>4 DEF x, y, z
<1>. QED
  BY <1>6, <1>7, <1>8 DEF c

\* The strings of some entries, freed
LEMMA InCleanAll ==
    ASSUME NEW es, NEW P \in SUBSET DOMAIN es, NEW b
    PROVE  b \in CleanAll(es, P) <=> \E i \in P : b = es[i].key \/ b = es[i].orig
BY DEF CleanAll, CleanMetadata

\* What is seen of a selection is selected from what is seen.
LEMMA ShownSelected ==
    ASSUME NEW M, NEW es \in Seq(Entry), NEW P \in SUBSET DOMAIN es
    PROVE  Shown(M, Selected(es, P)) = Selected(Shown(M, es), P)
<1> DEFINE fs == Selected(es, P)
           at(k) == Ascending(P)[k]
           n == Cardinality(P)
<1>1. DOMAIN fs = 1 .. n /\ \A k \in 1 .. n : at(k) \in P /\ fs[k] = es[at(k)]
  <2>1. /\ fs \in Seq(Entry) /\ Len(fs) = n /\ n \in Nat
        /\ \A k \in 1 .. n : at(k) \in P /\ fs[k] = es[at(k)]
    BY SelectedType
  <2>. QED
    BY <2>1
<1>2. Selected(Shown(M, es), P) = [k \in 1 .. n |-> Shown(M, es)[at(k)]]
  BY DEF Selected
<1> HIDE DEF fs, at, n
<1>3. \A k \in 1 .. n : Shown(M, es)[at(k)] = [name |-> M[fs[k].orig], val |-> fs[k].val]
  BY <1>1 DEF Shown
<1>4. Shown(M, fs) = [k \in 1 .. n |-> [name |-> M[fs[k].orig], val |-> fs[k].val]]
  BY <1>1 DEF Shown
<1>. QED
  BY <1>2, <1>3, <1>4 DEF fs

\* N has what M has, except for the strings that are gone.
KeepsOthers(M, N, gone) ==
    \A b \in DOMAIN M : b \notin gone => b \in DOMAIN N /\ N[b] = M[b]

\* When some entries are freed, the others keep their strings.
LEMMA FitsSelected ==
    ASSUME NEW M, NEW m, NEW es, EntriesFit(M, m, es), AllHeld(M, m, es),
           NEW P \in SUBSET DOMAIN es, NEW N, KeepsOthers(M, N, CleanAll(es, DOMAIN es \ P))
    PROVE  /\ EntriesFit(N, m, Selected(es, P))
           /\ \A b \in DOMAIN M : (b[1] = m /\ b \notin CleanAll(es, DOMAIN es \ P))
                                     => b \in HeldBy(Selected(es, P))
           /\ Shown(N, Selected(es, P)) = Shown(M, Selected(es, P))
<1> DEFINE fs == Selected(es, P)
           at(k) == Ascending(P)[k]
           n == Cardinality(P)
           gone == CleanAll(es, DOMAIN es \ P)
<1>1. es \in Seq(Entry)
  BY DEF EntriesFit
<1>2. /\ fs \in Seq(Entry) /\ DOMAIN fs = 1 .. n /\ n \in Nat
      /\ P \in SUBSET Int /\ IsFiniteSet(P)
      /\ \A k \in 1 .. n : at(k) \in P /\ fs[k] = es[at(k)]
  <2>1. /\ fs \in Seq(Entry) /\ Len(fs) = n /\ n \in Nat /\ IsFiniteSet(P)
        /\ \A k \in 1 .. n : at(k) \in P /\ fs[k] = es[at(k)]
    BY <1>1, SelectedType
  <2>2. DOMAIN es \in SUBSET Int
    BY <1>1
  <2>. QED
    BY <2>1, <2>2
<1>3. \A k, j \in 1 .. n : k # j => at(k) # at(j)
  BY <1>2, AscendingOrder
<1>4. \A i \in P : \E k \in 1 .. n : fs[k] = es[i]
  BY <1>1, SelectedCovers
<1> HIDE DEF fs, at, n, gone
<1>5. \A i \in DOMAIN es : EntryFits(M, m, es[i])
  BY DEF EntriesFit
<1>6. \A i, j \in DOMAIN es : es[i].orig[2] = es[j].orig[2] => i = j
  BY DEF EntriesFit
<1>7. ASSUME NEW i \in P
      PROVE  /\ es[i].key \in DOMAIN N /\ N[es[i].key] = M[es[i].key]
             /\ es[i].orig \in DOMAIN N /\ N[es[i].orig] = M[es[i].orig]
  <2>1. \A j \in DOMAIN es \ P : es[i].orig[2] # es[j].orig[2]
    BY <1>6
  <2>2. \A j \in DOMAIN es : es[j].key[2] = es[j].orig[2]
    BY <1>5 DEF EntryFits
  <2>3. \A j \in DOMAIN es \ P : {es[i].key, es[i].orig} \cap {es[j].key, es[j].orig} = {}
    BY <2>1, <2>2
  <2>4. es[i].key \notin gone /\ es[i].orig \notin gone
    <3>1. DOMAIN es \ P \in SUBSET DOMAIN es
      OBVIOUS
    <3>2. \A b : b \in gone => \E j \in DOMAIN es \ P : b = es[j].key \/ b = es[j].orig
      BY <3>1, InCleanAll DEF gone
    <3>. QED
      BY <2>3, <3>2
  <2>5. es[i].key \in DOMAIN M /\ es[i].orig \in DOMAIN M
    BY <1>5 DEF EntryFits
  <2>. QED
    BY <2>4, <2>5 DEF gone, KeepsOthers
<1>8. EntriesFit(M, m, fs)
  <2>1. \A k \in DOMAIN fs : EntryFits(M, m, fs[k])
    BY <1>2, <1>5
  <2>2. \A k, j \in DOMAIN fs : fs[k].orig[2] = fs[j].orig[2] => k = j
    BY <1>2, <1>3, <1>6
  <2>. QED
    BY <1>2, <2>1, <2>2 DEF EntriesFit
<1>9. EntriesFit(N, m, fs) /\ Shown(N, fs) = Shown(M, fs)
  <2>1. \A k \in DOMAIN fs : /\ fs[k].key \in DOMAIN N /\ N[fs[k].key] = M[fs[k].key]
                             /\ fs[k].orig \in DOMAIN N /\ N[fs[k].orig] = M[fs[k].orig]
    BY <1>2, <1>7
  <2>. QED
    BY <1>8, <2>1, FitsElsewhere
<1>10. ASSUME NEW b \in DOMAIN M, b[1] = m, b \notin gone
       PROVE  b \in HeldBy(fs)
  <2>1. PICK i \in DOMAIN es : b = es[i].key \/ b = es[i].orig
    BY <1>10, InHeldBy DEF AllHeld
  <2>2. i \in P
    <3>1. DOMAIN es \ P \in SUBSET DOMAIN es
      OBVIOUS
    <3>. QED
      BY <1>10, <2>1, <3>1, InCleanAll DEF gone
  <2>3. PICK k \in 1 .. n : fs[k] = es[i]
    BY <1>4, <2>2
  <2>. QED
    BY <1>2, <2>1, <2>3, InHeldBy
<1>. QED
  BY <1>2, <1>9, <1>10 DEF fs, at, gone

\* A map is put in place or replaced, and only its strings were touched.
LEMMA MapChanged ==
    ASSUME MapInv, NEW m \in Maps, NEW es, SetMap(m, es), itr' = itr,
           Memory(mem'), \A k : k # m => SameFor(mem, mem', k), MapFits(mem', m, es)
    PROVE  MapInv'
<1>1. /\ DOMAIN mem \subseteq BlockName /\ DOMAIN mem' \subseteq BlockName
      /\ m # Unk /\ es \in Seq(Entry)
  BY MapAssumption DEF MapInv, Memory, MapFits, EntriesFit
<1>2. /\ DOMAIN maps' = DOMAIN maps \cup {m} /\ maps'[m] = es
      /\ \A h \in DOMAIN maps \ {m} : maps'[h] = maps[h]
  BY DEF SetMap
<1>3. maps' \in [DOMAIN maps' -> Seq(Entry)] /\ DOMAIN maps' \subseteq Maps
  BY <1>1 DEF SetMap, MapInv
<1>4. ASSUME NEW h \in DOMAIN maps'
      PROVE  MapFits(mem', h, maps'[h])
  <2>1. CASE h = m
    BY <1>2, <2>1
  <2>2. CASE h # m
    <3>1. h \in DOMAIN maps /\ maps'[h] = maps[h] /\ MapFits(mem, h, maps[h])
      BY <1>2, <2>2 DEF MapInv
    <3>2. SameFor(mem, mem', h)
      BY <2>2
    <3>. QED
      BY <1>1, <3>1, <3>2, FitsFrame
  <2>. QED
    BY <2>1, <2>2
<1>5. ASSUME NEW b \in DOMAIN mem'
      PROVE  b[1] \in DOMAIN maps' \cup {Unk}
  <2>1. CASE b[1] = m
    BY <1>2, <2>1
  <2>2. CASE b[1] # m
    <3>1. b \in DOMAIN mem
      BY <1>1, <2>2 DEF SameFor
    <3>. QED
      BY <1>2, <3>1 DEF MapInv
  <2>. QED
    BY <2>1, <2>2
<1>6. IterFits(mem', itr')
  <2>1. SameFor(mem, mem', Unk) /\ IterFits(mem, itr)
    BY <1>1 DEF MapInv
  <2>2. IterFits(mem', itr)
    BY <1>1, <2>1, IterFrame
  <2>. QED
    BY <2>2
<1>. QED
  BY <1>3, <1>4, <1>5, <1>6 DEF MapInv

\* New entries fit where their strings are, and hold them all.
LEMMA NewEntriesFit ==
    ASSUME NEW m \in Maps, NEW nms, NEW two, Addable(m, nms, two),
           NEW vs, \A i \in DOMAIN nms : vs[i] \in Vals,
           NEW N, \A b \in DOMAIN NewStrings(m, nms, two) :
                     b \in DOMAIN N /\ N[b] = NewStrings(m, nms, two)[b]
    PROVE  LET es == NewEntries(m, nms, vs, two) IN
           /\ EntriesFit(N, m, es)
           /\ DOMAIN NewStrings(m, nms, two) \subseteq HeldBy(es)
           /\ DOMAIN es = DOMAIN nms
           /\ \A i \in DOMAIN es :
                 N[es[i].orig] = nms[i] /\ es[i].val = vs[i] /\ es[i].orig[2] = nms[i].item
<1> DEFINE es == NewEntries(m, nms, vs, two)
           new == NewStrings(m, nms, two)
           orig(i) == Block(m, nms[i], IF i \in two THEN 2 ELSE 1)
<1>1. m \in Maps \cup {Unk}
  OBVIOUS
<1>2. /\ \A b \in DOMAIN new :
            /\ b \in BlockName /\ b[1] = m
            /\ \E i \in DOMAIN nms :
                       b = Block(m, nms[i], 1) \/ (i \in two /\ b = Block(m, nms[i], 2))
      /\ \A i \in DOMAIN nms :
            /\ Block(m, nms[i], 1) \in DOMAIN new
            /\ i \in two => Block(m, nms[i], 2) \in DOMAIN new
      /\ \A i \in DOMAIN nms :
            /\ Block(m, nms[i], 1) = <<m, nms[i].item, 1>>
            /\ Block(m, nms[i], 2) = <<m, nms[i].item, 2>>
            /\ new[Block(m, nms[i], 1)] = Norm(nms[i])
            /\ i \in two => new[Block(m, nms[i], 2)] = nms[i]
  BY <1>1, NewStringsEffect
<1>3. es = [i \in DOMAIN nms |-> [key |-> Block(m, nms[i], 1), orig |-> orig(i), val |-> vs[i]]]
  BY DEF NewEntries
<1> HIDE DEF es, new
<1>4. /\ nms \in Seq(Spelling) /\ two \subseteq DOMAIN nms
      /\ \A i \in DOMAIN nms : nms[i] \in Spelling
      /\ \A i, j \in DOMAIN nms : nms[i].item = nms[j].item => i = j
      /\ \A i \in DOMAIN nms \ two : nms[i].form = 0
  BY DEF Addable
<1>5. ASSUME NEW i \in DOMAIN nms
      PROVE  /\ es[i].key = <<m, nms[i].item, 1>> /\ es[i].key \in DOMAIN new
             /\ es[i].orig \in DOMAIN new /\ es[i].orig[1] = m /\ es[i].orig[2] = nms[i].item
             /\ es[i] \in Entry /\ es[i].val = vs[i]
             /\ N[es[i].key] = Norm(nms[i]) /\ N[es[i].orig] = nms[i]
             /\ es[i].key = Block(m, nms[i], 1)
             /\ i \in two => es[i].orig = Block(m, nms[i], 2)
  <2>1. es[i] = [key |-> Block(m, nms[i], 1), orig |-> orig(i), val |-> vs[i]]
    BY <1>3
  <2>2. Block(m, nms[i], 1) \in DOMAIN new /\ new[Block(m, nms[i], 1)] = Norm(nms[i])
    BY <1>2
  <2>3. orig(i) \in DOMAIN new /\ new[orig(i)] = nms[i] /\ orig(i)[1] = m
        /\ orig(i)[2] = nms[i].item
    <3>1. CASE i \in two
      BY <1>2, <3>1
    <3>2. CASE i \notin two
      BY <1>2, <1>4, <2>2, <3>2, NormType
    <3>. QED
      BY <3>1, <3>2
  <2>4. N[Block(m, nms[i], 1)] = Norm(nms[i]) /\ N[orig(i)] = nms[i]
    BY <2>2, <2>3 DEF new
  <2>5. Block(m, nms[i], 1) \in BlockName /\ orig(i) \in BlockName /\ vs[i] \in Vals
    BY <1>2, <2>2, <2>3
  <2>6. i \in two => orig(i) = Block(m, nms[i], 2)
    OBVIOUS
  <2> HIDE DEF orig
  <2>7. es[i] \in Entry
    BY <2>1, <2>5 DEF Entry
  <2>. QED
    BY <1>2, <2>1, <2>2, <2>3, <2>4, <2>6, <2>7
<1>6. DOMAIN es = DOMAIN nms /\ es \in Seq(Entry)
  <2>1. DOMAIN es = DOMAIN nms
    BY <1>3
  <2>2. DOMAIN nms = 1 .. Len(nms) /\ Len(nms) \in Nat
    BY <1>4
  <2>3. es = [i \in 1 .. Len(nms) |-> es[i]]
    BY <1>3, <2>2
  <2>. QED
    BY <1>5, <2>1, <2>2, <2>3
<1>7. \A i \in DOMAIN es : EntryFits(N, m, es[i])
  <2> TAKE i \in DOMAIN es
  <2>1. es[i].key \in DOMAIN N /\ es[i].orig \in DOMAIN N
    BY <1>5, <1>6 DEF new
  <2>. QED
    BY <1>5, <1>6, <2>1 DEF EntryFits
<1>8. \A i, j \in DOMAIN es : es[i].orig[2] = es[j].orig[2] => i = j
  BY <1>4, <1>5, <1>6
<1>9. ASSUME NEW b \in DOMAIN new
      PROVE  b \in HeldBy(es)
  <2>1. PICK i \in DOMAIN nms : b = Block(m, nms[i], 1) \/ (i \in two /\ b = Block(m, nms[i], 2))
    BY <1>2
  <2>2. b = es[i].key \/ b = es[i].orig
    BY <1>5, <2>1
  <2>. QED
    BY <1>6, <2>2, InHeldBy
<1>. QED
  BY <1>5, <1>6, <1>7, <1>8, <1>9 DEF es, new, EntriesFit

-----------------------------------------------------------------------------
(* What the operations do to the map they are about.  Beside the invariant *)
(* they establish what is seen of the map afterwards.                      *)

\* The state after a call that leaves map m with the entries es
Becomes(m, es) ==
    /\ SetMap(m, es) /\ itr' = itr
    /\ Memory(mem') /\ \A k : k # m => SameFor(mem, mem', k)
    /\ MapFits(mem', m, es)

\* A handle not in use has no strings.
LEMMA NothingForNew ==
    ASSUME MapInv, NEW m \in Maps, m \notin DOMAIN maps
    PROVE  \A b \in DOMAIN mem : b[1] # m
BY MapAssumption DEF MapInv

\* Names and values, as they are seen
Listed(nms, vs) == [i \in DOMAIN nms |-> [name |-> nms[i], val |-> vs[i]]]

\* A map is made with new entries.
LEMMA NewMapBecomes ==
    ASSUME MapInv, NEW m \in Maps, m \notin DOMAIN maps, itr' = itr,
           NEW nms \in Seq(Spelling), NEW two \in SUBSET DOMAIN nms,
           NEW vs, \A i \in DOMAIN nms : vs[i] \in Vals,
           \A i, j \in DOMAIN nms : nms[i].item = nms[j].item => i = j,
           \A i \in DOMAIN nms \ two : nms[i].form = 0,
           NewMap(m, nms, vs, two)
    PROVE  LET es == NewEntries(m, nms, vs, two) IN
           /\ Becomes(m, es)
           /\ Shown(mem', es) = Listed(nms, vs)
<1> DEFINE es == NewEntries(m, nms, vs, two)
           new == NewStrings(m, nms, two)
<1>1. SetMap(m, es) /\ Store(new, {})
  BY DEF NewMap
<1>2. \A b \in DOMAIN mem : b[1] # m
  BY NothingForNew
<1>3. Addable(m, nms, two)
  BY <1>2 DEF Addable
<1> HIDE DEF es, new
<1>4. /\ new \in [DOMAIN new -> Spelling]
      /\ \A b \in DOMAIN new : b \in BlockName /\ b[1] = m
  <2>1. m \in Maps \cup {Unk}
    OBVIOUS
  <2>. QED
    BY <1>3, <2>1, NewStringsEffect DEF new
<1>5. Memory(mem)
  BY DEF MapInv
<1>6. /\ Memory(mem')
      /\ \A b : b \in DOMAIN mem' <=> b \in DOMAIN mem \/ b \in DOMAIN new
      /\ \A b \in DOMAIN new : mem'[b] = new[b]
      /\ \A k : k # m => SameFor(mem, mem', k)
  <2>1. m \in Maps \cup {Unk} /\ \A b \in {} : b[1] = m
    OBVIOUS
  <2>2. /\ Memory(mem')
        /\ \A b : b \in DOMAIN mem' <=> (b \in DOMAIN mem /\ b \notin {}) \/ b \in DOMAIN new
        /\ \A b \in DOMAIN mem' : mem'[b] = IF b \in DOMAIN new THEN new[b] ELSE mem[b]
        /\ \A k : k # m => SameFor(mem, mem', k)
    BY <1>1, <1>4, <1>5, <2>1, StoreEffect
  <2>. QED
    BY <2>2
<1>7. /\ EntriesFit(mem', m, es)
      /\ DOMAIN new \subseteq HeldBy(es)
      /\ DOMAIN es = DOMAIN nms
      /\ \A i \in DOMAIN es : mem'[es[i].orig] = nms[i] /\ es[i].val = vs[i]
  <2>1. \A b \in DOMAIN new : b \in DOMAIN mem' /\ mem'[b] = new[b]
    BY <1>6
  <2>. QED
    BY <1>3, <2>1, NewEntriesFit DEF es, new
<1>8. AllHeld(mem', m, es)
  BY <1>2, <1>6, <1>7 DEF AllHeld
<1>9. Shown(mem', es) = Listed(nms, vs)
  BY <1>7 DEF Shown, Listed
<1>. QED
  BY <1>1, <1>6, <1>7, <1>8, <1>9 DEF es, Becomes, MapFits

\* The invariant and what is seen in that state
LEMMA BecomesFits ==
    ASSUME MapInv, NEW m \in Maps, NEW es, Becomes(m, es)
    PROVE  /\ MapInv'
           /\ Seen' = [h \in DOMAIN maps \cup {m} |->
                         IF h = m THEN Shown(mem', es) ELSE Seen[h]]
<1>1. MapInv'
  BY MapChanged DEF Becomes
<1>2. maps' = [h \in DOMAIN maps \cup {m} |-> IF h = m THEN es ELSE maps[h]]
  BY DEF Becomes, SetMap
<1>3. ASSUME NEW h \in DOMAIN maps, h # m
      PROVE  Shown(mem', maps[h]) = Seen[h]
  <2>1. MapFits(mem, h, maps[h]) /\ SameFor(mem, mem', h)
    BY <1>3 DEF MapInv, Becomes
  <2>2. DOMAIN mem \subseteq BlockName /\ DOMAIN mem' \subseteq BlockName
    BY DEF MapInv, Becomes, Memory
  <2>3. \A i \in DOMAIN maps[h] : mem'[maps[h][i].orig] = mem[maps[h][i].orig]
    BY <2>1, <2>2, FitsFrame
  <2>. QED
    BY <2>3 DEF Seen, Shown
<1>4. Seen' = [h \in DOMAIN maps' |-> Shown(mem', maps'[h])]
  BY DEF Seen
<1>5. \A h \in DOMAIN maps' : Shown(mem', maps'[h]) = IF h = m THEN Shown(mem', es) ELSE Seen[h]
  BY <1>2, <1>3
<1>6. DOMAIN maps' = DOMAIN maps \cup {m}
  BY <1>2
<1>. QED
  BY <1>1, <1>4, <1>5, <1>6

\* cif_value_create: a table starts without entries.
LEMMA TableCreateBecomes ==
    ASSUME MapInv, NEW m \in Maps, TableCreate(m)
    PROVE  Becomes(m, <<>>) /\ Shown(mem', <<>>) = <<>>
<1>1. m \notin DOMAIN maps /\ SetMap(m, <<>>) /\ itr' = itr /\ mem' = mem
  BY DEF TableCreate
<1>2. \A b \in DOMAIN mem : b[1] # m
  BY <1>1, NothingForNew
<1>3. MapFits(mem', m, <<>>)
  BY <1>1, <1>2 DEF MapFits, EntriesFit, AllHeld
<1>4. \A k : SameFor(mem, mem', k)
  BY <1>1 DEF SameFor
<1>5. Shown(mem', <<>>) = <<>>
  BY DEF Shown
<1>. QED
  BY <1>1, <1>3, <1>4, <1>5 DEF MapInv, Becomes

\* What is known of a map in use
LEMMA InUse ==
    ASSUME MapInv, NEW m \in DOMAIN maps
    PROVE  /\ m \in Maps /\ m # Unk /\ maps[m] \in Seq(Entry)
           /\ Memory(mem) /\ EntriesFit(mem, m, maps[m]) /\ AllHeld(mem, m, maps[m])
           /\ \A i \in DOMAIN maps[m] :
                 /\ maps[m][i] \in Entry /\ EntryFits(mem, m, maps[m][i])
                 /\ mem[maps[m][i].key] \in Spelling /\ mem[maps[m][i].orig] \in Spelling
<1>1. /\ m \in Maps /\ m # Unk /\ maps[m] \in Seq(Entry)
      /\ Memory(mem) /\ EntriesFit(mem, m, maps[m]) /\ AllHeld(mem, m, maps[m])
  BY MapAssumption DEF MapInv, MapFits
<1>2. \A i \in DOMAIN maps[m] : maps[m][i] \in Entry /\ EntryFits(mem, m, maps[m][i])
  BY <1>1 DEF EntriesFit
<1>. QED
  BY <1>1, <1>2 DEF EntryFits, Memory

\* The entry a name finds is that of its item.
LEMMA MatchesItem ==
    ASSUME MapInv, NEW m \in DOMAIN maps, NEW nm \in Spelling, NEW i \in DOMAIN maps[m]
    PROVE  i \in Matches(maps[m], nm) <=> mem[maps[m][i].orig].item = nm.item
<1>1. /\ EntryFits(mem, m, maps[m][i]) /\ mem[maps[m][i].orig] \in Spelling
  BY InUse
<1>. QED
  BY <1>1, NormOfItem DEF Matches, EntryFits

\* Both modules select in the same way.
LEMMA SelectedSame ==
    ASSUME NEW s, NEW P
    PROVE  OM!Selected(s, P) = Selected(s, P)
BY DEF OM!Selected, OM!Ascending, OM!Cardinality, Selected, Ascending, Cardinality

\* cif_map_set_item on an item that is there: the value is replaced, and the name
\* where it is spelled differently.
LEMMA SetExistingBecomes ==
    ASSUME MapInv, ~ RespellNormalized, NEW m \in DOMAIN maps, NEW nm \in Spelling, NEW v \in Vals,
           NEW i \in Matches(maps[m], nm), SetExisting(m, nm, v, i), itr' = itr
    PROVE  LET es == [maps[m] EXCEPT ![i].val = v] IN
           /\ Becomes(m, es)
           /\ Shown(mem', es) = OM!With(Shown(mem, maps[m]), nm, v)
<1> DEFINE old == maps[m]
           e == old[i]
           es == [old EXCEPT ![i].val = v]
<1>1. /\ m \in Maps /\ m # Unk /\ old \in Seq(Entry)
      /\ Memory(mem) /\ EntriesFit(mem, m, old) /\ AllHeld(mem, m, old)
      /\ \A j \in DOMAIN old :
            /\ old[j] \in Entry /\ EntryFits(mem, m, old[j])
            /\ mem[old[j].key] \in Spelling /\ mem[old[j].orig] \in Spelling
  BY InUse
<1>2. i \in DOMAIN old /\ mem[e.orig].item = nm.item /\ mem[e.key] = Norm(nm)
  <2>1. i \in DOMAIN old /\ mem[e.key] = Norm(nm)
    BY DEF Matches
  <2>. QED
    BY <2>1, MatchesItem
<1>3. \A j \in DOMAIN old : mem[old[j].orig].item = nm.item => j = i
  BY <1>1, <1>2 DEF EntriesFit, EntryFits
<1>4. /\ es \in Seq(Entry) /\ DOMAIN es = DOMAIN old
      /\ \A j \in DOMAIN old : es[j].key = old[j].key /\ es[j].orig = old[j].orig
                               /\ es[j].val = IF j = i THEN v ELSE old[j].val
  <2>1. [e EXCEPT !.val = v] \in Entry
    BY <1>1, <1>2 DEF Entry
  <2>2. es = [old EXCEPT ![i] = [e EXCEPT !.val = v]]
    OBVIOUS
  <2>3. /\ [e EXCEPT !.val = v].key = e.key /\ [e EXCEPT !.val = v].orig = e.orig
        /\ [e EXCEPT !.val = v].val = v
    BY <1>1, <1>2 DEF Entry
  <2>. QED
    BY <1>1, <1>2, <2>1, <2>2, <2>3
<1>5. /\ EntriesFit(mem, m, es)
      /\ \A b : b \in HeldBy(es) <=> b \in HeldBy(old)
  <2> HIDE DEF es, old
  <2>1. \A j \in DOMAIN old : es[j].key = old[j].key /\ es[j].orig = old[j].orig
    BY <1>4
  <2>. QED
    BY <1>1, <1>4, <2>1, FitsWithValues
<1>6. /\ SetMap(m, es) /\ Memory(mem') /\ \A k : k # m => SameFor(mem, mem', k)
      /\ EntriesFit(mem', m, es) /\ \A b : b \in DOMAIN mem' <=> b \in DOMAIN mem
      /\ \A j \in DOMAIN old : mem'[old[j].orig] = IF j = i THEN nm ELSE mem[old[j].orig]
  <2>1. CASE mem[e.orig] = nm
    <3>1. SetMap(m, es) /\ mem' = mem
      BY <2>1 DEF SetExisting
    <3>2. \A k : SameFor(mem, mem', k)
      BY <3>1 DEF SameFor
    <3>. QED
      BY <1>1, <1>5, <2>1, <3>1, <3>2
  <2>2. CASE mem[e.orig] # nm
    <3> DEFINE new == [b \in {e.orig} |-> nm]
    <3>1. e.key # e.orig
      BY <2>2 DEF SetExisting
    <3>2. Store(new, {e.orig})
      BY <2>2, <3>1 DEF SetExisting
    <3>3. SetMap(m, es)
      <4>1. SetMap(m, [old EXCEPT ![i] = [@ EXCEPT !.orig = e.orig, !.val = v]])
        BY <2>2, <3>1 DEF SetExisting
      <4>2. [e EXCEPT !.orig = e.orig, !.val = v] = [e EXCEPT !.val = v]
        BY <1>1, <1>2 DEF Entry
      <4>3. es = [old EXCEPT ![i] = [@ EXCEPT !.orig = e.orig, !.val = v]]
        BY <4>2
      <4>. QED
        BY <4>1, <4>3
    <3>4. e.orig \in DOMAIN mem /\ e.orig \in BlockName /\ e.orig[1] = m
      BY <1>1, <1>2 DEF EntryFits, Memory
    <3>5. /\ new \in [DOMAIN new -> Spelling]
          /\ \A b \in DOMAIN new : b \in BlockName /\ b[1] = m
          /\ \A b : b \in DOMAIN new <=> b = e.orig
          /\ new[e.orig] = nm
      BY <3>4
    <3>6. m \in Maps \cup {Unk} /\ \A b \in {e.orig} : b[1] = m
      BY <1>1, <3>4
    <3> HIDE DEF new
    <3>7. /\ Memory(mem')
          /\ \A b : b \in DOMAIN mem' <=> (b \in DOMAIN mem /\ b \notin {e.orig}) \/ b \in DOMAIN new
          /\ \A b \in DOMAIN mem' : mem'[b] = IF b \in DOMAIN new THEN new[b] ELSE mem[b]
          /\ \A k : k # m => SameFor(mem, mem', k)
      BY <1>1, <3>2, <3>5, <3>6, StoreEffect
    <3>8. /\ \A b : b \in DOMAIN mem' <=> b \in DOMAIN mem
          /\ \A b \in DOMAIN mem : mem'[b] = IF b = e.orig THEN nm ELSE mem[b]
      BY <3>4, <3>5, <3>7
    <3>9. ASSUME NEW j \in DOMAIN old
          PROVE  /\ mem'[old[j].key] = mem[old[j].key]
                 /\ mem'[old[j].orig] = IF j = i THEN nm ELSE mem[old[j].orig]
                 /\ old[j].key \in DOMAIN mem /\ old[j].orig \in DOMAIN mem
      <4>1. /\ old[j].key \in DOMAIN mem /\ old[j].orig \in DOMAIN mem
            /\ old[j].key[2] = mem[old[j].orig].item /\ old[j].orig[2] = mem[old[j].orig].item
            /\ e.orig[2] = nm.item
        BY <1>1, <1>2 DEF EntryFits
      <4>2. j # i => old[j].key # e.orig /\ old[j].orig # e.orig
        BY <1>3, <4>1
      <4>. QED
        BY <3>1, <3>8, <4>1, <4>2
    <3>10. ASSUME NEW j \in DOMAIN es
           PROVE  EntryFits(mem', m, es[j])
      <4>1. EntryFits(mem, m, old[j])
        BY <1>1, <1>4
      <4>. QED
        BY <1>2, <1>4, <3>8, <3>9, <4>1 DEF EntryFits
    <3>11. EntriesFit(mem', m, es)
      BY <1>5, <3>10 DEF EntriesFit
    <3>. QED
      BY <3>3, <3>7, <3>8, <3>9, <3>11
  <2>. QED
    BY <2>1, <2>2
<1>7. AllHeld(mem', m, es)
  BY <1>1, <1>5, <1>6 DEF AllHeld
<1>8. Shown(mem', es) = OM!With(Shown(mem, old), nm, v)
  <2> DEFINE w == Shown(mem, old)
  <2>1. DOMAIN w = DOMAIN old /\ \A j \in DOMAIN old : w[j] = [name |-> mem[old[j].orig], val |-> old[j].val]
    BY DEF Shown
  <2>2. nm.item \in OM!ItemsOf(w)
    BY <1>2, <2>1 DEF OM!ItemsOf
  <2>3. OM!With(w, nm, v) = [j \in DOMAIN w |-> IF w[j].name.item = nm.item
                                                THEN [name |-> nm, val |-> v] ELSE w[j]]
    BY <2>2 DEF OM!With
  <2>4. ASSUME NEW j \in DOMAIN old
        PROVE  [name |-> mem'[es[j].orig], val |-> es[j].val]
                 = IF w[j].name.item = nm.item THEN [name |-> nm, val |-> v] ELSE w[j]
    <3>1. w[j].name.item = nm.item <=> j = i
      BY <1>2, <1>3, <2>1
    <3>2. mem'[es[j].orig] = IF j = i THEN nm ELSE mem[old[j].orig]
      BY <1>4, <1>6
    <3>. QED
      BY <1>4, <2>1, <3>1, <3>2
  <2>5. Shown(mem', es) = [j \in DOMAIN old |-> [name |-> mem'[es[j].orig], val |-> es[j].val]]
    BY <1>4 DEF Shown
  <2>. QED
    BY <2>1, <2>3, <2>4, <2>5
<1>. QED
  BY <1>6, <1>7, <1>8 DEF Becomes, MapFits

\* cif_map_set_item on an item that is not there: the entry comes last.
LEMMA SetNewBecomes ==
    ASSUME MapInv, NEW m \in DOMAIN maps, NEW nm \in Spelling, NEW v \in Vals,
           SetNew(m, nm, v), itr' = itr
    PROVE  LET es == maps[m] \o NewEntries(m, <<nm>>, <<v>>, {1}) IN
           /\ Becomes(m, es)
           /\ Shown(mem', es) = OM!With(Shown(mem, maps[m]), nm, v)
<1> DEFINE old == maps[m]
           nms == <<nm>>
           two == {1}
           fs == NewEntries(m, nms, <<v>>, two)
           new == NewStrings(m, nms, two)
           es == old \o fs
<1>1. /\ m \in Maps /\ m # Unk /\ old \in Seq(Entry)
      /\ Memory(mem) /\ EntriesFit(mem, m, old) /\ AllHeld(mem, m, old)
      /\ \A j \in DOMAIN old :
            /\ old[j] \in Entry /\ EntryFits(mem, m, old[j])
            /\ mem[old[j].key] \in Spelling /\ mem[old[j].orig] \in Spelling
  BY InUse
<1>2. SetMap(m, es) /\ Store(new, {}) /\ Matches(old, nm) = {}
  BY DEF SetNew
<1>3. \A j \in DOMAIN old : mem[old[j].orig].item # nm.item
  BY <1>2, MatchesItem
<1>4. /\ nms \in Seq(Spelling) /\ DOMAIN nms = {1} /\ nms[1] = nm /\ nm.item \in Items
  BY DEF Spelling
<1>5. Addable(m, nms, two)
  <2>1. ASSUME NEW b \in DOMAIN mem, b[1] = m
        PROVE  b[2] # nm.item
    <3>1. PICK j \in DOMAIN old : b = old[j].key \/ b = old[j].orig
      BY <1>1, <2>1, InHeldBy DEF AllHeld
    <3>2. b[2] = mem[old[j].orig].item
      BY <1>1, <3>1 DEF EntryFits
    <3>. QED
      BY <1>3, <3>2
  <2>2. \A n \in 1 .. 3 : <<m, nm.item, n>> \notin DOMAIN mem
    BY <2>1
  <2> HIDE DEF nms
  <2>. QED
    BY <1>4, <2>2 DEF Addable
<1> HIDE DEF nms, fs, new, es
<1>6. /\ new \in [DOMAIN new -> Spelling]
      /\ \A b \in DOMAIN new : b \in BlockName /\ b[1] = m
  <2>1. m \in Maps \cup {Unk}
    BY <1>1
  <2>. QED
    BY <1>5, <2>1, NewStringsEffect DEF new
<1>7. \A b \in DOMAIN new : b \notin DOMAIN mem
  <2>1. /\ \A b \in DOMAIN new : \E i \in DOMAIN nms :
              b = Block(m, nms[i], 1) \/ (i \in two /\ b = Block(m, nms[i], 2))
        /\ \A i \in DOMAIN nms : /\ Block(m, nms[i], 1) = <<m, nms[i].item, 1>>
                                 /\ Block(m, nms[i], 2) = <<m, nms[i].item, 2>>
    <3>1. m \in Maps \cup {Unk}
      BY <1>1
    <3>. QED
      BY <1>5, <3>1, NewStringsEffect DEF new
  <2>2. \A i \in DOMAIN nms, n \in 1 .. 3 : <<m, nms[i].item, n>> \notin DOMAIN mem
    BY <1>5 DEF Addable
  <2>3. ASSUME NEW b \in DOMAIN new
        PROVE  b \notin DOMAIN mem
    <3>1. PICK i \in DOMAIN nms :
              b = Block(m, nms[i], 1) \/ (i \in two /\ b = Block(m, nms[i], 2))
      BY <2>1
    <3>2. b = <<m, nms[i].item, 1>> \/ b = <<m, nms[i].item, 2>>
      BY <2>1, <3>1
    <3>3. 1 \in 1 .. 3 /\ 2 \in 1 .. 3
      OBVIOUS
    <3>. QED
      BY <2>2, <3>2, <3>3
  <2>. QED
    BY <2>3
<1>8. /\ Memory(mem')
      /\ \A b : b \in DOMAIN mem' <=> b \in DOMAIN mem \/ b \in DOMAIN new
      /\ \A b \in DOMAIN mem' : mem'[b] = IF b \in DOMAIN new THEN new[b] ELSE mem[b]
      /\ \A k : k # m => SameFor(mem, mem', k)
  <2>1. m \in Maps \cup {Unk} /\ \A b \in {} : b[1] = m
    BY <1>1
  <2>2. /\ Memory(mem')
        /\ \A b : b \in DOMAIN mem' <=> (b \in DOMAIN mem /\ b \notin {}) \/ b \in DOMAIN new
        /\ \A b \in DOMAIN mem' : mem'[b] = IF b \in DOMAIN new THEN new[b] ELSE mem[b]
        /\ \A k : k # m => SameFor(mem, mem', k)
    BY <1>1, <1>2, <1>6, <2>1, StoreEffect
  <2>. QED
    BY <2>2
<1>9. EntriesFit(mem', m, old) /\ Shown(mem', old) = Shown(mem, old)
  <2>1. \A i \in DOMAIN old :
           /\ old[i].key \in DOMAIN mem' /\ mem'[old[i].key] = mem[old[i].key]
           /\ old[i].orig \in DOMAIN mem' /\ mem'[old[i].orig] = mem[old[i].orig]
    BY <1>1, <1>7, <1>8 DEF EntryFits
  <2> HIDE DEF old
  <2>. QED
    BY <1>1, <2>1, FitsElsewhere
<1>10. /\ EntriesFit(mem', m, fs)
       /\ DOMAIN new \subseteq HeldBy(fs)
       /\ DOMAIN fs = DOMAIN nms
       /\ \A i \in DOMAIN fs : mem'[fs[i].orig] = nms[i] /\ fs[i].val = <<v>>[i]
                               /\ fs[i].orig[2] = nms[i].item
  <2>1. \A b \in DOMAIN new : b \in DOMAIN mem' /\ mem'[b] = new[b]
    BY <1>8
  <2>2. \A i \in DOMAIN nms : <<v>>[i] \in Vals
    BY <1>4
  <2>. QED
    BY <1>1, <1>5, <2>1, <2>2, NewEntriesFit DEF fs, new
<1>11. \A i \in DOMAIN old, j \in DOMAIN fs : old[i].orig[2] # fs[j].orig[2]
  BY <1>1, <1>3, <1>4, <1>10 DEF EntryFits
<1>12. /\ EntriesFit(mem', m, es)
       /\ \A b : b \in HeldBy(es) <=> b \in HeldBy(old) \/ b \in HeldBy(fs)
       /\ Shown(mem', es) = Shown(mem', old) \o Shown(mem', fs)
  <2> HIDE DEF old
  <2>. QED
    BY <1>8, <1>9, <1>10, <1>11, FitsConcat DEF es
<1>13. AllHeld(mem', m, es)
  BY <1>1, <1>8, <1>10, <1>12 DEF AllHeld
<1>14. Shown(mem', es) = OM!With(Shown(mem, old), nm, v)
  <2>1. Shown(mem', fs) = <<[name |-> nm, val |-> v]>>
    <3>1. Shown(mem', fs) = [i \in {1} |-> [name |-> nm, val |-> v]]
      BY <1>4, <1>10 DEF Shown
    <3>. QED
      BY <3>1
  <2>2. nm.item \notin OM!ItemsOf(Shown(mem, old))
    BY <1>3 DEF OM!ItemsOf, Shown
  <2>3. Shown(mem, old) \in Seq([name : Spelling, val : Vals])
    BY <1>1, ShownType
  <2> DEFINE w == Shown(mem, old)
  <2> HIDE DEF w
  <2>4. Append(w, [name |-> nm, val |-> v]) = w \o <<[name |-> nm, val |-> v]>>
    BY <2>3 DEF w
  <2>5. OM!With(w, nm, v) = Append(w, [name |-> nm, val |-> v])
    BY <2>2 DEF OM!With, w
  <2>. QED
    BY <1>9, <1>12, <2>1, <2>4, <2>5 DEF w
<1>. QED
  BY <1>2, <1>8, <1>12, <1>13, <1>14 DEF Becomes, MapFits, es, fs, nms

\* cif_map_retrieve_item, removing: the entry and its strings go.
LEMMA RemoveBecomes ==
    ASSUME MapInv, NEW m \in DOMAIN maps, NEW nm \in Spelling, NEW i \in Matches(maps[m], nm),
           Free(CleanMetadata(maps[m][i])),
           SetMap(m, Selected(maps[m], DOMAIN maps[m] \ {i})), itr' = itr
    PROVE  LET es == Selected(maps[m], DOMAIN maps[m] \ {i}) IN
           /\ Becomes(m, es)
           /\ Shown(mem', es) = OM!Without(Shown(mem, maps[m]), nm.item)
           /\ nm.item \in OM!ItemsOf(Shown(mem, maps[m]))
<1> DEFINE old == maps[m]
           P == DOMAIN old \ {i}
           es == Selected(old, P)
           freed == CleanMetadata(old[i])
           gone == CleanAll(old, DOMAIN old \ P)
<1>1. /\ m \in Maps /\ m # Unk /\ old \in Seq(Entry)
      /\ Memory(mem) /\ EntriesFit(mem, m, old) /\ AllHeld(mem, m, old)
      /\ \A j \in DOMAIN old :
            /\ old[j] \in Entry /\ EntryFits(mem, m, old[j])
            /\ mem[old[j].key] \in Spelling /\ mem[old[j].orig] \in Spelling
  BY InUse
<1>2. i \in DOMAIN old /\ mem[old[i].orig].item = nm.item
  <2>1. i \in DOMAIN old
    BY DEF Matches
  <2>. QED
    BY <2>1, MatchesItem
<1>3. \A j \in DOMAIN old : mem[old[j].orig].item = nm.item <=> j = i
  BY <1>1, <1>2 DEF EntriesFit, EntryFits
<1>4. \A b : b \in gone <=> b \in freed
  <2>1. DOMAIN old \ P = {i}
    BY <1>2
  <2>. QED
    BY <2>1 DEF CleanAll
<1>5. \A b \in freed : b[1] = m
  BY <1>1, <1>2 DEF CleanMetadata, EntryFits
<1> HIDE DEF old, es, freed, gone, P
<1>6. /\ Memory(mem')
      /\ \A b : b \in DOMAIN mem' <=> b \in DOMAIN mem /\ b \notin freed
      /\ \A b \in DOMAIN mem' : mem'[b] = mem[b]
      /\ \A k : k # m => SameFor(mem, mem', k)
  <2>1. m \in Maps \cup {Unk} /\ Free(freed)
    BY <1>1 DEF freed, old
  <2>. QED
    BY <1>1, <1>5, <2>1, FreeEffect
<1>7. /\ EntriesFit(mem', m, es)
      /\ \A b \in DOMAIN mem : b[1] = m /\ b \notin gone => b \in HeldBy(es)
      /\ Shown(mem', es) = Selected(Shown(mem, old), P)
  <2>1. KeepsOthers(mem, mem', CleanAll(old, DOMAIN old \ P))
    BY <1>4, <1>6 DEF gone, KeepsOthers
  <2>2. P \in SUBSET DOMAIN old
    BY DEF P
  <2>3. EntriesFit(mem, m, old) /\ AllHeld(mem, m, old)
    BY <1>1
  <2>4. EntriesFit(mem', m, Selected(old, P))
    BY <2>1, <2>2, <2>3, FitsSelected
  <2>5. ASSUME NEW b \in DOMAIN mem, b[1] = m, b \notin CleanAll(old, DOMAIN old \ P)
        PROVE  b \in HeldBy(Selected(old, P))
    BY <2>1, <2>2, <2>3, <2>5, FitsSelected
  <2>6. Shown(mem', Selected(old, P)) = Shown(mem, Selected(old, P))
    BY <2>1, <2>2, <2>3, FitsSelected
  <2>7. Shown(mem, Selected(old, P)) = Selected(Shown(mem, old), P)
    BY <1>1, <2>2, ShownSelected
  <2>. QED
    BY <2>4, <2>5, <2>6, <2>7 DEF es, gone
<1>8. AllHeld(mem', m, es)
  BY <1>4, <1>6, <1>7 DEF AllHeld
<1>9. /\ Selected(Shown(mem, old), P) = OM!Without(Shown(mem, old), nm.item)
      /\ nm.item \in OM!ItemsOf(Shown(mem, old))
  <2> DEFINE w == Shown(mem, old)
  <2>1. DOMAIN w = DOMAIN old /\ \A j \in DOMAIN old : w[j].name = mem[old[j].orig]
    BY DEF Shown
  <2> HIDE DEF w
  <2>2. {j \in DOMAIN w : w[j].name.item # nm.item} = P
    BY <1>3, <2>1 DEF P
  <2>3. nm.item \in OM!ItemsOf(w)
    BY <1>2, <2>1 DEF OM!ItemsOf
  <2>4. OM!Without(w, nm.item) = Selected(w, P)
    BY <2>2, SelectedSame DEF OM!Without
  <2>. QED
    BY <2>3, <2>4 DEF w
<1>10. SetMap(m, es)
  BY DEF es, old, P
<1>. QED
  BY <1>6, <1>7, <1>8, <1>9, <1>10 DEF Becomes, MapFits, es, old, P

-----------------------------------------------------------------------------
(* The packets of an iterator *)

\* The names of a row are normalized and different.
LEMMA RowType ==
    ASSUME MapInv
    PROVE  /\ RowNames \in Seq(Spelling) /\ DOMAIN RowNames = DOMAIN itr
           /\ Len(RowNames) = Len(itr) /\ Len(itr) <= MaxNames
           /\ \A j \in DOMAIN itr : /\ RowNames[j] = mem[itr[j]] /\ RowNames[j] \in Spelling
                                    /\ RowNames[j].form = 0
           /\ \A i, j \in DOMAIN itr : RowNames[i].item = RowNames[j].item => i = j
<1>1. /\ itr \in Seq(BlockName) /\ DOMAIN itr = 1 .. Len(itr) /\ Len(itr) \in Nat
      /\ Len(itr) <= MaxNames
      /\ \A i \in DOMAIN itr : /\ itr[i] \in DOMAIN mem /\ itr[i][2] = mem[itr[i]].item
                               /\ mem[itr[i]].form = 0
      /\ \A i, j \in DOMAIN itr : itr[i][2] = itr[j][2] => i = j
  BY DEF MapInv, IterFits
<1>2. \A j \in DOMAIN itr : mem[itr[j]] \in Spelling
  BY <1>1 DEF MapInv, Memory
<1>3. RowNames = [j \in 1 .. Len(itr) |-> mem[itr[j]]]
  BY <1>1 DEF RowNames
<1>4. RowNames \in Seq(Spelling) /\ DOMAIN RowNames = DOMAIN itr /\ Len(RowNames) = Len(itr)
  BY <1>1, <1>2, <1>3
<1>. QED
  BY <1>1, <1>2, <1>3, <1>4

\* An entry's name in a row is the one of its item.
LEMMA SourceItem ==
    ASSUME MapInv, NEW m \in DOMAIN maps, NEW i \in DOMAIN maps[m], NEW j \in DOMAIN itr
    PROVE  /\ j \in Source(maps[m][i]) <=> mem[maps[m][i].orig].item = RowNames[j].item
           /\ mem[maps[m][i].key] = mem[itr[j]] <=> mem[maps[m][i].orig].item = RowNames[j].item
<1>1. /\ EntryFits(mem, m, maps[m][i]) /\ mem[maps[m][i].orig] \in Spelling
  BY InUse
<1>2. RowNames[j] = mem[itr[j]] /\ RowNames[j] \in Spelling /\ RowNames[j].form = 0
  BY RowType
<1>3. Norm(RowNames[j]) = mem[itr[j]]
  BY <1>2, NormType
<1>4. mem[maps[m][i].key] = mem[itr[j]] <=> mem[maps[m][i].orig].item = RowNames[j].item
  BY <1>1, <1>2, <1>3, NormOfItem DEF EntryFits
<1>. QED
  BY <1>4 DEF Source

\* Strings of a map are those of its entries' items.
LEMMA NoBlockOfOthers ==
    ASSUME MapInv, NEW m \in DOMAIN maps, NEW it,
           \A i \in DOMAIN maps[m] : mem[maps[m][i].orig].item # it
    PROVE  \A n \in 1 .. 3 : <<m, it, n>> \notin DOMAIN mem
<1>1. /\ AllHeld(mem, m, maps[m])
      /\ \A i \in DOMAIN maps[m] : EntryFits(mem, m, maps[m][i])
  BY InUse
<1>2. ASSUME NEW b \in DOMAIN mem, b[1] = m
      PROVE  b[2] # it
  <2>1. PICK i \in DOMAIN maps[m] : b = maps[m][i].key \/ b = maps[m][i].orig
    BY <1>1, <1>2, InHeldBy DEF AllHeld
  <2>2. b[2] = mem[maps[m][i].orig].item
    BY <1>1, <2>1 DEF EntryFits
  <2>. QED
    BY <2>2
<1>. QED
  BY <1>2

\* The names an existing packet lacks can be added to it.
LEMMA LeftAddable ==
    ASSUME MapInv, NEW m \in DOMAIN maps
    PROVE  LET nms == Selected(RowNames, Left(maps[m])) IN
           /\ Addable(m, nms, DOMAIN nms)
           /\ \A k \in DOMAIN nms :
                 /\ Ascending(Left(maps[m]))[k] \in Left(maps[m])
                 /\ nms[k] = RowNames[Ascending(Left(maps[m]))[k]]
                 /\ \A i \in DOMAIN maps[m] : mem[maps[m][i].orig].item # nms[k].item
<1> DEFINE P == Left(maps[m])
           nms == Selected(RowNames, P)
           at(k) == Ascending(P)[k]
           n == Cardinality(P)
<1>1. /\ RowNames \in Seq(Spelling) /\ DOMAIN RowNames = DOMAIN itr
      /\ DOMAIN itr \in SUBSET Int
      /\ \A i, j \in DOMAIN itr : RowNames[i].item = RowNames[j].item => i = j
  <2>1. DOMAIN RowNames = 1 .. Len(RowNames) /\ Len(RowNames) \in Nat
    BY RowType
  <2>. QED
    BY <2>1, RowType
<1>2. P \in SUBSET DOMAIN RowNames /\ P \in SUBSET Int
  BY <1>1 DEF Left
<1>3. /\ nms \in Seq(Spelling) /\ Len(nms) = n /\ n \in Nat /\ IsFiniteSet(P)
      /\ \A k \in 1 .. n : at(k) \in P /\ nms[k] = RowNames[at(k)]
  BY <1>1, <1>2, SelectedType
<1>4. DOMAIN nms = 1 .. n
  BY <1>3
<1>5. \A k, l \in 1 .. n : k # l => at(k) # at(l)
  BY <1>2, <1>3, AscendingOrder
<1> HIDE DEF n, nms, at
<1>6. ASSUME NEW k \in DOMAIN nms, NEW i \in DOMAIN maps[m]
      PROVE  mem[maps[m][i].orig].item # nms[k].item
  <2>1. at(k) \in DOMAIN itr /\ mem[maps[m][i].key] # mem[itr[at(k)]]
    BY <1>3, <1>4 DEF Left
  <2>. QED
    BY <1>3, <1>4, <2>1, SourceItem
<1>7. \A k, l \in DOMAIN nms : nms[k].item = nms[l].item => k = l
  BY <1>1, <1>2, <1>3, <1>4, <1>5
<1>8. ASSUME NEW k \in DOMAIN nms
      PROVE  \A x \in 1 .. 3 : <<m, nms[k].item, x>> \notin DOMAIN mem
  <2>1. \A i \in DOMAIN maps[m] : mem[maps[m][i].orig].item # nms[k].item
    BY <1>6
  <2>. QED
    BY <2>1, NoBlockOfOthers
<1>9. Addable(m, nms, DOMAIN nms)
  BY <1>3, <1>7, <1>8 DEF Addable
<1>. QED
  BY <1>3, <1>4, <1>6, <1>9 DEF nms, at
\* The entries that stay are those of the row's items.
LEMMA KeptEntries ==
    ASSUME MapInv, NEW m \in DOMAIN maps
    PROVE  LET es  == maps[m]
               old == Selected(es, Kept(es))
           IN  /\ Kept(es) \in SUBSET DOMAIN es
               /\ \A i \in DOMAIN es :
                     i \in Kept(es) <=> \E j \in DOMAIN itr :
                                           RowNames[j].item = mem[es[i].orig].item
               /\ old \in Seq(Entry)
               /\ \A k \in DOMAIN old : \E i \in Kept(es) : i \in DOMAIN es /\ old[k] = es[i]
<1> DEFINE es == maps[m]
           P == Kept(es)
           old == Selected(es, P)
           n == Cardinality(P)
<1>1. es \in Seq(Entry) /\ P \in SUBSET DOMAIN es
  BY InUse DEF Kept
<1>2. /\ old \in Seq(Entry) /\ Len(old) = n /\ n \in Nat
      /\ \A k \in 1 .. n : Ascending(P)[k] \in P /\ old[k] = es[Ascending(P)[k]]
  BY <1>1, SelectedType
<1>3. \A k \in DOMAIN old : \E i \in P : i \in DOMAIN es /\ old[k] = es[i]
  BY <1>1, <1>2
<1>4. ASSUME NEW i \in DOMAIN es
      PROVE  i \in P <=> \E j \in DOMAIN itr : RowNames[j].item = mem[es[i].orig].item
  <2>1. i \in P <=> \E j \in DOMAIN itr : j \in Source(es[i])
    BY DEF Kept, Source
  <2>. QED
    BY <2>1, SourceItem
<1>. QED
  BY <1>1, <1>2, <1>3, <1>4

\* Only their values change, to those of their items.
LEMMA RefilledValues ==
    ASSUME MapInv, NEW m \in DOMAIN maps, NEW vs \in [DOMAIN itr -> Vals]
    PROVE  LET old == Selected(maps[m], Kept(maps[m]))
               fs  == Refilled(maps[m], vs)
           IN  /\ fs \in Seq(Entry) /\ DOMAIN fs = DOMAIN old
               /\ \A k \in DOMAIN old :
                     /\ fs[k].key = old[k].key /\ fs[k].orig = old[k].orig
                     /\ \A j \in DOMAIN itr :
                           RowNames[j].item = mem[old[k].orig].item => fs[k].val = vs[j]
<1> DEFINE es == maps[m]
           old == Selected(es, Kept(es))
           fs == Refilled(es, vs)
           from(k) == CHOOSE j \in Source(old[k]) : TRUE
<1>1. /\ \A i \in DOMAIN es : i \in Kept(es) <=> \E j \in DOMAIN itr :
                                           RowNames[j].item = mem[es[i].orig].item
      /\ old \in Seq(Entry)
      /\ \A k \in DOMAIN old : \E i \in Kept(es) : i \in DOMAIN es /\ old[k] = es[i]
  BY KeptEntries
<1>2. fs = [k \in DOMAIN old |-> [old[k] EXCEPT !.val = vs[from(k)]]]
  BY DEF Refilled
<1> HIDE DEF old, fs
<1>3. \A i, j \in DOMAIN itr : RowNames[i].item = RowNames[j].item => i = j
  BY RowType
<1>4. ASSUME NEW k \in DOMAIN old
      PROVE  /\ from(k) \in DOMAIN itr
             /\ \A j \in DOMAIN itr : RowNames[j].item = mem[old[k].orig].item => j = from(k)
  <2>1. PICK i \in DOMAIN es : i \in Kept(es) /\ old[k] = es[i]
    BY <1>1
  <2>2. \A j \in DOMAIN itr : j \in Source(old[k]) <=> mem[old[k].orig].item = RowNames[j].item
    BY <2>1, SourceItem
  <2>3. PICK j \in DOMAIN itr : RowNames[j].item = mem[old[k].orig].item
    BY <1>1, <2>1
  <2>4. from(k) \in Source(old[k])
    BY <2>2, <2>3
  <2>5. Source(old[k]) \subseteq DOMAIN itr
    BY DEF Source
  <2> HIDE DEF from
  <2>. QED
    BY <1>3, <2>2, <2>4, <2>5
<1> HIDE DEF from
<1>5. ASSUME NEW k \in DOMAIN old
      PROVE  /\ fs[k] \in Entry /\ fs[k].key = old[k].key /\ fs[k].orig = old[k].orig
             /\ fs[k].val = vs[from(k)]
  <2>1. old[k] \in Entry /\ vs[from(k)] \in Vals
    BY <1>1, <1>4
  <2>2. fs[k] = [old[k] EXCEPT !.val = vs[from(k)]]
    BY <1>2
  <2>. QED
    BY <2>1, <2>2 DEF Entry
<1>6. fs \in Seq(Entry) /\ DOMAIN fs = DOMAIN old
  <2>1. DOMAIN old = 1 .. Len(old) /\ Len(old) \in Nat /\ DOMAIN fs = DOMAIN old
    BY <1>1, <1>2
  <2>2. fs = [k \in 1 .. Len(old) |-> fs[k]]
    BY <1>2, <2>1
  <2>. QED
    BY <1>5, <2>1, <2>2
<1>. QED
  BY <1>4, <1>5, <1>6 DEF old, fs

\* What is seen of an entry that stays, or is added, is what OrderedMap's
\* packet gets from the row.
LEMMA OverlayOfRow ==
    ASSUME MapInv, NEW m \in DOMAIN maps, NEW vs \in [DOMAIN itr -> Vals]
    PROVE  LET es  == maps[m]
               old == Selected(es, Kept(es))
               nms == Selected(RowNames, Left(es))
               nvs == Selected(vs, Left(es))
           IN  OM!Overlay(Shown(mem, es), Row(vs))
                 = [k \in DOMAIN old |-> [name |-> mem[old[k].orig], val |-> Refilled(es, vs)[k].val]]
                   \o [k \in DOMAIN nms |-> [name |-> nms[k], val |-> nvs[k]]]
<1> DEFINE es == maps[m]
           w == Shown(mem, es)
           row == Row(vs)
           old == Selected(es, Kept(es))
           nms == Selected(RowNames, Left(es))
           nvs == Selected(vs, Left(es))
           ValOf(it) == row[CHOOSE i \in DOMAIN row : row[i].name.item = it].val
           kept == OM!Selected(w, {i \in DOMAIN w : w[i].name.item \in OM!ItemsOf(row)})
           added == OM!Selected(row, {j \in DOMAIN row : row[j].name.item \notin OM!ItemsOf(w)})
<1>1. OM!Overlay(w, row) = [i \in DOMAIN kept |-> [kept[i] EXCEPT !.val = ValOf(kept[i].name.item)]]
                           \o added
  BY DEF OM!Overlay
<1>2. /\ DOMAIN row = DOMAIN itr
      /\ \A j \in DOMAIN itr : row[j] = [name |-> RowNames[j], val |-> vs[j]]
  BY RowType DEF Row
<1>3. DOMAIN w = DOMAIN es /\ \A i \in DOMAIN es : w[i] = [name |-> mem[es[i].orig], val |-> es[i].val]
  BY DEF Shown
<1>4. kept = Shown(mem, old)
  <2>1. {i \in DOMAIN w : w[i].name.item \in OM!ItemsOf(row)} = Kept(es)
    <3>1. Kept(es) \subseteq DOMAIN es
      BY DEF Kept
    <3>2. \A i \in DOMAIN es : i \in Kept(es) <=> \E j \in DOMAIN itr :
                                           RowNames[j].item = mem[es[i].orig].item
      BY KeptEntries
    <3>3. \A it : it \in OM!ItemsOf(row) <=> \E j \in DOMAIN itr : RowNames[j].item = it
      BY <1>2 DEF OM!ItemsOf
    <3> HIDE DEF w, es, row
    <3>. QED
      BY <1>3, <3>1, <3>2, <3>3
  <2>2. kept = Selected(w, Kept(es))
    BY <2>1, SelectedSame
  <2>3. es \in Seq(Entry) /\ Kept(es) \in SUBSET DOMAIN es
    BY InUse DEF Kept
  <2> HIDE DEF es, kept
  <2>. QED
    BY <2>2, <2>3, ShownSelected
<1>5. added = [k \in DOMAIN nms |-> [name |-> nms[k], val |-> nvs[k]]]
  <2>1. {j \in DOMAIN row : row[j].name.item \notin OM!ItemsOf(w)} = Left(es)
    <3>1. Left(es) \subseteq DOMAIN itr
      BY DEF Left
    <3>2. \A j \in DOMAIN itr : j \in Left(es) <=> \A i \in DOMAIN es : mem[es[i].key] # mem[itr[j]]
      BY DEF Left
    <3>3. \A i \in DOMAIN es, j \in DOMAIN itr :
             mem[es[i].key] = mem[itr[j]] <=> mem[es[i].orig].item = RowNames[j].item
      BY SourceItem
    <3>4. \A it : it \in OM!ItemsOf(w) <=> \E i \in DOMAIN es : mem[es[i].orig].item = it
      BY <1>3 DEF OM!ItemsOf
    <3> HIDE DEF w, es, row
    <3>. QED
      BY <1>2, <3>1, <3>2, <3>3, <3>4
  <2>2. added = Selected(row, Left(es))
    BY <2>1, SelectedSame
  <2>3. /\ DOMAIN nms = 1 .. Cardinality(Left(es))
        /\ \A k \in DOMAIN nms : /\ Ascending(Left(es))[k] \in Left(es)
                                 /\ nms[k] = RowNames[Ascending(Left(es))[k]]
    BY LeftAddable DEF Selected
  <2>4. Selected(row, Left(es)) = [k \in DOMAIN nms |-> row[Ascending(Left(es))[k]]]
    BY <2>3 DEF Selected
  <2>5. \A k \in DOMAIN nms : nvs[k] = vs[Ascending(Left(es))[k]]
    BY <2>3 DEF Selected
  <2>6. Left(es) \subseteq DOMAIN itr
    BY DEF Left
  <2> HIDE DEF nms, nvs, row, es, added
  <2>. QED
    BY <1>2, <2>2, <2>3, <2>4, <2>5, <2>6
<1>6. ASSUME NEW k \in DOMAIN old
      PROVE  [Shown(mem, old)[k] EXCEPT !.val = ValOf(Shown(mem, old)[k].name.item)]
               = [name |-> mem[old[k].orig], val |-> Refilled(es, vs)[k].val]
  <2>1. Shown(mem, old)[k] = [name |-> mem[old[k].orig], val |-> old[k].val]
    BY DEF Shown
  <2>2. PICK i \in DOMAIN es : i \in Kept(es) /\ old[k] = es[i]
    BY KeptEntries
  <2>3. PICK j \in DOMAIN itr : RowNames[j].item = mem[old[k].orig].item
    BY <2>2, KeptEntries
  <2>4. Refilled(es, vs)[k].val = vs[j]
    BY <2>3, RefilledValues
  <2>5. \A i2, j2 \in DOMAIN itr : RowNames[i2].item = RowNames[j2].item => i2 = j2
    BY RowType
  <2>6. (CHOOSE i2 \in DOMAIN row : row[i2].name.item = mem[old[k].orig].item) = j
    <3>1. j \in DOMAIN row /\ row[j].name.item = mem[old[k].orig].item
      BY <1>2, <2>3
    <3>2. \A i2 \in DOMAIN row : row[i2].name.item = mem[old[k].orig].item => i2 = j
      BY <1>2, <2>3, <2>5
    <3> HIDE DEF row, old
    <3>. QED
      BY <3>1, <3>2
  <2>7. ValOf(mem[old[k].orig].item) = vs[j]
    <3>1. row[j].val = vs[j]
      BY <1>2
    <3> HIDE DEF row, old
    <3>. QED
      BY <2>6, <3>1
  <2> HIDE DEF ValOf, old, es
  <2>. QED
    BY <2>1, <2>4, <2>7
<1>7. DOMAIN Shown(mem, old) = DOMAIN old
  BY DEF Shown
<1> HIDE DEF old, nms, nvs, kept, added, w, row, es, ValOf
<1>8. [i \in DOMAIN kept |-> [kept[i] EXCEPT !.val = ValOf(kept[i].name.item)]]
        = [k \in DOMAIN old |-> [name |-> mem[old[k].orig], val |-> Refilled(es, vs)[k].val]]
  BY <1>4, <1>6, <1>7
<1>. QED
  BY <1>1, <1>5, <1>8 DEF w, row, es, old, nms, nvs
\* cif_pktitr_next_packet into a packet: it gets the row.
LEMMA NextPacketIntoBecomes ==
    ASSUME MapInv, NEW m \in DOMAIN maps, NEW vs \in [DOMAIN itr -> Vals], itr' = itr,
           LET es  == maps[m]
               nms == Selected(RowNames, Left(es))
           IN  /\ SetMap(m, Refilled(es, vs)
                            \o NewEntries(m, nms, Selected(vs, Left(es)), DOMAIN nms))
               /\ Store(NewStrings(m, nms, DOMAIN nms), CleanAll(es, DOMAIN es \ Kept(es)))
    PROVE  \E es : /\ Becomes(m, es)
                   /\ Shown(mem', es) = OM!Overlay(Shown(mem, maps[m]), Row(vs))
<1> DEFINE es == maps[m]
           P == Kept(es)
           old == Selected(es, P)
           nms == Selected(RowNames, Left(es))
           nvs == Selected(vs, Left(es))
           two == DOMAIN nms
           new == NewStrings(m, nms, two)
           freed == CleanAll(es, DOMAIN es \ P)
           upd == Refilled(es, vs)
           fs == NewEntries(m, nms, nvs, two)
           res == upd \o fs
<1>1. /\ m \in Maps /\ m # Unk /\ m \in Maps \cup {Unk} /\ es \in Seq(Entry)
      /\ Memory(mem) /\ EntriesFit(mem, m, es) /\ AllHeld(mem, m, es)
      /\ \A i \in DOMAIN es : EntryFits(mem, m, es[i])
  BY InUse
<1>2. SetMap(m, res) /\ Store(new, freed)
  OBVIOUS
<1>3. /\ Addable(m, nms, two)
      /\ \A k \in DOMAIN nms :
            /\ Ascending(Left(es))[k] \in Left(es)
            /\ \A i \in DOMAIN es : mem[es[i].orig].item # nms[k].item
  BY LeftAddable
<1>4. /\ P \in SUBSET DOMAIN es /\ old \in Seq(Entry)
      /\ \A k \in DOMAIN old : \E i \in P : i \in DOMAIN es /\ old[k] = es[i]
  BY KeptEntries
<1>5. /\ upd \in Seq(Entry) /\ DOMAIN upd = DOMAIN old
      /\ \A k \in DOMAIN old : upd[k].key = old[k].key /\ upd[k].orig = old[k].orig
  BY RefilledValues
<1>6. \A k \in DOMAIN nms : nvs[k] \in Vals
  <2>1. \A k \in DOMAIN nms : nvs[k] = vs[Ascending(Left(es))[k]]
    BY DEF Selected
  <2>2. Left(es) \subseteq DOMAIN itr
    BY DEF Left
  <2> HIDE DEF nms, nvs, es
  <2>. QED
    BY <1>3, <2>1, <2>2
<1> HIDE DEF es, P, old, nms, nvs, new, freed, upd, fs, res
<1>7. \A b \in freed : b[1] = m
  <2>1. DOMAIN es \ P \in SUBSET DOMAIN es
    OBVIOUS
  <2>2. ASSUME NEW b \in freed
        PROVE  b[1] = m
    <3>1. PICK i \in DOMAIN es \ P : b = es[i].key \/ b = es[i].orig
      BY <2>1, InCleanAll DEF freed
    <3>. QED
      BY <1>1, <3>1 DEF EntryFits
  <2>. QED
    BY <2>2
<1>8. /\ new \in [DOMAIN new -> Spelling]
      /\ \A b \in DOMAIN new : b \in BlockName /\ b[1] = m
  BY <1>1, <1>3, NewStringsEffect DEF new
<1>9. \A b \in DOMAIN new : b \notin DOMAIN mem
  <2>1. /\ \A b \in DOMAIN new : \E i \in DOMAIN nms :
              b = Block(m, nms[i], 1) \/ (i \in two /\ b = Block(m, nms[i], 2))
        /\ \A i \in DOMAIN nms : /\ Block(m, nms[i], 1) = <<m, nms[i].item, 1>>
                                 /\ Block(m, nms[i], 2) = <<m, nms[i].item, 2>>
    BY <1>1, <1>3, NewStringsEffect DEF new
  <2>2. \A i \in DOMAIN nms, n \in 1 .. 3 : <<m, nms[i].item, n>> \notin DOMAIN mem
    BY <1>3 DEF Addable
  <2>3. ASSUME NEW b \in DOMAIN new
        PROVE  b \notin DOMAIN mem
    <3>1. PICK i \in DOMAIN nms :
              b = Block(m, nms[i], 1) \/ (i \in two /\ b = Block(m, nms[i], 2))
      BY <2>1
    <3>2. b = <<m, nms[i].item, 1>> \/ b = <<m, nms[i].item, 2>>
      BY <2>1, <3>1
    <3>3. 1 \in 1 .. 3 /\ 2 \in 1 .. 3
      OBVIOUS
    <3>. QED
      BY <2>2, <3>2, <3>3
  <2>. QED
    BY <2>3
<1>10. /\ Memory(mem')
       /\ \A b : b \in DOMAIN mem' <=> (b \in DOMAIN mem /\ b \notin freed) \/ b \in DOMAIN new
       /\ \A b \in DOMAIN mem' : mem'[b] = IF b \in DOMAIN new THEN new[b] ELSE mem[b]
       /\ \A k : k # m => SameFor(mem, mem', k)
  BY <1>1, <1>2, <1>7, <1>8, StoreEffect
<1>11. KeepsOthers(mem, mem', freed)
  BY <1>9, <1>10 DEF KeepsOthers
<1>12. EntriesFit(mem', m, old) /\ Shown(mem', old) = Shown(mem, old)
  <2>1. KeepsOthers(mem, mem', CleanAll(es, DOMAIN es \ P))
    BY <1>11 DEF freed
  <2>2. EntriesFit(mem', m, Selected(es, P))
    BY <1>1, <1>4, <2>1, FitsSelected
  <2>3. Shown(mem', Selected(es, P)) = Shown(mem, Selected(es, P))
    BY <1>1, <1>4, <2>1, FitsSelected
  <2>. QED
    BY <2>2, <2>3 DEF old
<1>13. \A b \in DOMAIN mem : (b[1] = m /\ b \notin freed) => b \in HeldBy(old)
  <2>1. KeepsOthers(mem, mem', CleanAll(es, DOMAIN es \ P))
    BY <1>11 DEF freed
  <2>2. ASSUME NEW b \in DOMAIN mem, b[1] = m, b \notin CleanAll(es, DOMAIN es \ P)
        PROVE  b \in HeldBy(Selected(es, P))
    BY <1>1, <1>4, <2>1, <2>2, FitsSelected
  <2>. QED
    BY <2>2 DEF old, freed
<1>14. EntriesFit(mem', m, upd) /\ \A b : b \in HeldBy(upd) <=> b \in HeldBy(old)
  BY <1>5, <1>12, FitsWithValues
<1>15. /\ EntriesFit(mem', m, fs)
       /\ DOMAIN new \subseteq HeldBy(fs)
       /\ DOMAIN fs = DOMAIN nms
       /\ \A i \in DOMAIN fs : mem'[fs[i].orig] = nms[i] /\ fs[i].val = nvs[i]
                               /\ fs[i].orig[2] = nms[i].item
  <2>1. \A b \in DOMAIN new : b \in DOMAIN mem' /\ mem'[b] = new[b]
    BY <1>10
  <2>. QED
    BY <1>1, <1>3, <1>6, <2>1, NewEntriesFit DEF fs, new
<1>16. ASSUME NEW k \in DOMAIN upd, NEW j \in DOMAIN fs
       PROVE  upd[k].orig[2] # fs[j].orig[2]
  <2>1. PICK i \in DOMAIN es : old[k] = es[i]
    BY <1>4, <1>5
  <2>2. upd[k].orig[2] = mem[es[i].orig].item
    BY <1>1, <1>5, <2>1 DEF EntryFits
  <2>3. fs[j].orig[2] = nms[j].item /\ mem[es[i].orig].item # nms[j].item
    BY <1>3, <1>15
  <2>. QED
    BY <2>2, <2>3
<1>17. /\ EntriesFit(mem', m, res)
       /\ \A b : b \in HeldBy(res) <=> b \in HeldBy(upd) \/ b \in HeldBy(fs)
       /\ Shown(mem', res) = Shown(mem', upd) \o Shown(mem', fs)
  BY <1>10, <1>14, <1>15, <1>16, FitsConcat DEF res
<1>18. AllHeld(mem', m, res)
  BY <1>10, <1>13, <1>14, <1>15, <1>17 DEF AllHeld
<1>19. Shown(mem', upd) = [k \in DOMAIN old |-> [name |-> mem[old[k].orig], val |-> upd[k].val]]
  <2>1. \A k \in DOMAIN old : mem'[old[k].orig] = mem[old[k].orig]
    <3>1. \A k \in DOMAIN old : Shown(mem', old)[k].name = Shown(mem, old)[k].name
      BY <1>12
    <3>. QED
      BY <3>1 DEF Shown
  <2>. QED
    BY <1>5, <2>1 DEF Shown
<1>20. Shown(mem', fs) = [k \in DOMAIN nms |-> [name |-> nms[k], val |-> nvs[k]]]
  BY <1>15 DEF Shown
<1>21. OM!Overlay(Shown(mem, es), Row(vs))
         = [k \in DOMAIN old |-> [name |-> mem[old[k].orig], val |-> upd[k].val]]
           \o [k \in DOMAIN nms |-> [name |-> nms[k], val |-> nvs[k]]]
  BY OverlayOfRow DEF es, P, old, nms, nvs, upd
<1>22. Becomes(m, res)
  BY <1>2, <1>10, <1>17, <1>18 DEF Becomes, MapFits
<1>23. Shown(mem', res) = OM!Overlay(Shown(mem, es), Row(vs))
  BY <1>17, <1>19, <1>20, <1>21
<1>. QED
  BY <1>22, <1>23 DEF es
-----------------------------------------------------------------------------
(* The other operations *)

\* cif_packet_free, cif_value_free: nothing is left of a map, and the others stay.
LEMMA MapFreeKeeps ==
    ASSUME MapInv, NEW m \in Maps, MapFree(m)
    PROVE  MapInv' /\ Seen' = [h \in DOMAIN maps \ {m} |-> Seen[h]]
<1> DEFINE es == maps[m]
           freed == CleanAll(es, DOMAIN es)
<1>1. /\ m \in DOMAIN maps /\ Free(freed) /\ itr' = itr
      /\ maps' = [h \in DOMAIN maps \ {m} |-> maps[h]]
  BY DEF MapFree, Restrict
<1>2. /\ Memory(mem) /\ m # Unk /\ m \in Maps \cup {Unk}
      /\ AllHeld(mem, m, es) /\ \A i \in DOMAIN es : EntryFits(mem, m, es[i])
  BY <1>1, InUse
<1>3. \A b : b \in freed <=> \E i \in DOMAIN es : b = es[i].key \/ b = es[i].orig
  BY InCleanAll
<1> HIDE DEF es, freed
<1>4. \A b \in freed : b[1] = m
  BY <1>2, <1>3 DEF EntryFits
<1>5. /\ Memory(mem')
      /\ \A b : b \in DOMAIN mem' <=> b \in DOMAIN mem /\ b \notin freed
      /\ \A b \in DOMAIN mem' : mem'[b] = mem[b]
      /\ \A k : k # m => SameFor(mem, mem', k)
  BY <1>1, <1>2, <1>4, FreeEffect
<1>6. \A b \in DOMAIN mem' : b[1] # m
  BY <1>2, <1>3, <1>5, InHeldBy DEF AllHeld
<1>7. DOMAIN mem \subseteq BlockName /\ DOMAIN mem' \subseteq BlockName
  BY <1>2, <1>5 DEF Memory
<1>8. ASSUME NEW h \in DOMAIN maps, h # m
      PROVE  MapFits(mem', h, maps[h]) /\ Shown(mem', maps[h]) = Shown(mem, maps[h])
  <2>1. MapFits(mem, h, maps[h]) /\ SameFor(mem, mem', h)
    BY <1>5, <1>8 DEF MapInv
  <2>2. MapFits(mem', h, maps[h]) /\ \A i \in DOMAIN maps[h] : mem'[maps[h][i].orig] = mem[maps[h][i].orig]
    BY <1>7, <2>1, FitsFrame
  <2>. QED
    BY <2>2 DEF Shown
<1>9. IterFits(mem', itr')
  <2>1. SameFor(mem, mem', Unk) /\ IterFits(mem, itr)
    BY <1>2, <1>5 DEF MapInv
  <2>2. IterFits(mem', itr)
    BY <1>7, <2>1, IterFrame
  <2>. QED
    BY <1>1, <2>2
<1>10. /\ DOMAIN maps' = DOMAIN maps \ {m} /\ \A h \in DOMAIN maps' : maps'[h] = maps[h]
       /\ maps' \in [DOMAIN maps' -> Seq(Entry)] /\ DOMAIN maps' \subseteq Maps
  BY <1>1 DEF MapInv
<1>11. \A b \in DOMAIN mem' : b[1] \in DOMAIN maps' \cup {Unk}
  BY <1>5, <1>6, <1>10 DEF MapInv
<1>12. MapInv'
  BY <1>5, <1>8, <1>9, <1>10, <1>11 DEF MapInv
<1>13. Seen' = [h \in DOMAIN maps \ {m} |-> Seen[h]]
  <2>1. Seen' = [h \in DOMAIN maps' |-> Shown(mem', maps'[h])]
    BY DEF Seen
  <2>2. \A h \in DOMAIN maps \ {m} : Shown(mem', maps'[h]) = Seen[h]
    BY <1>8, <1>10 DEF Seen
  <2>. QED
    BY <1>10, <2>1, <2>2
<1>. QED
  BY <1>12, <1>13

\* The strings of the iterator are nothing to the maps.
LEMMA MapsStay ==
    ASSUME MapInv, maps' = maps, Memory(mem'), \A k : k # Unk => SameFor(mem, mem', k),
           IterFits(mem', itr')
    PROVE  MapInv' /\ Seen' = Seen
<1>1. DOMAIN mem \subseteq BlockName /\ DOMAIN mem' \subseteq BlockName
  BY DEF MapInv, Memory
<1>2. ASSUME NEW h \in DOMAIN maps
      PROVE  MapFits(mem', h, maps[h]) /\ Shown(mem', maps[h]) = Shown(mem, maps[h])
  <2>1. MapFits(mem, h, maps[h]) /\ h # Unk
    BY InUse DEF MapInv
  <2>2. SameFor(mem, mem', h)
    BY <2>1
  <2>3. MapFits(mem', h, maps[h]) /\ \A i \in DOMAIN maps[h] : mem'[maps[h][i].orig] = mem[maps[h][i].orig]
    BY <1>1, <2>1, <2>2, FitsFrame
  <2>. QED
    BY <2>3 DEF Shown
<1>3. ASSUME NEW b \in DOMAIN mem'
      PROVE  b[1] \in DOMAIN maps \cup {Unk}
  <2>1. ASSUME b[1] # Unk
        PROVE  b \in DOMAIN mem
    BY <1>1, <2>1 DEF SameFor
  <2>. QED
    BY <2>1 DEF MapInv
<1>4. MapInv'
  BY <1>2, <1>3 DEF MapInv
<1>5. Seen' = Seen
  <2>1. Seen' = [h \in DOMAIN maps |-> Shown(mem', maps[h])]
    BY DEF Seen
  <2>. QED
    BY <1>2, <2>1 DEF Seen
<1>. QED
  BY <1>4, <1>5

\* Lists of names
LEMMA NamesType ==
    ASSUME NEW S \in SUBSET Spelling, NEW nms
    PROVE  nms \in OM!NameLists(S) <=>
              /\ nms \in Seq(S) /\ Len(nms) <= MaxNames
              /\ \A i, j \in DOMAIN nms : nms[i].item = nms[j].item => i = j
<1>1. nms \in UNION {[1 .. n -> S] : n \in 0 .. MaxNames}
        <=> \E n \in 0 .. MaxNames : nms \in [1 .. n -> S]
  OBVIOUS
<1>2. (\E n \in 0 .. MaxNames : nms \in [1 .. n -> S]) <=> nms \in Seq(S) /\ Len(nms) <= MaxNames
  <2>1. ASSUME NEW n \in 0 .. MaxNames, nms \in [1 .. n -> S]
        PROVE  nms \in Seq(S) /\ Len(nms) <= MaxNames
    <3>1. n \in Nat /\ n <= MaxNames
      BY MapAssumption
    <3>2. nms \in Seq(S) /\ Len(nms) = n
      BY <2>1, <3>1
    <3>. QED
      BY <3>1, <3>2
  <2>2. ASSUME nms \in Seq(S), Len(nms) <= MaxNames
        PROVE  \E n \in 0 .. MaxNames : nms \in [1 .. n -> S]
    <3>1. Len(nms) \in 0 .. MaxNames /\ nms \in [1 .. Len(nms) -> S]
      BY <2>2, MapAssumption
    <3>. QED
      BY <3>1
  <2>. QED
    BY <2>1, <2>2
<1>. QED
  BY <1>1, <1>2 DEF OM!NameLists

\* cif_loop_get_packets: the names of the iterator are its own.
LEMMA OpenIteratorKeeps ==
    ASSUME MapInv, OpenIterator
    PROVE  MapInv' /\ Seen' = Seen
<1>1. PICK nms \in Names \ {<<>>} :
         /\ \A i \in DOMAIN nms : nms[i].form = 0
         /\ itr' = [i \in DOMAIN nms |-> Block(Unk, nms[i], 1)]
         /\ Store(NewStrings(Unk, nms, {}), {})
  BY DEF OpenIterator
<1> DEFINE new == NewStrings(Unk, nms, {})
<1>2. /\ nms \in Seq(Spelling) /\ Len(nms) <= MaxNames
      /\ \A i, j \in DOMAIN nms : nms[i].item = nms[j].item => i = j
  BY NamesType DEF Names
<1>3. /\ DOMAIN nms = 1 .. Len(nms) /\ Len(nms) \in Nat
      /\ \A i \in DOMAIN nms : nms[i] \in Spelling /\ nms[i].item \in Items
  <2>1. /\ DOMAIN nms = 1 .. Len(nms) /\ Len(nms) \in Nat
        /\ \A i \in DOMAIN nms : nms[i] \in Spelling
    BY <1>2
  <2>. QED
    BY <2>1 DEF Spelling
<1>4. itr = <<>> /\ maps' = maps
  BY DEF OpenIterator
<1>5. Memory(mem) /\ \A b \in DOMAIN mem : b[1] # Unk
  BY <1>4 DEF MapInv, IterFits, Range
<1>6. Addable(Unk, nms, {})
  BY <1>1, <1>2, <1>5 DEF Addable
<1> HIDE DEF new
<1>7. /\ new \in [DOMAIN new -> Spelling]
      /\ \A b \in DOMAIN new : /\ b \in BlockName /\ b[1] = Unk
                               /\ \E i \in DOMAIN nms : b = Block(Unk, nms[i], 1)
      /\ \A i \in DOMAIN nms :
            /\ Block(Unk, nms[i], 1) \in DOMAIN new
            /\ Block(Unk, nms[i], 1) = <<Unk, nms[i].item, 1>>
            /\ new[Block(Unk, nms[i], 1)] = Norm(nms[i])
  <2>1. Unk \in Maps \cup {Unk}
    OBVIOUS
  <2>2. /\ new \in [DOMAIN new -> Spelling]
        /\ \A b \in DOMAIN new : b \in BlockName /\ b[1] = Unk
    BY <1>6, <2>1, NewStringsEffect DEF new
  <2>3. \A b \in DOMAIN new : \E i \in DOMAIN nms :
              b = Block(Unk, nms[i], 1) \/ (i \in {} /\ b = Block(Unk, nms[i], 2))
    BY <1>6, <2>1, NewStringsEffect DEF new
  <2>4. \A i \in DOMAIN nms :
            /\ Block(Unk, nms[i], 1) \in DOMAIN new
            /\ Block(Unk, nms[i], 1) = <<Unk, nms[i].item, 1>>
            /\ new[Block(Unk, nms[i], 1)] = Norm(nms[i])
    BY <1>6, <2>1, NewStringsEffect DEF new
  <2>. QED
    BY <2>2, <2>3, <2>4
<1>8. /\ Memory(mem')
      /\ \A b : b \in DOMAIN mem' <=> b \in DOMAIN mem \/ b \in DOMAIN new
      /\ \A b \in DOMAIN new : mem'[b] = new[b]
      /\ \A k : k # Unk => SameFor(mem, mem', k)
  <2>1. /\ Unk \in Maps \cup {Unk} /\ Store(new, {}) /\ \A b \in {} : b[1] = Unk
        /\ new \in [DOMAIN new -> Spelling]
        /\ \A b \in DOMAIN new : b \in BlockName /\ b[1] = Unk
    BY <1>1, <1>7 DEF new
  <2>2. Memory(mem)
    BY <1>5
  <2>3. /\ Memory(mem')
        /\ \A b : b \in DOMAIN mem' <=> (b \in DOMAIN mem /\ b \notin {}) \/ b \in DOMAIN new
        /\ \A b \in DOMAIN mem' : mem'[b] = IF b \in DOMAIN new THEN new[b] ELSE mem[b]
        /\ \A k : k # Unk => SameFor(mem, mem', k)
    BY <2>1, <2>2, StoreEffect
  <2>. QED
    BY <2>3
<1>9. DOMAIN itr' = DOMAIN nms /\ \A i \in DOMAIN nms : itr'[i] = Block(Unk, nms[i], 1)
  BY <1>1
<1>10. ASSUME NEW i \in DOMAIN nms
       PROVE  /\ itr'[i] \in DOMAIN new /\ itr'[i] = <<Unk, nms[i].item, 1>>
              /\ itr'[i] \in BlockName /\ mem'[itr'[i]] = nms[i]
  BY <1>1, <1>3, <1>7, <1>8, <1>9, NormType
<1>11. itr' \in Seq(BlockName) /\ Len(itr') = Len(nms)
  <2>1. itr' = [i \in 1 .. Len(nms) |-> itr'[i]]
    BY <1>1, <1>3
  <2>. QED
    BY <1>3, <1>10, <2>1
<1>12. \A i \in DOMAIN itr' : /\ itr'[i] \in DOMAIN mem' /\ itr'[i][1] = Unk
                              /\ itr'[i][2] = mem'[itr'[i]].item /\ mem'[itr'[i]].form = 0
  BY <1>1, <1>8, <1>9, <1>10
<1>13. \A i, j \in DOMAIN itr' : itr'[i][2] = itr'[j][2] => i = j
  BY <1>2, <1>9, <1>10
<1>14. \A b \in DOMAIN mem' : b[1] = Unk => b \in Range(itr')
  BY <1>5, <1>7, <1>8, <1>9 DEF Range
<1>15. IterFits(mem', itr')
  BY <1>2, <1>11, <1>12, <1>13, <1>14 DEF IterFits
<1>. QED
  BY <1>4, <1>8, <1>15, MapsStay

\* cif_pktitr_free: its names go with it.
LEMMA CloseIteratorKeeps ==
    ASSUME MapInv, CloseIterator
    PROVE  MapInv' /\ Seen' = Seen
<1>1. itr' = <<>> /\ Free(Range(itr)) /\ maps' = maps
  BY DEF CloseIterator
<1>2. /\ Memory(mem) /\ Unk \in Maps \cup {Unk}
      /\ \A b \in Range(itr) : b[1] = Unk
      /\ \A b \in DOMAIN mem : b[1] = Unk => b \in Range(itr)
  BY DEF MapInv, IterFits, Range
<1>3. /\ Memory(mem')
      /\ \A b : b \in DOMAIN mem' <=> b \in DOMAIN mem /\ b \notin Range(itr)
      /\ \A k : k # Unk => SameFor(mem, mem', k)
  BY <1>1, <1>2, FreeEffect
<1>4. \A b \in DOMAIN mem' : b[1] # Unk
  BY <1>2, <1>3
<1>5. IterFits(mem', <<>>)
  BY <1>4, MapAssumption DEF IterFits
<1>. QED
  BY <1>1, <1>3, <1>5, MapsStay
-----------------------------------------------------------------------------
(* Every operation keeps the invariant, and is one of OrderedMap. *)

\* The map an operation is about is seen to have changed, and no other.
LEMMA BecomesPut ==
    ASSUME MapInv, NEW m \in Maps, NEW es, Becomes(m, es)
    PROVE  MapInv' /\ OM!Put(m, Shown(mem', es))
<1>1. MapInv' /\ Seen' = [h \in DOMAIN maps \cup {m} |->
                            IF h = m THEN Shown(mem', es) ELSE Seen[h]]
  BY BecomesFits
<1>2. DOMAIN Seen = DOMAIN maps
  BY DEF Seen
<1>. QED
  BY <1>1, <1>2 DEF OM!Put

\* The sets of OrderedMap are those of CifMap.
LEMMA SameSets ==
    /\ OM!Spelling = Spelling /\ OM!Vals = Vals /\ DOMAIN Seen = DOMAIN maps
    /\ \A m \in DOMAIN maps : Seen[m] = Shown(mem, maps[m])
BY DEF OM!Spelling, Spelling, OM!Vals, Vals, Seen

\* cif_packet_create
LEMMA PacketCreateActs ==
    ASSUME MapInv, NEW m \in Maps, PacketCreate(m)
    PROVE  MapInv' /\ OM!Create(m)
<1>1. PICK nms \in Names :
         /\ NewMap(m, nms, [i \in DOMAIN nms |-> Unk], {i \in DOMAIN nms : nms[i].form # 0})
         /\ Calls("create", m, nms)
  BY DEF PacketCreate
<1> DEFINE two == {i \in DOMAIN nms : nms[i].form # 0}
           vs == [i \in DOMAIN nms |-> Unk]
           es == NewEntries(m, nms, vs, two)
<1>2. m \notin DOMAIN maps /\ itr' = itr
  BY DEF PacketCreate
<1>3. /\ nms \in Seq(Spelling)
      /\ \A i, j \in DOMAIN nms : nms[i].item = nms[j].item => i = j
  BY NamesType DEF Names
<1>4. /\ two \in SUBSET DOMAIN nms /\ \A i \in DOMAIN nms \ two : nms[i].form = 0
      /\ \A i \in DOMAIN nms : vs[i] = Unk /\ vs[i] \in Vals
  BY DEF Vals
<1> HIDE DEF two, vs, es
<1>5. NewMap(m, nms, vs, two)
  BY <1>1 DEF two, vs
<1>6. /\ Becomes(m, es)
      /\ Shown(mem', es) = Listed(nms, vs)
  BY <1>2, <1>3, <1>4, <1>5, NewMapBecomes DEF es
<1>7. Shown(mem', es) = [i \in DOMAIN nms |-> [name |-> nms[i], val |-> Unk]]
  BY <1>4, <1>6 DEF Listed
<1>8. MapInv' /\ OM!Put(m, [i \in DOMAIN nms |-> [name |-> nms[i], val |-> Unk]])
  BY <1>6, <1>7, BecomesPut
<1>9. nms \in OM!NameLists(OM!Spelling)
  BY SameSets DEF Names
<1>10. OM!Calls("create", m, nms) /\ m \notin DOMAIN Seen
  BY <1>1, <1>2, SameSets DEF Calls, OM!Calls
<1>. QED
  BY <1>8, <1>9, <1>10 DEF OM!Create

\* cif_value_create
LEMMA TableCreateActs ==
    ASSUME MapInv, NEW m \in Maps, TableCreate(m)
    PROVE  MapInv' /\ OM!Create(m)
<1>1. Becomes(m, <<>>) /\ Shown(mem', <<>>) = <<>>
  BY TableCreateBecomes
<1>2. MapInv' /\ OM!Put(m, <<>>)
  BY <1>1, BecomesPut
<1>3. <<>> \in OM!NameLists(OM!Spelling)
  <2>1. <<>> \in Seq(Spelling) /\ Len(<<>>) <= MaxNames
        /\ \A i, j \in DOMAIN <<>> : <<>>[i].item = <<>>[j].item => i = j
    BY MapAssumption
  <2>2. <<>> \in OM!NameLists(Spelling)
    BY <2>1, NamesType
  <2>. QED
    BY <2>2, SameSets
<1>4. OM!Calls("create", m, <<>>) /\ m \notin DOMAIN Seen
  BY SameSets DEF TableCreate, Calls, OM!Calls
<1>5. [i \in DOMAIN <<>> |-> [name |-> <<>>[i], val |-> Unk]] = <<>>
  OBVIOUS
<1>6. \E nms \in OM!NameLists(OM!Spelling) :
         /\ OM!Calls("create", m, nms)
         /\ OM!Put(m, [i \in DOMAIN nms |-> [name |-> nms[i], val |-> Unk]])
  <2>1. OM!Put(m, [i \in DOMAIN <<>> |-> [name |-> <<>>[i], val |-> Unk]])
    BY <1>2, <1>5
  <2>. QED
    BY <1>3, <1>4, <2>1
<1>. QED
  BY <1>2, <1>4, <1>6 DEF OM!Create

\* cif_packet_set_item, cif_value_set_item_by_key
LEMMA SetItemActs ==
    ASSUME MapInv, ~ RespellNormalized, NEW m \in Maps, SetItem(m)
    PROVE  MapInv' /\ OM!Set(m)
<1>1. m \in DOMAIN maps /\ itr' = itr
  BY DEF SetItem
<1>2. PICK nm \in Spelling, v \in Vals :
         /\ Calls("set", m, <<nm, v>>)
         /\ (\E i \in Matches(maps[m], nm) : SetExisting(m, nm, v, i)) \/ SetNew(m, nm, v)
  BY DEF SetItem
<1>3. PICK es : Becomes(m, es) /\ Shown(mem', es) = OM!With(Shown(mem, maps[m]), nm, v)
  <2>1. CASE SetNew(m, nm, v)
    BY <1>1, <2>1, SetNewBecomes
  <2>2. ASSUME NEW i \in Matches(maps[m], nm), SetExisting(m, nm, v, i)
        PROVE  \E es : Becomes(m, es) /\ Shown(mem', es) = OM!With(Shown(mem, maps[m]), nm, v)
    BY <1>1, <2>2, SetExistingBecomes
  <2>. QED
    BY <1>2, <2>1, <2>2
<1>4. MapInv' /\ OM!Put(m, OM!With(Seen[m], nm, v))
  BY <1>1, <1>3, BecomesPut, SameSets
<1>5. /\ OM!Calls("set", m, <<nm, v>>) /\ m \in DOMAIN Seen
      /\ nm \in OM!Spelling /\ v \in OM!Vals
  BY <1>1, <1>2, SameSets DEF Calls, OM!Calls
<1>. QED
  BY <1>4, <1>5 DEF OM!Set

\* cif_map_retrieve_item, removing
LEMMA RemoveItemActs ==
    ASSUME MapInv, NEW m \in Maps, RemoveItem(m)
    PROVE  MapInv' /\ OM!Drop(m)
<1>1. m \in DOMAIN maps /\ itr' = itr
  BY DEF RemoveItem
<1>2. PICK nm \in Spelling : \E i \in Matches(maps[m], nm) :
         /\ Calls("remove", m, nm)
         /\ Free(CleanMetadata(maps[m][i]))
         /\ SetMap(m, Selected(maps[m], DOMAIN maps[m] \ {i}))
  BY DEF RemoveItem
<1>3. PICK i \in Matches(maps[m], nm) :
         /\ Calls("remove", m, nm)
         /\ Free(CleanMetadata(maps[m][i]))
         /\ SetMap(m, Selected(maps[m], DOMAIN maps[m] \ {i}))
  BY <1>2
<1> DEFINE es == Selected(maps[m], DOMAIN maps[m] \ {i})
<1>4. /\ Becomes(m, es)
      /\ Shown(mem', es) = OM!Without(Shown(mem, maps[m]), nm.item)
      /\ nm.item \in OM!ItemsOf(Shown(mem, maps[m]))
  BY <1>1, <1>3, RemoveBecomes
<1> HIDE DEF es
<1>5. /\ MapInv' /\ OM!Put(m, OM!Without(Seen[m], nm.item))
      /\ nm.item \in OM!ItemsOf(Seen[m])
  BY <1>1, <1>4, BecomesPut, SameSets
<1>6. OM!Calls("remove", m, nm) /\ m \in DOMAIN Seen /\ nm \in OM!Spelling
  BY <1>1, <1>3, SameSets DEF Calls, OM!Calls
<1>. QED
  BY <1>5, <1>6 DEF OM!Drop

\* cif_packet_free, cif_value_free
LEMMA MapFreeActs ==
    ASSUME MapInv, NEW m \in Maps, MapFree(m)
    PROVE  MapInv' /\ OM!Discard(m)
<1>1. MapInv' /\ Seen' = [h \in DOMAIN maps \ {m} |-> Seen[h]]
  BY MapFreeKeeps
<1>2. m \in DOMAIN Seen /\ OM!Calls("free", m, <<>>) /\ DOMAIN Seen = DOMAIN maps
  BY SameSets DEF MapFree, Calls, OM!Calls
<1>. QED
  BY <1>1, <1>2 DEF OM!Discard, OM!Restrict
\* The row of the iterator is one OrderedMap may read.
LEMMA RowIsRead ==
    ASSUME MapInv, NEW m \in Maps, NEW vs \in [DOMAIN itr -> Vals], Calls("read", m, Row(vs)),
           OM!Put(m, IF m \in DOMAIN Seen THEN OM!Overlay(Seen[m], Row(vs)) ELSE Row(vs))
    PROVE  OM!ReadRow(m)
<1> DEFINE S == [item : Items, form : {0}]
           nms == RowNames
<1>1. /\ nms \in Seq(Spelling) /\ DOMAIN nms = DOMAIN itr /\ Len(nms) <= MaxNames
      /\ \A j \in DOMAIN itr : nms[j] = mem[itr[j]] /\ nms[j] \in Spelling /\ nms[j].form = 0
      /\ \A i, j \in DOMAIN itr : nms[i].item = nms[j].item => i = j
  BY RowType
<1>2. S \in SUBSET Spelling
  BY MapAssumption DEF Spelling
<1>3. nms \in Seq(S)
  <2>1. DOMAIN nms = 1 .. Len(nms) /\ Len(nms) \in Nat /\ nms = [j \in DOMAIN nms |-> nms[j]]
    BY <1>1
  <2>2. \A j \in DOMAIN nms : nms[j] \in S
    BY <1>1 DEF Spelling
  <2> HIDE DEF S, nms
  <2>. QED
    BY <2>1, <2>2
<1> HIDE DEF S, nms
<1>4. nms \in OM!NameLists(S)
  BY <1>1, <1>2, <1>3, NamesType
<1>5. DOMAIN nms = 1 .. Len(nms)
  BY <1>1
<1>6. vs \in [1 .. Len(nms) -> OM!Vals]
  BY <1>1, <1>5, SameSets
<1>7. Row(vs) = [i \in DOMAIN nms |-> [name |-> nms[i], val |-> vs[i]]]
  BY <1>1 DEF Row
<1> DEFINE row == [i \in DOMAIN nms |-> [name |-> nms[i], val |-> vs[i]]]
<1>8. /\ OM!Calls("read", m, row)
      /\ OM!Put(m, IF m \in DOMAIN Seen THEN OM!Overlay(Seen[m], row) ELSE row)
  BY <1>7 DEF Calls, OM!Calls
<1>9. nms \in OM!NameLists([item : Items, form : {0}])
  BY <1>4 DEF S
<1>. QED
  BY <1>6, <1>8, <1>9 DEF OM!ReadRow

\* cif_pktitr_next_packet for a new packet
LEMMA NextPacketNewActs ==
    ASSUME MapInv, NEW m \in Maps, NextPacketNew(m)
    PROVE  MapInv' /\ OM!ReadRow(m)
<1>1. PICK vs \in [DOMAIN itr -> Vals] :
         NewMap(m, RowNames, vs, {}) /\ Calls("read", m, Row(vs))
  BY DEF NextPacketNew
<1>2. m \notin DOMAIN maps /\ itr' = itr
  BY DEF NextPacketNew
<1> DEFINE es == NewEntries(m, RowNames, vs, {})
<1>3. /\ RowNames \in Seq(Spelling) /\ DOMAIN RowNames = DOMAIN itr
      /\ \A j \in DOMAIN itr : RowNames[j] = mem[itr[j]] /\ RowNames[j].form = 0
      /\ \A i, j \in DOMAIN RowNames : RowNames[i].item = RowNames[j].item => i = j
  BY RowType
<1>4. /\ {} \in SUBSET DOMAIN RowNames /\ \A i \in DOMAIN RowNames \ {} : RowNames[i].form = 0
      /\ \A i \in DOMAIN RowNames : vs[i] \in Vals
  BY <1>3
<1>5. /\ Becomes(m, es)
      /\ Shown(mem', es) = Listed(RowNames, vs)
  BY <1>1, <1>2, <1>3, <1>4, NewMapBecomes
<1>6. Shown(mem', es) = Row(vs)
  BY <1>3, <1>5 DEF Row, Listed
<1> HIDE DEF es
<1>7. MapInv' /\ OM!Put(m, Row(vs))
  BY <1>5, <1>6, BecomesPut
<1>8. OM!Put(m, IF m \in DOMAIN Seen THEN OM!Overlay(Seen[m], Row(vs)) ELSE Row(vs))
  BY <1>2, <1>7, SameSets
<1>. QED
  BY <1>1, <1>7, <1>8, RowIsRead

\* cif_pktitr_next_packet into a packet
LEMMA NextPacketIntoActs ==
    ASSUME MapInv, NEW m \in Maps, NextPacketInto(m)
    PROVE  MapInv' /\ OM!ReadRow(m)
<1>1. m \in DOMAIN maps /\ itr' = itr
  BY DEF NextPacketInto
<1>2. PICK vs \in [DOMAIN itr -> Vals] :
         LET es  == maps[m]
             nms == Selected(RowNames, Left(es))
         IN  /\ Calls("read", m, Row(vs))
             /\ SetMap(m, Refilled(es, vs)
                          \o NewEntries(m, nms, Selected(vs, Left(es)), DOMAIN nms))
             /\ Store(NewStrings(m, nms, DOMAIN nms), CleanAll(es, DOMAIN es \ Kept(es)))
  BY DEF NextPacketInto
<1>3. PICK es : Becomes(m, es) /\ Shown(mem', es) = OM!Overlay(Shown(mem, maps[m]), Row(vs))
  BY <1>1, <1>2, NextPacketIntoBecomes
<1>4. MapInv' /\ OM!Put(m, OM!Overlay(Seen[m], Row(vs)))
  BY <1>1, <1>3, BecomesPut, SameSets
<1>5. OM!Put(m, IF m \in DOMAIN Seen THEN OM!Overlay(Seen[m], Row(vs)) ELSE Row(vs))
  BY <1>1, <1>4, SameSets
<1>. QED
  BY <1>2, <1>4, <1>5, RowIsRead

\* A table is copied with its names and values, whichever entries get two strings.
LEMMA TableCopied ==
    ASSUME MapInv, NEW n \in DOMAIN maps, NEW m \in Maps, m \notin DOMAIN maps, itr' = itr,
           Calls("copy", m, n),
           NEW two \in SUBSET DOMAIN maps[n],
           \A i \in DOMAIN maps[n] \ two : mem[maps[n][i].orig].form = 0,
           NewMap(m, [i \in DOMAIN maps[n] |-> mem[maps[n][i].orig]],
                  [i \in DOMAIN maps[n] |-> maps[n][i].val], two)
    PROVE  MapInv' /\ OM!Copy(m)
<1> DEFINE old == maps[n]
           nms == [i \in DOMAIN old |-> mem[old[i].orig]]
           vs == [i \in DOMAIN old |-> old[i].val]
           es == NewEntries(m, nms, vs, two)
<1>1. /\ old \in Seq(Entry) /\ EntriesFit(mem, n, old)
      /\ \A i \in DOMAIN old : /\ old[i] \in Entry /\ EntryFits(mem, n, old[i])
                               /\ mem[old[i].orig] \in Spelling
  BY InUse
<1>2. NewMap(m, nms, vs, two)
  OBVIOUS
<1>3. \A i \in DOMAIN old \ two : mem[old[i].orig].form = 0
  OBVIOUS
<1>4. DOMAIN nms = DOMAIN old /\ \A i \in DOMAIN old : nms[i] = mem[old[i].orig] /\ vs[i] = old[i].val
  OBVIOUS
<1>5. Shown(mem, old) = Listed(nms, vs)
  BY DEF Shown, Listed
<1>6. nms \in Seq(Spelling)
  <2>1. DOMAIN old = 1 .. Len(old) /\ Len(old) \in Nat
    BY <1>1
  <2> HIDE DEF old
  <2>. QED
    BY <1>1, <2>1
<1>7. two \in SUBSET DOMAIN nms
  OBVIOUS
<1> HIDE DEF old, nms, vs, es
<1>8. \A i, j \in DOMAIN nms : nms[i].item = nms[j].item => i = j
  BY <1>1, <1>4 DEF EntriesFit, EntryFits
<1>9. (\A i \in DOMAIN nms \ two : nms[i].form = 0) /\ \A i \in DOMAIN nms : vs[i] \in Vals
  BY <1>1, <1>3, <1>4 DEF Entry
<1>10. Becomes(m, es) /\ Shown(mem', es) = Listed(nms, vs)
  BY <1>2, <1>6, <1>7, <1>8, <1>9, NewMapBecomes DEF es
<1>11. MapInv' /\ OM!Put(m, Seen[n])
  BY <1>5, <1>10, BecomesPut, SameSets DEF old
<1>12. n \in DOMAIN Seen /\ m \notin DOMAIN Seen /\ OM!Calls("copy", m, n)
  BY SameSets DEF Calls, OM!Calls
<1>. QED
  BY <1>11, <1>12 DEF OM!Copy

\* cif_value_clone_table
LEMMA CloneTableActs ==
    ASSUME MapInv, NEW n \in Maps, NEW m \in Maps, CloneTable(n, m)
    PROVE  MapInv' /\ OM!Copy(m)
<1> DEFINE two == DOMAIN maps[n]
<1>1. /\ n \in DOMAIN maps /\ m \notin DOMAIN maps /\ itr' = itr /\ Calls("copy", m, n)
      /\ NewMap(m, [i \in DOMAIN maps[n] |-> mem[maps[n][i].orig]],
                [i \in DOMAIN maps[n] |-> maps[n][i].val], two)
  BY DEF CloneTable
<1>2. two \in SUBSET DOMAIN maps[n] /\ \A i \in DOMAIN maps[n] \ two : mem[maps[n][i].orig].form = 0
  OBVIOUS
<1> HIDE DEF two
<1>. QED
  BY <1>1, <1>2, TableCopied

\* cif_table_serialize, cif_table_deserialize
LEMMA StoreTableActs ==
    ASSUME MapInv, NEW n \in Maps, NEW m \in Maps, StoreTable(n, m)
    PROVE  MapInv' /\ OM!Copy(m)
<1> DEFINE two == DOMAIN maps[n]
<1>1. /\ n \in DOMAIN maps /\ m \notin DOMAIN maps /\ itr' = itr /\ Calls("copy", m, n)
      /\ NewMap(m, [i \in DOMAIN maps[n] |-> mem[maps[n][i].orig]],
                [i \in DOMAIN maps[n] |-> maps[n][i].val], two)
  BY DEF StoreTable
<1>2. two \in SUBSET DOMAIN maps[n] /\ \A i \in DOMAIN maps[n] \ two : mem[maps[n][i].orig].form = 0
  OBVIOUS
<1> HIDE DEF two
<1>. QED
  BY <1>1, <1>2, TableCopied

-----------------------------------------------------------------------------
(* The theorems *)

LEMMA MapInvInit == Init => MapInv /\ OM!Init
<1> SUFFICES ASSUME Init
             PROVE  MapInv /\ OM!Init
  OBVIOUS
<1>1. DOMAIN mem = {} /\ DOMAIN maps = {} /\ itr = <<>> /\ call = <<>>
  BY DEF Init
<1>2. mem \in [DOMAIN mem -> Spelling] /\ maps \in [DOMAIN maps -> Seq(Entry)]
  BY <1>1 DEF Init
<1>3. IterFits(mem, itr)
  BY <1>1, MapAssumption DEF IterFits
<1>4. MapInv
  BY <1>1, <1>2, <1>3 DEF MapInv, Memory
<1>5. OM!Init
  BY <1>1 DEF OM!Init, Seen
<1>. QED
  BY <1>4, <1>5

LEMMA MapInvNext ==
    ASSUME MapInv, ~ RespellNormalized, [Next]_vars
    PROVE  MapInv' /\ [OM!Next]_<<Seen, call>>
<1>1. CASE UNCHANGED vars
  BY <1>1 DEF vars, MapInv, Seen
<1>2. ASSUME NEW m \in Maps,
             \/ PacketCreate(m) \/ TableCreate(m) \/ SetItem(m) \/ RemoveItem(m) \/ MapFree(m)
             \/ NextPacketNew(m) \/ NextPacketInto(m)
      PROVE  MapInv' /\ OM!Next
  <2>1. CASE PacketCreate(m)
    BY <2>1, PacketCreateActs DEF OM!Next
  <2>2. CASE TableCreate(m)
    BY <2>2, TableCreateActs DEF OM!Next
  <2>3. CASE SetItem(m)
    BY <2>3, SetItemActs DEF OM!Next
  <2>4. CASE RemoveItem(m)
    BY <2>4, RemoveItemActs DEF OM!Next
  <2>5. CASE MapFree(m)
    BY <2>5, MapFreeActs DEF OM!Next
  <2>6. CASE NextPacketNew(m)
    BY <2>6, NextPacketNewActs DEF OM!Next
  <2>7. CASE NextPacketInto(m)
    BY <2>7, NextPacketIntoActs DEF OM!Next
  <2>. QED
    BY <1>2, <2>1, <2>2, <2>3, <2>4, <2>5, <2>6, <2>7
<1>3. ASSUME NEW n \in Maps, NEW m \in Maps, CloneTable(n, m) \/ StoreTable(n, m)
      PROVE  MapInv' /\ OM!Next
  BY <1>3, CloneTableActs, StoreTableActs DEF OM!Next
<1>4. CASE OpenIterator
  <2>1. MapInv' /\ Seen' = Seen
    BY <1>4, OpenIteratorKeeps
  <2>. QED
    BY <1>4, <2>1 DEF OpenIterator
<1>5. CASE CloseIterator
  <2>1. MapInv' /\ Seen' = Seen
    BY <1>5, CloseIteratorKeeps
  <2>. QED
    BY <1>5, <2>1 DEF CloseIterator
<1>. QED
  BY <1>1, <1>2, <1>3, <1>4, <1>5 DEF Next

\* What the operations of map.c, packet.c and pktitr.c rely on holds throughout
\* (see MapInv).
LEMMA MapInvHolds ==
    ASSUME ~ RespellNormalized
    PROVE  Spec => []MapInv
<1>1. MapInv /\ [Next]_vars => MapInv'
  BY MapInvNext
<1>2. Init => MapInv
  BY MapInvInit
<1>. QED
  BY <1>1, <1>2, PTL DEF Spec

\* cif_map_entry_clean_metadata_internal frees the strings of an entry once, and
\* those of no other: whatever becomes of packets, tables and iterators, every
\* string has one owner and every owner its strings.
THEOREM StringsAreOwned ==
    ASSUME ~ RespellNormalized
    PROVE  Spec => []StringsHaveOneOwner
<1>1. ASSUME MapInv
      PROVE  StringsHaveOneOwner
  <2> DEFINE held == UNION {Held(o[1], o[2]) : o \in Owners}
  <2>1. \A m \in DOMAIN maps : \A i \in DOMAIN maps[m] :
           /\ EntryFits(mem, m, maps[m][i]) /\ m # Unk /\ AllHeld(mem, m, maps[m])
    BY <1>1, InUse
  <2>2. \A o : o \in Owners <=> \E m \in DOMAIN maps : \E i \in DOMAIN maps[m] : o = <<m, i>>
    BY DEF Owners
  <2>3. ASSUME NEW o \in Owners, NEW p \in Owners, o # p
        PROVE  Held(o[1], o[2]) \cap Held(p[1], p[2]) = {}
    <3>1. PICK m \in DOMAIN maps : \E i \in DOMAIN maps[m] : o = <<m, i>>
      BY <2>2
    <3>2. PICK i \in DOMAIN maps[m] : o = <<m, i>>
      BY <3>1
    <3>3. PICK n \in DOMAIN maps : \E j \in DOMAIN maps[n] : p = <<n, j>>
      BY <2>2
    <3>4. PICK j \in DOMAIN maps[n] : p = <<n, j>>
      BY <3>3
    <3>5. EntryFits(mem, m, maps[m][i]) /\ EntryFits(mem, n, maps[n][j])
      BY <2>1
    <3>6. \A b \in Held(m, i) : b[1] = m /\ b[2] = maps[m][i].orig[2]
      BY <3>5 DEF Held, EntryFits
    <3>7. \A b \in Held(n, j) : b[1] = n /\ b[2] = maps[n][j].orig[2]
      BY <3>5 DEF Held, EntryFits
    <3>8. m = n /\ maps[m][i].orig[2] = maps[n][j].orig[2] => i = j
      BY <1>1 DEF MapInv, MapFits, EntriesFit
    <3>9. m # n \/ i # j
      BY <2>3, <3>2, <3>4
    <3>. QED
      BY <3>2, <3>4, <3>6, <3>7, <3>8, <3>9
  <2>4. \A b : b \in held <=> \E m \in DOMAIN maps : \E i \in DOMAIN maps[m] : b \in Held(m, i)
    <3>1. \A b : b \in held <=> \E o \in Owners : b \in Held(o[1], o[2])
      OBVIOUS
    <3>2. \A m, i : <<m, i>>[1] = m /\ <<m, i>>[2] = i
      OBVIOUS
    <3> HIDE DEF held
    <3>3. ASSUME NEW b \in held
          PROVE  \E m \in DOMAIN maps : \E i \in DOMAIN maps[m] : b \in Held(m, i)
      <4>1. PICK o \in Owners : b \in Held(o[1], o[2])
        BY <3>1
      <4>2. PICK m \in DOMAIN maps : \E i \in DOMAIN maps[m] : o = <<m, i>>
        BY <2>2
      <4>3. PICK i \in DOMAIN maps[m] : o = <<m, i>>
        BY <4>2
      <4>. QED
        BY <3>2, <4>1, <4>3
    <3>4. ASSUME NEW b, NEW m \in DOMAIN maps, NEW i \in DOMAIN maps[m], b \in Held(m, i)
          PROVE  b \in held
      <4>1. <<m, i>> \in Owners
        BY <2>2
      <4>2. b \in Held(<<m, i>>[1], <<m, i>>[2])
        BY <3>2, <3>4
      <4>. QED
        BY <3>1, <4>1, <4>2
    <3>. QED
      BY <3>3, <3>4
  <2> HIDE DEF held
  <2>5. IterFits(mem, itr)
    BY <1>1 DEF MapInv
  <2>6. held \cap Range(itr) = {}
    <3>1. \A b \in Range(itr) : b[1] = Unk
      BY <2>5 DEF IterFits, Range
    <3>2. \A b \in held : b[1] # Unk
      BY <2>1, <2>4 DEF Held, EntryFits
    <3>. QED
      BY <3>1, <3>2
  <2>7. held \cup Range(itr) = DOMAIN mem
    <3>1. \A b \in Range(itr) : b \in DOMAIN mem
      BY <2>5 DEF IterFits, Range
    <3>2. \A b \in held : b \in DOMAIN mem
      BY <2>1, <2>4 DEF Held, EntryFits
    <3>3. ASSUME NEW b \in DOMAIN mem, b \notin Range(itr)
          PROVE  b \in held
      <4>1. b[1] \in DOMAIN maps
        BY <1>1, <2>5, <3>3 DEF MapInv, IterFits
      <4>2. b \in HeldBy(maps[b[1]])
        BY <1>1, <4>1 DEF MapInv, MapFits, AllHeld
      <4>3. PICK i \in DOMAIN maps[b[1]] : b = maps[b[1]][i].key \/ b = maps[b[1]][i].orig
        BY <4>2, InHeldBy
      <4>4. b \in Held(b[1], i)
        BY <4>3 DEF Held
      <4>. QED
        BY <2>4, <4>1, <4>3, <4>4
    <3>. QED
      BY <3>1, <3>2, <3>3
  <2>8. IsInjective(itr)
    BY <2>5 DEF IterFits, IsInjective
  <2>. QED
    BY <2>3, <2>6, <2>7, <2>8 DEF StringsHaveOneOwner, held
<1>. QED
  BY <1>1, MapInvHolds, PTL

\* No key and no name of an entry is ever freed while the entry is there, unless
\* the application respells an item whose two strings are one: that is the only
\* way to what the run `respelled' shows, and with it excluded the guard of Next,
\* where the model goes no further, stops nothing.
THEOREM KeysStay ==
    ASSUME ~ RespellNormalized
    PROVE  Spec => []KeysBelongToEntries
<1>1. MapInv => KeysBelongToEntries
  BY DEF MapInv, MapFits, EntriesFit, EntryFits, KeysBelongToEntries
<1>. QED
  BY <1>1, MapInvHolds, PTL

\* Packets and tables behave as maps that remember the order and the spelling of
\* their names: every call of the interface is one of OrderedMap.
THEOREM MapsImplementOrderedMap ==
    ASSUME ~ RespellNormalized
    PROVE  Spec => ActsAsMap
<1>1. Init => OM!Init
  BY MapInvInit
<1>2. MapInv /\ [Next]_vars => [OM!Next]_<<Seen, call>>
  BY MapInvNext
<1>. QED
  BY <1>1, <1>2, MapInvHolds, PTL DEF Spec, ActsAsMap, OM!Spec
===============================================================================
