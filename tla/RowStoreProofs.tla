--------------------------- MODULE RowStoreProofs ---------------------------
(***************************************************************************)
(* RowStore for every page size, number of pages, set of tables and file   *)
(* to start from: the allocation maps, then that the next call accepts     *)
(* what a call leaves, and that the store implements TableRows.            *)
(***************************************************************************)
EXTENDS RowStore, WellFoundedInduction, FiniteSetTheorems, TLAPS

TypeInv ==
  /\ pages \in Seq(PageType)
  /\ global \subseteq PageNumbers
  /\ owned \in [Tables -> SUBSET PageNumbers]
  /\ avail \in [Tables -> SUBSET PageNumbers]

IInv == TypeInv /\ MapsPartition

-----------------------------------------------------------------------------
(* The lowest page of a set. *)

\* Page numbers are numbers, so a set of them has a lowest.
LEMMA LowestIn ==
  ASSUME NEW S \in SUBSET Nat, S # {}
  PROVE  Lowest(S) \in S
<1>1. PICK x \in S : \A y \in S : ~(<<y, x>> \in OpToRel(<, Nat))
  BY NatLessThanWellFounded, WFMin
<1>2. \A y \in S : ~(y < x)
  BY <1>1 DEF OpToRel
<1>3. \A y \in S : x <= y
  BY <1>2
<1> QED
  BY <1>3 DEF Lowest

\* Facts about short and about growing intervals.
LEMMA Intervals ==
  /\ \A n \in {1, 2} : 1 \in 1 .. n /\ (n = 2 => 2 \in 1 .. n)
  /\ \A n \in Nat : 1 .. (n + 1) = (1 .. n) \union {n + 1}
OBVIOUS

-----------------------------------------------------------------------------
(* What an edit of pages leaves alone. *)

\* A page keeps its owner and the slots it has.
Keeps(before, after) ==
  after.owner = before.owner /\ DOMAIN before.slots \subseteq DOMAIN after.slots

\* after has the pages of before, edited, and changes none outside S.
Edits(before, after, S) ==
  /\ after \in Seq(PageType) /\ DOMAIN after = DOMAIN before
  /\ \A p \in DOMAIN before \ S : after[p] = before[p]
  /\ \A p \in DOMAIN before : Keeps(before[p], after[p])

\* Edits compose.
LEMMA EditsCompose ==
  ASSUME NEW f, NEW g, NEW h, NEW S, Edits(f, g, S), Edits(g, h, S)
  PROVE  Edits(f, h, S)
<1>1. h \in Seq(PageType) /\ DOMAIN h = DOMAIN f
  BY DEF Edits
<1>2. \A p \in DOMAIN f \ S : h[p] = f[p]
  BY DEF Edits
<1>3. \A p \in DOMAIN f : Keeps(f[p], h[p])
  BY DEF Edits, Keeps
<1> QED
  BY <1>1, <1>2, <1>3 DEF Edits

\* A page put in the place of one with the same owner.
LEMMA EditOne ==
  ASSUME NEW pg \in Seq(PageType), NEW p \in DOMAIN pg, NEW image \in PageType,
         Keeps(pg[p], image), NEW S, p \in S
  PROVE  Edits(pg, [pg EXCEPT ![p] = image], S)
BY DEF Edits, Keeps

\* A slot has a length and one of the forms of RowSlot; the deleted one is empty.
LEMMA SlotFacts ==
  /\ Tombstone \in SlotType /\ Tombstone.kind = "deleted" /\ Tombstone.len = 0
  /\ \A slot \in SlotType :
       /\ slot.len \in Nat /\ (slot.kind = "deleted" => slot = Tombstone)
       /\ slot.kind # "deleted" /\ ~Overflow(slot) => slot.val \in Values
       /\ slot.kind # "deleted" /\ ~Overflow(slot) =>
            \A v \in Values : [slot EXCEPT !.val = v] \in SlotType
BY DEF SlotType, Tombstone, Slot, Overflow

\* The three edits of a page keep its form, its owner and its slots.
LEMMA PageEdits ==
  ASSUME NEW image \in PageType, NEW slot \in SlotType, NEW s \in DOMAIN image.slots
  PROVE  /\ AppendRow(image, slot) \in PageType /\ Keeps(image, AppendRow(image, slot))
         /\ ReplaceRow(image, s, slot) \in PageType /\ Keeps(image, ReplaceRow(image, s, slot))
         /\ RemoveRow(image, s) \in PageType /\ Keeps(image, RemoveRow(image, s))
<1>1. image.slots \in Seq(SlotType) /\ image.free \in Int /\ image.slots[s] \in SlotType
  BY DEF PageType
<1>2. image.slots[s].len \in Nat /\ slot.len \in Nat /\ EntryLen \in Nat
  BY <1>1, PageConstants, SlotFacts
<1>3. Tombstone \in SlotType
  BY SlotFacts
<1>4. /\ Append(image.slots, slot) \in Seq(SlotType)
      /\ DOMAIN image.slots \subseteq DOMAIN Append(image.slots, slot)
  BY <1>1
<1>5. \A x \in SlotType : /\ [image.slots EXCEPT ![s] = x] \in Seq(SlotType)
                          /\ DOMAIN [image.slots EXCEPT ![s] = x] = DOMAIN image.slots
  BY <1>1
<1>6. /\ [i \in DOMAIN image.slots |-> Tombstone] \in Seq(SlotType)
      /\ DOMAIN [i \in DOMAIN image.slots |-> Tombstone] = DOMAIN image.slots
  BY <1>1, <1>3
<1> DEFINE Updated(tag, f, sl) == [image EXCEPT !.tag = tag, !.free = f, !.slots = sl]
<1>7. \A tag \in {"data", "released"}, sl \in Seq(SlotType), f \in Int :
        DOMAIN image.slots \subseteq DOMAIN sl =>
          Updated(tag, f, sl) \in PageType /\ Keeps(image, Updated(tag, f, sl))
  BY DEF PageType, Keeps
<1>8. image.tag \in {"data", "released"}
  BY DEF PageType
<1> DEFINE less == image.free - slot.len - EntryLen
           kept == image.free + image.slots[s].len - slot.len
           more == image.free + image.slots[s].len
<1>9. AppendRow(image, slot) =
        Updated(image.tag, less, Append(image.slots, slot))
  BY DEF AppendRow, PageType
<1>10. ReplaceRow(image, s, slot) =
         Updated(image.tag, kept, [image.slots EXCEPT ![s] = slot])
  BY DEF ReplaceRow, PageType
<1>11. RemoveRow(image, s) =
         IF LiveSlots(image) = {s}
           THEN Updated("released", more, [i \in DOMAIN image.slots |-> Tombstone])
           ELSE Updated(image.tag, more, [image.slots EXCEPT ![s] = Tombstone])
  BY DEF RemoveRow, PageType
<1> HIDE DEF Updated
<1>a. less \in Int /\ kept \in Int /\ more \in Int
  BY <1>1, <1>2, SMTT(30)
<1> HIDE DEF less, kept, more
<1>12. AppendRow(image, slot) \in PageType /\ Keeps(image, AppendRow(image, slot))
  BY <1>4, <1>7, <1>8, <1>9, <1>a
<1>13. ReplaceRow(image, s, slot) \in PageType /\ Keeps(image, ReplaceRow(image, s, slot))
  BY <1>5, <1>7, <1>8, <1>10, <1>a
<1>14. RemoveRow(image, s) \in PageType /\ Keeps(image, RemoveRow(image, s))
  BY <1>3, <1>5, <1>6, <1>7, <1>8, <1>11, <1>a
<1> QED
  BY <1>12, <1>13, <1>14

\* A page table's row written, replaced or removed at a locator.
LEMMA LocatorEdits ==
  ASSUME NEW pg \in Seq(PageType), NEW l, l[1] \in DOMAIN pg, l[2] \in DOMAIN pg[l[1]].slots,
         NEW slot \in SlotType, NEW S, l[1] \in S
  PROVE  /\ Edits(pg, ReplaceAt(pg, l, slot), S)
         /\ Edits(pg, RemoveAt(pg, l), S)
         /\ Edits(pg, [pg EXCEPT ![l[1]] = AppendRow(@, slot)], S)
<1>1. pg[l[1]] \in PageType
  OBVIOUS
<1> DEFINE image == pg[l[1]]
<1>2. /\ ReplaceRow(image, l[2], slot) \in PageType /\ Keeps(image, ReplaceRow(image, l[2], slot))
      /\ RemoveRow(image, l[2]) \in PageType /\ Keeps(image, RemoveRow(image, l[2]))
      /\ AppendRow(image, slot) \in PageType /\ Keeps(image, AppendRow(image, slot))
  BY <1>1, PageEdits
<1>3. ReplaceAt(pg, l, slot) = [pg EXCEPT ![l[1]] = ReplaceRow(image, l[2], slot)]
  BY DEF ReplaceAt
<1>4. RemoveAt(pg, l) = [pg EXCEPT ![l[1]] = RemoveRow(image, l[2])]
  BY DEF RemoveAt
<1>5. Edits(pg, [pg EXCEPT ![l[1]] = ReplaceRow(image, l[2], slot)], S)
  BY <1>2, EditOne
<1>6. Edits(pg, [pg EXCEPT ![l[1]] = RemoveRow(image, l[2])], S)
  BY <1>2, EditOne
<1>7. Edits(pg, [pg EXCEPT ![l[1]] = AppendRow(image, slot)], S)
  BY <1>2, EditOne
<1> QED
  BY <1>3, <1>4, <1>5, <1>6, <1>7

-----------------------------------------------------------------------------
(* A staged plan. *)

\* A plan edits pages it retains and puts data pages of the table where it allocates.
Planned(t, after, touched, allocated) ==
  /\ after \in Seq(PageType) /\ DOMAIN after = DOMAIN pages \union allocated
  /\ \A p \in DOMAIN pages \ (touched \union allocated) : after[p] = pages[p]
  /\ \A p \in DOMAIN pages \intersect touched : after[p].owner = pages[p].owner
  /\ \A p \in allocated : after[p].owner = t /\ after[p].tag = "data"

RoomKnown(t, p) ==
  (p \notin owned[t] \/ pages'[p].free # pages[p].free)
    => (p \in avail'[t] <=> HasCapacity(pages'[p], MinimumLen))

\* Staging such a plan keeps the maps a partition and sets the bits of the pages it touches.
LEMMA StageStep ==
  ASSUME IInv, NEW t \in Tables, NEW after, NEW touched, NEW allocated,
         Planned(t, after, touched, allocated), Stage(t, after, touched, allocated)
  PROVE  IInv' /\ \A u \in Tables : \A p \in owned'[u] : RoomKnown(u, p)
<1> DEFINE freed == Freed(after, touched)
<1>1. /\ touched \subseteq owned[t] /\ allocated \subseteq global
      /\ \A p \in touched : p \notin global
      /\ \A p \in allocated : p \notin owned[t] /\ p \notin avail[t]
      /\ pages' = after /\ global' = (global \ allocated) \union freed
      /\ owned' = [owned EXCEPT ![t] = (owned[t] \ freed) \union allocated]
      /\ avail' = [avail EXCEPT ![t] = AvailAfter(t, after, touched, allocated)]
  BY DEF Stage, MayRetain, MayAllocate, GlobalAfter
<1>2. freed \subseteq touched /\ \A p \in touched : p \in freed <=> after[p].tag = "released"
  BY DEF Freed
<1>3. /\ after \in Seq(PageType) /\ pages \in Seq(PageType)
      /\ \A p \in DOMAIN pages : pages[p].owner \in Tables
      /\ owned \in [Tables -> SUBSET PageNumbers] /\ avail \in [Tables -> SUBSET PageNumbers]
      /\ global \subseteq PageNumbers
  <2>1. \A image \in PageType : image.owner \in Tables
    BY DEF PageType
  <2> QED
    BY <2>1 DEF IInv, TypeInv, Planned
<1>4. /\ \A p \in DOMAIN pages :
           IF pages[p].tag = "released" THEN p \in global
           ELSE p \notin global /\ p \in owned[pages[p].owner]
      /\ \A p \in PageNumbers : p \notin DOMAIN pages => p \in global
      /\ \A u \in Tables : avail[u] \subseteq owned[u]
      /\ \A u \in Tables : \A p \in owned[u] : p \in DOMAIN pages /\ pages[p].owner = u /\ p \notin global
  BY DEF IInv, MapsPartition, MapsAccepted
<1>5. /\ DOMAIN after = DOMAIN pages \union allocated
      /\ \A p \in DOMAIN pages \ (touched \union allocated) : after[p] = pages[p]
      /\ \A p \in touched : after[p].owner = t
      /\ \A p \in allocated : after[p].owner = t /\ after[p].tag = "data"
  BY <1>1, <1>4 DEF Planned
<1> DEFINE A == AvailAfter(t, after, touched, allocated)
<1>6. /\ \A p : p \in A <=> \/ p \in avail[t] \ touched
                            \/ p \in (touched \ freed) \union allocated /\ HasCapacity(after[p], MinimumLen)
  BY DEF AvailAfter
<1>7. /\ owned'[t] = (owned[t] \ freed) \union allocated /\ avail'[t] = A
      /\ \A u \in Tables \ {t} : owned'[u] = owned[u] /\ avail'[u] = avail[u]
  BY <1>1, <1>3
<1>8. A \subseteq owned'[t]
  BY <1>1, <1>2, <1>4, <1>6, <1>7
<1> HIDE DEF A, freed
<1>9. TypeInv'
  <2>1. global' \subseteq PageNumbers /\ owned'[t] \subseteq PageNumbers
    BY <1>1, <1>2, <1>3, <1>7
  <2>2. avail'[t] \subseteq PageNumbers
    BY <1>7, <1>8, <2>1
  <2>3. owned' \in [Tables -> SUBSET PageNumbers] /\ avail' \in [Tables -> SUBSET PageNumbers]
    BY <1>1, <1>3, <1>7, <2>1, <2>2
  <2> QED
    BY <1>1, <1>3, <2>1, <2>3 DEF TypeInv
<1>10. ASSUME NEW p \in DOMAIN after
       PROVE  IF after[p].tag = "released" THEN p \in global'
              ELSE p \notin global' /\ p \in owned'[after[p].owner]
  <2>1. CASE p \in touched
    BY <1>1, <1>2, <1>5, <1>7, <2>1
  <2>2. CASE p \in allocated
    BY <1>1, <1>2, <1>5, <1>7, <2>2
  <2>3. CASE p \notin touched /\ p \notin allocated
    <3>1. p \in DOMAIN pages /\ after[p] = pages[p] /\ pages[p].owner \in Tables
      BY <1>3, <1>5, <2>3
    <3>2. p \in global' <=> p \in global
      BY <1>1, <1>2, <2>3
    <3>3. CASE pages[p].owner = t
      BY <1>2, <1>4, <1>7, <2>3, <3>1, <3>2, <3>3
    <3>4. CASE pages[p].owner # t
      BY <1>4, <1>7, <3>1, <3>2, <3>4
    <3> QED
      BY <3>3, <3>4
  <2> QED
    BY <2>1, <2>2, <2>3
<1>11. ASSUME NEW p \in PageNumbers, p \notin DOMAIN after PROVE p \in global'
  BY <1>1, <1>4, <1>5, <1>11
<1>12. ASSUME NEW u \in Tables, NEW p \in owned'[u]
       PROVE  p \in DOMAIN after /\ after[p].owner = u /\ p \notin global'
  <2>1. CASE u = t
    BY <1>1, <1>2, <1>4, <1>5, <1>7, <1>12, <2>1
  <2>2. CASE u # t
    BY <1>1, <1>2, <1>4, <1>5, <1>7, <1>12, <2>2
  <2> QED
    BY <2>1, <2>2
<1>13. \A u \in Tables : avail'[u] \subseteq owned'[u]
  BY <1>4, <1>7, <1>8
<1>14. MapsPartition'
  BY <1>1, <1>10, <1>11, <1>12, <1>13 DEF MapsPartition, MapsAccepted
<1>15. ASSUME NEW u \in Tables, NEW p \in owned'[u] PROVE RoomKnown(u, p)
  <2>1. CASE u # t
    BY <1>1, <1>4, <1>5, <1>7, <2>1, <1>15 DEF RoomKnown
  <2>2. CASE u = t /\ p \in touched
    <3>1. p \notin freed
      BY <1>1, <1>7, <1>15, <2>2
    <3> QED
      BY <1>1, <1>6, <1>7, <2>2, <3>1 DEF RoomKnown
  <2>3. CASE u = t /\ p \in allocated
    BY <1>1, <1>4, <1>6, <1>7, <2>3 DEF RoomKnown
  <2>4. CASE u = t /\ p \notin touched /\ p \notin allocated
    <3>1. p \in owned[t]
      BY <1>7, <1>15, <2>4
    <3> QED
      BY <1>1, <1>4, <1>5, <2>4, <3>1 DEF RoomKnown
  <2> QED
    BY <2>1, <2>2, <2>3, <2>4
<1> QED
  BY <1>9, <1>14, <1>15 DEF IInv

-----------------------------------------------------------------------------
(* The parts of the operations. *)

\* The slots an operation writes have the stored form.
LEMMA SlotForms ==
  ASSUME NEW v \in Values, NEW n \in Lens[v]
  PROVE  /\ Ordinary(v, n) \in SlotType /\ Storage(v, n) \in SlotType
         /\ \A p, i \in Nat : Link(<<p, i>>) \in SlotType
<1>1. n \in Nat /\ PointerLen \in Nat
  BY StoreAssumption, PageConstants
<1>2. Ordinary(v, n) \in SlotType /\ Storage(v, n) \in SlotType
  BY <1>1 DEF Ordinary, Storage, Slot, SlotType, RowSlot
<1>3. \A p, i \in Nat : Link(<<p, i>>) \in SlotType
  BY <1>1 DEF Link, Slot, SlotType, RowSlot
<1> QED
  BY <1>2, <1>3

\* The page with one row is a data page of its table.
LEMMA PageForm ==
  ASSUME NEW t \in Tables, NEW slot \in SlotType
  PROVE  /\ NewPage(t, slot) \in PageType /\ NewPage(t, slot).owner = t
         /\ NewPage(t, slot).tag = "data"
<1>1. slot.len \in Nat
  BY SlotFacts
<1>2. PageBytes - DirectoryOffset - EntryLen - slot.len \in Int /\ <<slot>> \in Seq(SlotType)
  BY <1>1, PageConstants
<1> QED
  BY <1>2 DEF NewPage, PageType

\* The lowest page with room is one of the table's.
LEMMA CandidateOwned ==
  ASSUME IInv, NEW t \in Tables, NEW skip, NEW n, Candidates(t, skip, n) # {}
  PROVE  /\ Lowest(Candidates(t, skip, n)) \in Candidates(t, skip, n)
         /\ \A p \in Candidates(t, skip, n) : p \in DOMAIN pages /\ p \in owned[t] /\ p \in Nat /\ p \notin skip
<1>1. avail[t] \subseteq owned[t] /\ \A p \in owned[t] : p \in DOMAIN pages
  BY DEF IInv, MapsPartition, MapsAccepted
<1>2. avail[t] \subseteq Nat
  BY StoreAssumption DEF IInv, TypeInv, PageNumbers
<1>3. Candidates(t, skip, n) \in SUBSET Nat
  BY <1>2 DEF Candidates
<1> QED
  BY <1>1, <1>2, <1>3, LowestIn DEF Candidates

\* The records of a chain are the table's.
LEMMA ChainOwned ==
  ASSUME IInv, NEW t \in Tables, NEW l \in Visible(pages, owned[t]),
         GraphLoads(pages, owned[t], count[t])
  PROVE  /\ Chain(l) \in Seq(Locators) /\ Len(Chain(l)) \in {1, 2} /\ Chain(l)[1] = l
         /\ \A i \in DOMAIN Chain(l) :
              /\ Chain(l)[i][1] \in owned[t] /\ Chain(l)[i][1] \in DOMAIN pages
              /\ Chain(l)[i][2] \in DOMAIN pages[Chain(l)[i][1]].slots
<1>1. l \in Records(pages, owned[t])
  BY DEF Visible
<1>2. Overflow(At(pages, l)) => Target(pages, l) \in Records(pages, owned[t])
  BY <1>1 DEF GraphLoads
<1>3. \A m \in Records(pages, owned[t]) :
        /\ m \in Locators /\ m[1] \in owned[t] /\ m[1] \in DOMAIN pages
        /\ m[2] \in DOMAIN pages[m[1]].slots
  BY DEF Records, LiveSlots, IInv, MapsPartition, MapsAccepted
<1>4. CASE Overflow(At(pages, l))
  <2>1. Chain(l) = <<l, Target(pages, l)>>
    BY <1>4 DEF Chain
  <2> QED
    BY <1>1, <1>2, <1>3, <1>4, <2>1
<1>5. CASE ~Overflow(At(pages, l))
  <2>1. Chain(l) = <<l>>
    BY <1>5 DEF Chain
  <2> QED
    BY <1>1, <1>3, <2>1
<1> QED
  BY <1>4, <1>5

\* A chain of one or two records ends in one that holds a value.
LEMMA ChainEnd ==
  ASSUME NEW t \in Tables, NEW l \in Visible(pages, owned[t]),
         GraphLoads(pages, owned[t], count[t]), ~MultiHop(l)
  PROVE  LET e == At(pages, Chain(l)[Len(Chain(l))]) IN e.kind # "deleted" /\ ~Overflow(e)
<1>1. \A m \in Records(pages, owned[t]) : At(pages, m).kind # "deleted"
  BY DEF Records, LiveSlots, At
<1>2. CASE Overflow(At(pages, l))
  <2>1. Target(pages, l) \in Records(pages, owned[t])
    BY <1>2 DEF GraphLoads, Visible
  <2>2. Chain(l)[Len(Chain(l))] = Target(pages, l)
    BY <1>2 DEF Chain
  <2> QED
    BY <1>1, <1>2, <2>1, <2>2 DEF MultiHop
<1>3. CASE ~Overflow(At(pages, l))
  <2>1. Chain(l)[Len(Chain(l))] = l
    BY <1>3 DEF Chain
  <2> QED
    BY <1>1, <1>3, <2>1 DEF Visible
<1> QED
  BY <1>2, <1>3

\* The pages with one more, or one in the place of another.
IsPlaced(p, image, after) ==
  /\ p \in Nat /\ after \in Seq(PageType) /\ DOMAIN after = DOMAIN pages \union {p}
  /\ after[p] = image
  /\ \A q \in DOMAIN pages \ {p} : after[q] = pages[q]

\* A page the table takes back or appends.
LEMMA Placed ==
  ASSUME IInv, NEW t \in Tables, NEW image \in PageType
  PROVE  IsPlaced(NewRowPage(t), image, Place(pages, NewRowPage(t), image))
<1> SUFFICES ASSUME NEW p, p = NewRowPage(t), NEW after, after = Place(pages, p, image)
             PROVE  IsPlaced(p, image, after)
  OBVIOUS
<1>1. pages \in Seq(PageType) /\ global \subseteq Nat \ {0}
  BY StoreAssumption DEF IInv, TypeInv, PageNumbers
<1>2. CASE Reusable(t) # {}
  <2>1. Reusable(t) \in SUBSET Nat
    BY <1>1 DEF Reusable
  <2>2. p \in Reusable(t)
    BY <1>2, <2>1, LowestIn DEF NewRowPage
  <2>3. p \in Nat \ {0} /\ p <= Len(pages)
    BY <1>1, <2>2 DEF Reusable
  <2>4. p \in DOMAIN pages /\ Place(pages, p, image) = [pages EXCEPT ![p] = image]
    BY <1>1, <2>3 DEF Place
  <2>5. after \in Seq(PageType)
    BY <1>1, <2>4
  <2>6. DOMAIN after = DOMAIN pages /\ after[p] = image /\ \A q \in DOMAIN pages \ {p} : after[q] = pages[q]
    BY <2>4
  <2> QED
    BY <2>3, <2>4, <2>5, <2>6 DEF IsPlaced
<1>3. CASE Reusable(t) = {}
  <2>1. p = Len(pages) + 1 /\ Len(pages) \in Nat
    BY <1>1, <1>3 DEF NewRowPage
  <2>2. Place(pages, p, image) = Append(pages, image)
    BY <2>1 DEF Place
  <2>3. after \in Seq(PageType) /\ Len(after) = Len(pages) + 1
    BY <1>1, <2>2
  <2>4. DOMAIN after = DOMAIN pages \union {p}
    <3>1. DOMAIN after = 1 .. Len(pages) + 1 /\ DOMAIN pages = 1 .. Len(pages)
      BY <1>1, <2>3
    <3> QED
      BY <2>1, <3>1, Intervals
  <2>5. after[p] = image /\ \A q \in DOMAIN pages \ {p} : after[q] = pages[q]
    BY <1>1, <2>1, <2>2
  <2> QED
    BY <2>1, <2>3, <2>4, <2>5 DEF IsPlaced
<1> QED
  BY <1>2, <1>3

\* An edit of pages a plan touches.
LEMMA EditsPlanned ==
  ASSUME NEW t, NEW after, NEW touched, Edits(pages, after, touched)
  PROVE  Planned(t, after, touched, {})
BY DEF Edits, Planned, Keeps

-----------------------------------------------------------------------------
(* The operations: each stages a plan. *)

Stages(t) ==
  \E after, touched, allocated :
    Planned(t, after, touched, allocated) /\ Stage(t, after, touched, allocated)

\* An insertion appends to a page with room or takes a page.
LEMMA InsertStages ==
  ASSUME IInv, NEW t \in Tables, NEW slot \in SlotType,
         InsertIntoAvailable(t, slot) \/ InsertIntoNewPage(t, slot)
  PROVE  Stages(t)
<1>1. CASE InsertIntoAvailable(t, slot)
  <2> DEFINE p == Lowest(Candidates(t, {}, slot.len))
             after == [pages EXCEPT ![p] = AppendRow(@, slot)]
  <2>1. p \in Candidates(t, {}, slot.len) /\ p \in DOMAIN pages
    BY <1>1, CandidateOwned DEF InsertIntoAvailable
  <2>2. PICK s \in DOMAIN pages[p].slots : TRUE
    BY <2>1 DEF Candidates, AppendFits, LiveSlots
  <2>3. Edits(pages, after, {p})
    <3>1. /\ pages \in Seq(PageType) /\ <<p, s>>[1] = p /\ <<p, s>>[2] = s
      BY DEF IInv, TypeInv
    <3> HIDE DEF p
    <3> QED
      BY <2>1, <2>2, <3>1, LocatorEdits
  <2>4. Stage(t, after, {p}, {})
    BY <1>1 DEF InsertIntoAvailable
  <2> HIDE DEF p, after
  <2> QED
    BY <2>3, <2>4, EditsPlanned DEF Stages
<1>2. CASE InsertIntoNewPage(t, slot)
  <2> DEFINE p == NewRowPage(t)
             after == Place(pages, p, NewPage(t, slot))
  <2>1. NewPage(t, slot) \in PageType /\ NewPage(t, slot).owner = t /\ NewPage(t, slot).tag = "data"
    BY PageForm
  <2>2. IsPlaced(p, NewPage(t, slot), after)
    BY <2>1, Placed
  <2>3. Stage(t, after, {}, {p})
    BY <1>2 DEF InsertIntoNewPage
  <2> HIDE DEF p, after
  <2>4. Planned(t, after, {}, {p})
    BY <2>1, <2>2 DEF Planned, IsPlaced
  <2> QED
    BY <2>3, <2>4 DEF Stages
<1> QED
  BY <1>1, <1>2

\* The edits along a chain.
LEMMA ChainEdits ==
  ASSUME NEW pg \in Seq(PageType), NEW chain, NEW S, NEW slot \in SlotType,
         Len(chain) \in {1, 2},
         \A i \in 1 .. Len(chain) : /\ chain[i][1] \in DOMAIN pg /\ chain[i][1] \in S
                                    /\ chain[i][2] \in DOMAIN pg[chain[i][1]].slots
  PROVE  /\ Edits(pg, RemoveAt(pg, chain[1]), S)
         /\ Len(chain) = 2 => Edits(pg, RemoveAt(RemoveAt(pg, chain[2]), chain[1]), S)
         /\ Edits(pg, DropStorage(ReplaceAt(pg, chain[1], slot), chain), S)
         /\ Len(chain) = 2 => Edits(pg, ReplaceAt(pg, chain[2], slot), S)
<1>1. ASSUME NEW after, Edits(pg, after, S), NEW i \in 1 .. Len(chain)
      PROVE  /\ after \in Seq(PageType) /\ chain[i][1] \in DOMAIN after
             /\ chain[i][2] \in DOMAIN after[chain[i][1]].slots
  BY <1>1 DEF Edits, Keeps
<1>2. 1 \in 1 .. Len(chain) /\ (Len(chain) = 2 => 2 \in 1 .. Len(chain))
  BY Intervals
<1>3. ASSUME NEW i \in 1 .. Len(chain)
      PROVE  Edits(pg, RemoveAt(pg, chain[i]), S) /\ Edits(pg, ReplaceAt(pg, chain[i], slot), S)
  BY LocatorEdits
<1>4. ASSUME NEW after, Edits(pg, after, S), NEW i \in 1 .. Len(chain)
      PROVE  Edits(pg, RemoveAt(after, chain[i]), S)
  <2>1. Edits(after, RemoveAt(after, chain[i]), S)
    BY <1>1, <1>4, LocatorEdits
  <2> QED
    BY <1>4, <2>1, EditsCompose
<1>5. Len(chain) = 2 => Edits(pg, RemoveAt(RemoveAt(pg, chain[2]), chain[1]), S)
  BY <1>2, <1>3, <1>4
<1>6. Edits(pg, DropStorage(ReplaceAt(pg, chain[1], slot), chain), S)
  BY <1>2, <1>3, <1>4 DEF DropStorage
<1> QED
  BY <1>2, <1>3, <1>5, <1>6

\* A deletion edits the pages of the row's chain.
LEMMA DeleteStages ==
  ASSUME IInv, NEW t \in Tables, NEW l \in Visible(pages, owned[t]),
         GraphLoads(pages, owned[t], count[t]), Delete(t, l)
  PROVE  Stages(t)
<1> DEFINE chain == Chain(l)
           touched == {chain[i][1] : i \in DOMAIN chain}
           after == IF Len(chain) = 2 THEN RemoveAt(RemoveAt(pages, chain[2]), l)
                                      ELSE RemoveAt(pages, l)
<1>1. /\ chain \in Seq(Locators) /\ Len(chain) \in {1, 2} /\ chain[1] = l
      /\ \A i \in DOMAIN chain : /\ chain[i][1] \in owned[t] /\ chain[i][1] \in DOMAIN pages
                                 /\ chain[i][2] \in DOMAIN pages[chain[i][1]].slots
  BY ChainOwned
<1>2. Stage(t, after, touched, {})
  BY DEF Delete
<1>3. pages \in Seq(PageType) /\ Tombstone \in SlotType
  BY SlotFacts DEF IInv, TypeInv
<1> HIDE DEF chain
<1>4. DOMAIN chain = 1 .. Len(chain) /\ \A i \in 1 .. Len(chain) : chain[i][1] \in touched
  BY <1>1
<1>5. Edits(pages, after, touched)
  <2> HIDE DEF touched
  <2> QED
    BY <1>1, <1>3, <1>4, ChainEdits
<1> HIDE DEF after, touched
<1> QED
  BY <1>2, <1>5, EditsPlanned DEF Stages

\* A replacement edits the pages of the chain and, when the row moves, one more page.
LEMMA RelocateStages ==
  ASSUME IInv, NEW t \in Tables, NEW l \in Visible(pages, owned[t]), NEW v \in Values, NEW n \in Lens[v],
         GraphLoads(pages, owned[t], count[t]), NEW chain, chain = Chain(l), Relocate(t, chain, v, n)
  PROVE  Stages(t)
<1> DEFINE own == {chain[i][1] : i \in DOMAIN chain}
           open == Candidates(t, own, n)
           p == IF open # {} THEN Lowest(open) ELSE NewRowPage(t)
           stored == IF open # {} THEN [pages EXCEPT ![p] = AppendRow(@, Storage(v, n))]
                                  ELSE Place(pages, p, NewPage(t, Storage(v, n)))
           target == <<p, Len(stored[p].slots)>>
           after == LinkTo(stored, chain, target)
<1>1. /\ chain \in Seq(Locators) /\ Len(chain) \in {1, 2} /\ DOMAIN chain = 1 .. Len(chain)
      /\ \A i \in 1 .. Len(chain) : /\ chain[i][1] \in own
                                    /\ chain[i][1] \in owned[t] /\ chain[i][1] \in DOMAIN pages
                                    /\ chain[i][2] \in DOMAIN pages[chain[i][1]].slots
  <2>1. chain \in Seq(Locators) /\ DOMAIN chain = 1 .. Len(chain)
    BY ChainOwned
  <2> QED
    BY <2>1, ChainOwned
<1>2. own \subseteq owned[t]
  BY <1>1
<1>3. pages \in Seq(PageType) /\ Storage(v, n) \in SlotType
  BY SlotForms DEF IInv, TypeInv
<1>4. ASSUME NEW S, own \subseteq S, stored \in Seq(PageType), p \in Nat, p \in DOMAIN stored,
             \A i \in 1 .. Len(chain) : /\ chain[i][1] \in DOMAIN stored
                                        /\ chain[i][2] \in DOMAIN stored[chain[i][1]].slots
      PROVE  Edits(stored, after, S)
  <2>1. stored[p].slots \in Seq(SlotType)
    <3> HIDE DEF p, stored
    <3>1. stored[p] \in PageType
      BY <1>4
    <3> QED
      BY <3>1 DEF PageType
  <2>2. Len(stored[p].slots) \in Nat
    <3> HIDE DEF p, stored
    <3> QED
      BY <2>1
  <2>3. Link(target) \in SlotType
    <3> HIDE DEF p, stored
    <3> QED
      BY <1>4, <2>2, SlotForms
  <2>4. \A i \in 1 .. Len(chain) : chain[i][1] \in S
    BY <1>1, <1>4
  <2>5. after = DropStorage(ReplaceAt(stored, chain[1], Link(target)), chain)
    BY DEF LinkTo
  <2> HIDE DEF own, stored, target, after, p
  <2>6. Edits(stored, DropStorage(ReplaceAt(stored, chain[1], Link(target)), chain), S)
    BY <1>1, <1>4, <2>3, <2>4, ChainEdits
  <2> QED
    BY <2>5, <2>6
<1>5. CASE open # {}
  <2>1. p \in DOMAIN pages /\ p \in Nat /\ p \notin own /\ p \in open
    BY <1>5, CandidateOwned
  <2>2. PICK s \in DOMAIN pages[p].slots : TRUE
    BY <2>1 DEF Candidates, AppendFits, LiveSlots
  <2>3. stored = [pages EXCEPT ![p] = AppendRow(@, Storage(v, n))]
    BY <1>5
  <2> DEFINE S == own \union {p}
  <2>4. Edits(pages, stored, S)
    <3>1. <<p, s>>[1] = p /\ <<p, s>>[2] = s /\ p \in S
      OBVIOUS
    <3> HIDE DEF p, own, S, stored
    <3>2. Edits(pages, [pages EXCEPT ![p] = AppendRow(@, Storage(v, n))], S)
      BY <1>3, <2>1, <2>2, <3>1, LocatorEdits
    <3> QED
      BY <2>3, <3>2
  <2>5. Stage(t, after, S, {})
    BY <1>5 DEF Relocate
  <2>6. own \subseteq S
    OBVIOUS
  <2> HIDE DEF p, own, S, stored, after, open
  <2>7. /\ stored \in Seq(PageType) /\ p \in DOMAIN stored
        /\ \A i \in 1 .. Len(chain) : /\ chain[i][1] \in DOMAIN stored
                                      /\ chain[i][2] \in DOMAIN stored[chain[i][1]].slots
    BY <1>1, <2>1, <2>4 DEF Edits, Keeps
  <2>8. Edits(stored, after, S)
    BY <1>4, <2>1, <2>6, <2>7
  <2> QED
    BY <2>4, <2>5, <2>8, EditsCompose, EditsPlanned DEF Stages
<1>6. CASE open = {}
  <2>1. p = NewRowPage(t) /\ stored = Place(pages, p, NewPage(t, Storage(v, n)))
    BY <1>6
  <2>2. /\ NewPage(t, Storage(v, n)) \in PageType /\ NewPage(t, Storage(v, n)).owner = t
        /\ NewPage(t, Storage(v, n)).tag = "data"
    BY <1>3, PageForm
  <2>3. Stage(t, after, own, {p})
    BY <1>6 DEF Relocate
  <2> HIDE DEF p, own, stored, after, open
  <2>4. IsPlaced(p, NewPage(t, Storage(v, n)), stored)
    BY <2>1, <2>2, Placed
  <2>5. p \notin own
    BY <1>2, <2>3 DEF Stage, MayAllocate
  <2>6. /\ stored \in Seq(PageType) /\ p \in DOMAIN stored /\ p \in Nat
        /\ \A i \in 1 .. Len(chain) : /\ chain[i][1] \in DOMAIN stored
                                      /\ chain[i][2] \in DOMAIN stored[chain[i][1]].slots
    <3>1. \A i \in 1 .. Len(chain) : chain[i][1] # p
      BY <1>1, <2>5
    <3> QED
      BY <1>1, <2>4, <3>1 DEF IsPlaced
  <2>7. Edits(stored, after, own)
    BY <1>4, <2>6
  <2>8. Planned(t, after, own, {p})
    <3>1. \A q \in own : q \in DOMAIN pages /\ q # p
      BY <1>2, <2>5 DEF IInv, MapsPartition, MapsAccepted
    <3>2. after \in Seq(PageType) /\ DOMAIN after = DOMAIN pages \union {p}
      BY <2>4, <2>7 DEF Edits, IsPlaced
    <3>3. \A q \in DOMAIN pages \ (own \union {p}) : after[q] = pages[q]
      BY <2>4, <2>7 DEF Edits, IsPlaced
    <3>4. \A q \in DOMAIN pages \intersect own : after[q].owner = pages[q].owner
      BY <2>4, <2>7, <3>1 DEF Edits, IsPlaced, Keeps
    <3>5. after[p].owner = t /\ after[p].tag = "data"
      BY <2>2, <2>4, <2>5, <2>7 DEF Edits, IsPlaced
    <3> QED
      BY <3>2, <3>3, <3>4, <3>5 DEF Planned
  <2> QED
    BY <2>3, <2>8 DEF Stages
<1> QED
  BY <1>5, <1>6

\* A replaced row goes to its logical slot, its storage or elsewhere.
LEMMA ReplaceStages ==
  ASSUME IInv, NEW t \in Tables, NEW l \in Visible(pages, owned[t]), NEW v \in Values, NEW n \in Lens[v],
         GraphLoads(pages, owned[t], count[t]), Replace(t, l, v, n)
  PROVE  Stages(t)
<1> DEFINE chain == Chain(l)
           own == {chain[i][1] : i \in DOMAIN chain}
<1>2. /\ chain \in Seq(Locators) /\ Len(chain) \in {1, 2}
      /\ \A i \in DOMAIN chain : /\ chain[i][1] \in DOMAIN pages
                                 /\ chain[i][2] \in DOMAIN pages[chain[i][1]].slots
  BY ChainOwned
<1>3. /\ pages \in Seq(PageType) /\ Ordinary(v, n) \in SlotType /\ Storage(v, n) \in SlotType
  BY SlotForms DEF IInv, TypeInv
<1>4. \/ CollapseIntoLogical(t, chain, v, n)
      \/ ResizeStorage(t, chain, v, n)
      \/ Relocate(t, chain, v, n)
  BY DEF Replace
<1>5. CASE Relocate(t, chain, v, n)
  BY <1>5, RelocateStages
<1>6. CASE CollapseIntoLogical(t, chain, v, n)
  <2> DEFINE after == DropStorage(ReplaceAt(pages, chain[1], Ordinary(v, n)), chain)
  <2>1. Stage(t, after, own, {})
    BY <1>6 DEF CollapseIntoLogical
  <2> HIDE DEF chain
  <2>2. DOMAIN chain = 1 .. Len(chain) /\ \A i \in 1 .. Len(chain) : chain[i][1] \in own
    BY <1>2
  <2> HIDE DEF own
  <2>3. Edits(pages, after, own)
    BY <1>2, <1>3, <2>2, ChainEdits
  <2> HIDE DEF after
  <2> QED
    BY <2>1, <2>3, EditsPlanned DEF Stages
<1>7. CASE ResizeStorage(t, chain, v, n)
  <2> DEFINE after == ReplaceAt(pages, chain[2], Storage(v, n))
  <2>1. Stage(t, after, own, {}) /\ Len(chain) = 2
    BY <1>7 DEF ResizeStorage
  <2> HIDE DEF chain
  <2>2. DOMAIN chain = 1 .. Len(chain) /\ \A i \in 1 .. Len(chain) : chain[i][1] \in own
    BY <1>2
  <2> HIDE DEF own
  <2>3. Edits(pages, after, own)
    BY <1>2, <1>3, <2>1, <2>2, ChainEdits
  <2> HIDE DEF after
  <2> QED
    BY <2>1, <2>3, EditsPlanned DEF Stages
<1> QED
  BY <1>4, <1>5, <1>6, <1>7

\* A patched field changes neither a header nor a map.
LEMMA PatchStep ==
  ASSUME IInv, NEW t \in Tables, NEW l \in Visible(pages, owned[t]), NEW v \in Values,
         GraphLoads(pages, owned[t], count[t]), PatchField(t, l, v)
  PROVE  IInv' /\ \A u \in Tables : \A p \in owned'[u] : RoomKnown(u, p)
<1> DEFINE chain == Chain(l)
           last == chain[Len(chain)]
           image == pages[last[1]]
           slot == image.slots[last[2]]
<1>1. /\ chain \in Seq(Locators) /\ Len(chain) \in {1, 2}
      /\ \A i \in DOMAIN chain : /\ chain[i][1] \in DOMAIN pages
                                 /\ chain[i][2] \in DOMAIN pages[chain[i][1]].slots
  BY ChainOwned
<1>2. Len(chain) \in DOMAIN chain
  <2> HIDE DEF chain
  <2>1. DOMAIN chain = 1 .. Len(chain)
    BY <1>1
  <2> QED
    BY <1>1, <2>1, Intervals
<1>3. last[1] \in DOMAIN pages /\ last[2] \in DOMAIN image.slots
  BY <1>1, <1>2
<1>a. slot.kind # "deleted" /\ ~Overflow(slot)
  BY ChainEnd DEF PatchField, At
<1>4. UNCHANGED <<global, owned, avail>> /\ pages \in Seq(PageType)
  BY DEF PatchField, IInv, TypeInv
<1>5. pages' = [pages EXCEPT ![last[1]] =
                  [image EXCEPT !.slots = [image.slots EXCEPT ![last[2]] = [slot EXCEPT !.val = v]]]]
  BY DEF PatchField
<1> HIDE DEF last
<1>6. image \in PageType
  BY <1>3, <1>4
<1> HIDE DEF image
<1>7. image.slots \in Seq(SlotType)
  BY <1>6 DEF PageType
<1>8. slot \in SlotType
  BY <1>3, <1>7
<1>9. [slot EXCEPT !.val = v] \in SlotType
  BY <1>8, <1>a, SlotFacts
<1> DEFINE slots == [image.slots EXCEPT ![last[2]] = [slot EXCEPT !.val = v]]
<1>10. slots \in Seq(SlotType)
  BY <1>3, <1>7, <1>9
<1> DEFINE new == [image EXCEPT !.slots = slots]
<1>11. pages' = [pages EXCEPT ![last[1]] = new]
  BY <1>5
<1> HIDE DEF slots
<1>12. new \in PageType /\ new.tag = image.tag /\ new.owner = image.owner /\ new.free = image.free
  BY <1>6, <1>10 DEF PageType
<1> HIDE DEF new
<1>13. pages' \in Seq(PageType) /\ DOMAIN pages' = DOMAIN pages
  BY <1>3, <1>4, <1>11, <1>12
<1>14. \A p \in DOMAIN pages : /\ pages'[p].tag = pages[p].tag /\ pages'[p].owner = pages[p].owner
                               /\ pages'[p].free = pages[p].free
  BY <1>3, <1>11, <1>12 DEF image
<1>15. TypeInv'
  BY <1>4, <1>13 DEF IInv, TypeInv
<1>16. MapsPartition'
  BY <1>4, <1>13, <1>14 DEF IInv, MapsPartition, MapsAccepted
<1>17. \A u \in Tables : \A p \in owned'[u] : RoomKnown(u, p)
  BY <1>4, <1>14 DEF IInv, MapsPartition, MapsAccepted, RoomKnown
<1> QED
  BY <1>15, <1>16, <1>17 DEF IInv

-----------------------------------------------------------------------------
(* The theorems. *)

\* The files the library is given have the type and consistent maps.
LEMMA InitInv == Init => IInv
<1> SUFFICES ASSUME Init PROVE IInv
  OBVIOUS
<1>1. PICK f \in Files : /\ pages = f.pages /\ global = f.global /\ owned = f.owned
                         /\ avail = f.avail /\ count = f.count
  BY DEF Init
<1>2. TypeInv
  BY <1>1, FilesTyped DEF TypeInv
<1>3. MapsPartition
  BY <1>1, FilesAccepted DEF MapsPartition
<1> QED
  BY <1>2, <1>3 DEF IInv

\* Each operation keeps the maps and sets the bits of the pages it touched.
LEMMA NextInv ==
  ASSUME IInv, Next
  PROVE  IInv' /\ \A u \in Tables : \A p \in owned'[u] : RoomKnown(u, p)
<1> DEFINE Good == IInv' /\ \A u \in Tables : \A p \in owned'[u] : RoomKnown(u, p)
<1>1. ASSUME NEW t \in Tables, Stages(t) PROVE Good
  BY <1>1, StageStep DEF Stages
<1>2. ASSUME NEW t \in Tables, NEW v \in Values, NEW n \in Lens[v], Insert(t, v, n) PROVE Good
  <2>1. Ordinary(v, n) \in SlotType
    BY SlotForms
  <2>2. Stages(t)
    BY <1>2, <2>1, InsertStages DEF Insert
  <2> QED
    BY <1>1, <2>2
<1>3. ASSUME NEW t \in Tables, NEW l \in Visible(pages, owned[t]),
             GraphLoads(pages, owned[t], count[t]), Delete(t, l) PROVE Good
  BY <1>1, <1>3, DeleteStages
<1>4. ASSUME NEW t \in Tables, NEW l \in Visible(pages, owned[t]), NEW v \in Values, NEW n \in Lens[v],
             GraphLoads(pages, owned[t], count[t]), Replace(t, l, v, n) PROVE Good
  BY <1>1, <1>4, ReplaceStages
<1>5. ASSUME NEW t \in Tables, NEW l \in Visible(pages, owned[t]), NEW v \in Values,
             GraphLoads(pages, owned[t], count[t]), PatchField(t, l, v) PROVE Good
  BY <1>5, PatchStep
<1> HIDE DEF Good
<1>6. Good
  BY <1>2, <1>3, <1>4, <1>5 DEF Next, Operation
<1> QED
  BY <1>6 DEF Good

\* A step that changes nothing keeps it too.
LEMMA Preserved == IInv /\ [Next]_vars => IInv'
<1>1. CASE Next
  BY <1>1, NextInv
<1>2. CASE UNCHANGED vars
  BY <1>2 DEF vars, file, IInv, TypeInv, MapsPartition
<1> QED
  BY <1>1, <1>2

\* Whatever rows are inserted, replaced, patched, moved and deleted, a page of the file
\* is in exactly one place: free, beyond the end, or with the one table its header names.
THEOREM MapsStayAPartition == Spec => []MapsPartition
<1>1. IInv => MapsPartition
  BY DEF IInv
<1> QED
  BY <1>1, InitInv, Preserved, PTL DEF Spec

\* After every operation the available bits of the pages it changed say whether a
\* minimum row fits.
THEOREM RoomIsKnown == Spec => TouchedPagesKnowTheirRoom
<1>1. IInv /\ [Next]_vars =>
        [\A t \in Tables : \A p \in owned'[t] :
           (p \notin owned[t] \/ pages'[p].free # pages[p].free)
             => (p \in avail'[t] <=> HasCapacity(pages'[p], MinimumLen))]_vars
  BY NextInv DEF RoomKnown
<1> QED
  BY <1>1, InitInv, Preserved, PTL DEF Spec, TouchedPagesKnowTheirRoom

-----------------------------------------------------------------------------
(* Induction along an interval, by the least number that is missing. *)

\* A set with 0 and with the successor of each of its numbers below m holds 0 .. m.
LEMMA Induct ==
  ASSUME NEW m \in Nat, NEW Q, 0 \in Q, \A n \in 0 .. m : n \in Q /\ n + 1 <= m => n + 1 \in Q
  PROVE  \A n \in 0 .. m : n \in Q
<1> DEFINE C == {n \in 0 .. m : n \notin Q}
<1> SUFFICES ASSUME C # {} PROVE FALSE
  OBVIOUS
<1>1. C \in SUBSET Nat
  OBVIOUS
<1>2. PICK x \in C : \A y \in C : ~(<<y, x>> \in OpToRel(<, Nat))
  BY <1>1, NatLessThanWellFounded, WFMin
<1>3. \A y \in C : ~(y < x)
  BY <1>1, <1>2 DEF OpToRel
<1>4. x \in 0 .. m /\ x \notin Q /\ x # 0
  OBVIOUS
<1>5. x - 1 \in 0 .. m /\ (x - 1) + 1 = x /\ x - 1 < x /\ x <= m
  BY <1>4
<1>6. x - 1 \in Q
  BY <1>3, <1>5
<1> QED
  BY <1>4, <1>5, <1>6

-----------------------------------------------------------------------------
(* The bytes of the rows of a page. *)

\* The sums of the lengths of the first rows.
IsSum(u, slots) ==
  /\ u \in [0 .. Len(slots) -> Nat] /\ u[0] = 0
  /\ \A i \in 1 .. Len(slots) : u[i] = u[i - 1] + slots[i].len

\* There are such sums.
LEMMA SumExists ==
  ASSUME NEW slots \in Seq(SlotType)
  PROVE  \E u : u = [s \in 0 .. Len(slots) |-> IF s = 0 THEN 0 ELSE u[s - 1] + slots[s].len]
<1> DEFINE m == Len(slots)
           IsU(u, n) == u = [s \in 0 .. n |-> IF s = 0 THEN 0 ELSE u[s - 1] + slots[s].len]
           Q == {n \in Nat : \E u : IsU(u, n)}
<1>1. m \in Nat
  OBVIOUS
<1>2. 0 \in Q
  <2> DEFINE u == [s \in 0 .. 0 |-> 0]
  <2>1. IsU(u, 0)
    OBVIOUS
  <2> QED
    BY <2>1
<1>3. ASSUME NEW n \in 0 .. m, n \in Q, n + 1 <= m PROVE n + 1 \in Q
  <2>1. PICK u : IsU(u, n)
    BY <1>3
  <2> DEFINE w == [s \in 0 .. (n + 1) |-> IF s = n + 1 THEN u[n] + slots[n + 1].len ELSE u[s]]
  <2>2. n \in Nat /\ n + 1 \in Nat /\ n + 1 # 0 /\ (n + 1) - 1 = n
    OBVIOUS
  <2>3. \A s \in 0 .. (n + 1) : s # n + 1 => s \in 0 .. n /\ (s # 0 => s - 1 \in 0 .. (n + 1) /\ s - 1 # n + 1)
    OBVIOUS
  <2>4. ASSUME NEW s \in 0 .. (n + 1)
        PROVE  w[s] = IF s = 0 THEN 0 ELSE w[s - 1] + slots[s].len
    <3>1. CASE s = n + 1
      <4>1. n \in 0 .. (n + 1) /\ n # n + 1
        OBVIOUS
      <4>2. w[n] = u[n]
        BY <4>1
      <4> QED
        BY <2>2, <3>1, <4>2
    <3>2. CASE s # n + 1
      <4>1. w[s] = u[s] /\ s \in 0 .. n
        BY <2>3, <3>2
      <4>2. u[s] = IF s = 0 THEN 0 ELSE u[s - 1] + slots[s].len
        BY <2>1, <4>1
      <4>3. s # 0 => w[s - 1] = u[s - 1]
        BY <2>3, <3>2
      <4> QED
        BY <4>1, <4>2, <4>3
    <3> QED
      BY <3>1, <3>2
  <2>5. IsU(w, n + 1)
    BY <2>4
  <2> QED
    BY <2>2, <2>5
<1> HIDE DEF Q
<1>4. m \in Q
  <2>1. \A n \in 0 .. m : n \in Q
    BY <1>1, <1>2, <1>3, Induct
  <2> QED
    BY <1>1, <2>1
<1> QED
  BY <1>4 DEF Q

\* RowBytes is the last of them.
LEMMA RowBytesSum ==
  ASSUME NEW slots \in Seq(SlotType)
  PROVE  \E u : IsSum(u, slots) /\ RowBytes(slots) = u[Len(slots)]
<1> DEFINE used == CHOOSE u : u = [s \in 0 .. Len(slots) |-> IF s = 0 THEN 0 ELSE u[s - 1] + slots[s].len]
<1>1. used = [s \in 0 .. Len(slots) |-> IF s = 0 THEN 0 ELSE used[s - 1] + slots[s].len]
  BY SumExists
<1>2. RowBytes(slots) = used[Len(slots)]
  BY DEF RowBytes
<1> HIDE DEF used
<1> DEFINE m == Len(slots)
<1>3. m \in Nat /\ \A i \in 1 .. m : slots[i].len \in Nat
  BY SlotFacts
<1> HIDE DEF m
<1>4. used[0] = 0 /\ \A i \in 1 .. m : used[i] = used[i - 1] + slots[i].len
  <2>1. used = [s \in 0 .. m |-> IF s = 0 THEN 0 ELSE used[s - 1] + slots[s].len]
    BY <1>1 DEF m
  <2>2. 0 \in 0 .. m /\ \A i \in 1 .. m : i \in 0 .. m /\ i # 0
    BY <1>3
  <2> QED
    BY <2>1, <2>2
<1> DEFINE Q == {n \in 0 .. m : used[n] \in Nat}
<1>5. \A n \in 0 .. m : n \in Q
  <2>1. 0 \in Q
    BY <1>3, <1>4
  <2>2. ASSUME NEW n \in 0 .. m, n \in Q, n + 1 <= m PROVE n + 1 \in Q
    <3>1. n + 1 \in 1 .. m /\ (n + 1) - 1 = n /\ n + 1 \in 0 .. m
      BY <1>3, <2>2
    <3>2. used[n + 1] = used[n] + slots[n + 1].len
      BY <1>4, <3>1
    <3> QED
      BY <1>3, <2>2, <3>1, <3>2
  <2> HIDE DEF Q
  <2> QED
    BY <1>3, <2>1, <2>2, Induct
<1>6. used \in [0 .. m -> Nat]
  BY <1>1, <1>5 DEF m
<1>7. IsSum(used, slots)
  BY <1>4, <1>6 DEF IsSum, m
<1> QED
  BY <1>2, <1>7

\* One more row adds its bytes; no row has none.
LEMMA RowBytesAppend ==
  /\ RowBytes(<<>>) = 0
  /\ \A slots \in Seq(SlotType), x \in SlotType :
       /\ RowBytes(slots) \in Nat
       /\ RowBytes(Append(slots, x)) = RowBytes(slots) + x.len
<1>1. RowBytes(<<>>) = 0
  <2>1. <<>> \in Seq(SlotType) /\ Len(<<>>) = 0
    OBVIOUS
  <2> QED
    BY <2>1, RowBytesSum DEF IsSum
<1>2. ASSUME NEW slots \in Seq(SlotType), NEW x \in SlotType
      PROVE  RowBytes(slots) \in Nat /\ RowBytes(Append(slots, x)) = RowBytes(slots) + x.len
  <2> DEFINE more == Append(slots, x)
             m == Len(slots)
  <2>1. /\ more \in Seq(SlotType) /\ Len(more) = m + 1 /\ m \in Nat /\ more[m + 1] = x
        /\ \A i \in 1 .. m : more[i] = slots[i]
    OBVIOUS
  <2>2. PICK u : IsSum(u, slots) /\ RowBytes(slots) = u[m]
    BY RowBytesSum
  <2>3. PICK w : IsSum(w, more) /\ RowBytes(more) = w[m + 1]
    BY <2>1, RowBytesSum
  <2> HIDE DEF more, m
  <2>4. /\ u \in [0 .. m -> Nat] /\ u[0] = 0 /\ \A i \in 1 .. m : u[i] = u[i - 1] + slots[i].len
    BY <2>2 DEF IsSum, m
  <2>5. /\ w[0] = 0 /\ \A i \in 1 .. m + 1 : w[i] = w[i - 1] + more[i].len
    BY <2>1, <2>3 DEF IsSum
  <2> DEFINE Q == {n \in 0 .. m : w[n] = u[n]}
  <2>6. \A n \in 0 .. m : n \in Q
    <3>1. 0 \in Q
      BY <2>1, <2>4, <2>5
    <3>2. ASSUME NEW n \in 0 .. m, n \in Q, n + 1 <= m PROVE n + 1 \in Q
      <4>1. n + 1 \in 1 .. m /\ n + 1 \in 1 .. m + 1 /\ (n + 1) - 1 = n /\ n + 1 \in 0 .. m
        BY <2>1, <3>2
      <4>2. w[n + 1] = w[n] + slots[n + 1].len /\ u[n + 1] = u[n] + slots[n + 1].len
        BY <2>1, <2>4, <2>5, <4>1
      <4> QED
        BY <3>2, <4>1, <4>2
    <3> HIDE DEF Q
    <3> QED
      BY <2>1, <3>1, <3>2, Induct
  <2>7. w[m] = u[m] /\ u[m] \in Nat
    BY <2>1, <2>4, <2>6
  <2>8. m + 1 \in 1 .. m + 1 /\ (m + 1) - 1 = m
    BY <2>1
  <2>9. w[m + 1] = w[m] + x.len
    BY <2>1, <2>5, <2>8
  <2> QED
    BY <2>2, <2>3, <2>7, <2>9 DEF more
<1> QED
  BY <1>1, <1>2

\* A row put in the place of another one changes the sum by the difference.
LEMMA RowBytesExcept ==
  ASSUME NEW slots \in Seq(SlotType), NEW x \in SlotType, NEW s \in DOMAIN slots
  PROVE  RowBytes([slots EXCEPT ![s] = x]) + slots[s].len = RowBytes(slots) + x.len
<1> DEFINE new == [slots EXCEPT ![s] = x]
           m == Len(slots)
           old == slots[s].len
<1>1. /\ new \in Seq(SlotType) /\ Len(new) = m /\ m \in Nat /\ s \in 1 .. m /\ new[s] = x
      /\ \A i \in 1 .. m : i # s => new[i] = slots[i]
  OBVIOUS
<1>2. PICK u : IsSum(u, slots) /\ RowBytes(slots) = u[m]
  BY RowBytesSum
<1>3. PICK w : IsSum(w, new) /\ RowBytes(new) = w[m]
  BY <1>1, RowBytesSum
<1>4. old \in Nat /\ x.len \in Nat /\ \A i \in 1 .. m : slots[i].len \in Nat
  BY <1>1, SlotFacts
<1> HIDE DEF new, m
<1>5. /\ u \in [0 .. m -> Nat] /\ u[0] = 0 /\ \A i \in 1 .. m : u[i] = u[i - 1] + slots[i].len
  BY <1>2 DEF IsSum, m
<1>6. /\ w \in [0 .. m -> Nat] /\ w[0] = 0 /\ \A i \in 1 .. m : w[i] = w[i - 1] + new[i].len
  BY <1>1, <1>3 DEF IsSum
<1>7. old = slots[s].len
  OBVIOUS
<1> HIDE DEF old
<1> DEFINE Q == {n \in 0 .. m : IF n < s THEN w[n] = u[n] ELSE w[n] + old = u[n] + x.len}
<1>8. \A n \in 0 .. m : n \in Q
  <2>1. 0 \in Q
    BY <1>1, <1>5, <1>6
  <2>2. ASSUME NEW n \in 0 .. m, n \in Q, n + 1 <= m PROVE n + 1 \in Q
    <3>1. n + 1 \in 1 .. m /\ (n + 1) - 1 = n /\ n + 1 \in 0 .. m
      BY <1>1, <2>2
    <3>2. /\ w[n + 1] = w[n] + new[n + 1].len /\ u[n + 1] = u[n] + slots[n + 1].len
          /\ w[n] \in Nat /\ u[n] \in Nat
      BY <1>5, <1>6, <3>1
    <3>3. CASE n + 1 < s
      BY <1>1, <2>2, <3>1, <3>2, <3>3
    <3>4. CASE n + 1 = s
      <4>1. new[n + 1] = x /\ slots[n + 1].len = old /\ w[n] = u[n] /\ ~(n + 1 < s)
        BY <1>1, <1>4, <1>7, <2>2, <3>1, <3>4
      <4>2. PICK a \in Nat, c \in Nat, d \in Nat : a = w[n] /\ c = old /\ d = x.len
        BY <1>4, <3>2
      <4>3. w[n + 1] = a + d /\ u[n + 1] = a + c
        BY <3>2, <4>1, <4>2
      <4>4. (a + d) + c = (a + c) + d
        OBVIOUS
      <4>5. w[n + 1] + old = u[n + 1] + x.len
        BY <4>2, <4>3, <4>4
      <4> QED
        BY <3>1, <4>1, <4>5
    <3>5. CASE n + 1 > s
      <4>1. new[n + 1] = slots[n + 1] /\ slots[n + 1].len \in Nat /\ ~(n < s) /\ ~(n + 1 < s)
        BY <1>1, <1>4, <3>1, <3>5
      <4>2. w[n] + old = u[n] + x.len
        BY <2>2, <4>1
      <4>3. PICK a \in Nat, b \in Nat, c \in Nat, d \in Nat, e \in Nat :
              a = w[n] /\ b = u[n] /\ c = old /\ d = x.len /\ e = slots[n + 1].len
        BY <1>4, <3>2, <4>1
      <4>4. w[n + 1] = a + e /\ u[n + 1] = b + e
        BY <3>2, <4>1, <4>3
      <4>5. a + c = b + d
        BY <4>2, <4>3
      <4>6. (a + e) + c = (b + e) + d
        BY <4>5
      <4>7. w[n + 1] + old = u[n + 1] + x.len
        BY <4>3, <4>4, <4>6
      <4> QED
        BY <3>1, <4>1, <4>7
    <3> QED
      BY <1>1, <3>1, <3>3, <3>4, <3>5
  <2> HIDE DEF Q
  <2> QED
    BY <1>1, <2>1, <2>2, Induct
<1>9. w[m] + old = u[m] + x.len
  BY <1>1, <1>8
<1> QED
  BY <1>2, <1>3, <1>7, <1>9 DEF new, m

-----------------------------------------------------------------------------
(* A page the loader accepts: packed's free-byte count, and no row once released. *)

PageSound(image) ==
  image.free = Gap(image) /\ (image.tag = "released" => LiveSlots(image) = {})

\* The arithmetic of the free-byte count.
LEMMA GapArithmetic ==
  ASSUME NEW a \in Nat, NEW n \in Nat, NEW b \in Nat, NEW x \in Nat, NEW c \in Nat
  PROVE  /\ a * (n + 1) = a * n + a /\ a * n \in Nat /\ a * 1 = a /\ a * 0 = 0
         /\ \A d \in Int : (d - a * n - b) - x - a = d - a * (n + 1) - (b + x)
         /\ \A d \in Int, b2 \in Nat :
              b2 + c = b + x => (d - a * n - b) + c - x = d - a * n - b2
<1>1. a * (n + 1) = a * n + a /\ a * n \in Nat
  OBVIOUS
<1> DEFINE k == a * n
<1> HIDE DEF k
<1>2. k \in Nat /\ a * (n + 1) = k + a
  BY <1>1 DEF k
<1>3. \A d \in Int : (d - k - b) - x - a = d - (k + a) - (b + x)
  BY <1>2
<1>4. \A d \in Int, b2 \in Nat : b2 + c = b + x => (d - k - b) + c - x = d - k - b2
  BY <1>2
<1> QED
  BY <1>1, <1>2, <1>3, <1>4 DEF k

\* Appending to a page with a live row.
LEMMA AppendSound ==
  ASSUME NEW image \in PageType, PageSound(image), NEW slot \in SlotType, LiveSlots(image) # {}
  PROVE  PageSound(AppendRow(image, slot))
<1> DEFINE slots == image.slots
           n == Len(slots)
           after == AppendRow(image, slot)
           d == PageBytes - DirectoryOffset
<1>1. slots \in Seq(SlotType) /\ slot.len \in Nat /\ n \in Nat /\ d \in Int /\ EntryLen \in Nat
  BY SlotFacts, PageConstants DEF PageType
<1>2. /\ after.tag = image.tag /\ after.slots = Append(slots, slot)
      /\ after.free = image.free - slot.len - EntryLen
  BY DEF AppendRow, PageType
<1>3. /\ Len(after.slots) = n + 1 /\ RowBytes(after.slots) = RowBytes(slots) + slot.len
      /\ RowBytes(slots) \in Nat
  BY <1>1, <1>2, RowBytesAppend
<1>4. image.free = d - EntryLen * n - RowBytes(slots) /\ image.tag # "released"
  BY DEF PageSound, Gap
<1>5. Gap(after) = d - EntryLen * (n + 1) - (RowBytes(slots) + slot.len)
  BY <1>3 DEF Gap
<1> HIDE DEF after, d, n, slots
<1>6. after.free = d - EntryLen * (n + 1) - (RowBytes(slots) + slot.len)
  BY <1>1, <1>2, <1>3, <1>4, GapArithmetic
<1> QED
  BY <1>2, <1>4, <1>5, <1>6 DEF PageSound, after

\* after is image with slot in the place of its row s; the page may go with its last row.
WritesSlot(image, after, s, slot) ==
  /\ after.slots = [image.slots EXCEPT ![s] = slot]
  /\ after.free = image.free + image.slots[s].len - slot.len
  /\ \/ after.tag = image.tag
     \/ after.tag = "released" /\ LiveSlots(image) = {s} /\ slot.kind = "deleted"

\* A live row of a page put in the place of another one, or removed.
LEMMA PutSound ==
  ASSUME NEW image \in PageType, PageSound(image), NEW slot \in SlotType,
         NEW s \in LiveSlots(image), NEW after, WritesSlot(image, after, s, slot)
  PROVE  PageSound(after)
<1> DEFINE slots == image.slots
           n == Len(slots)
           d == PageBytes - DirectoryOffset
<1>0. /\ after.slots = [image.slots EXCEPT ![s] = slot]
      /\ after.free = image.free + image.slots[s].len - slot.len
      /\ \/ after.tag = image.tag
         \/ after.tag = "released" /\ LiveSlots(image) = {s} /\ slot.kind = "deleted"
  BY DEF WritesSlot
<1>1. /\ slots \in Seq(SlotType) /\ slot.len \in Nat /\ n \in Nat /\ d \in Int /\ EntryLen \in Nat
      /\ s \in DOMAIN slots /\ slots[s].len \in Nat
  BY SlotFacts, PageConstants DEF PageType, LiveSlots
<1>2. /\ Len(after.slots) = n /\ RowBytes(after.slots) + slots[s].len = RowBytes(slots) + slot.len
      /\ RowBytes(slots) \in Nat /\ RowBytes(after.slots) \in Nat
  <2> DEFINE new == [slots EXCEPT ![s] = slot]
  <2>1. new \in Seq(SlotType) /\ Len(new) = n /\ after.slots = new
    BY <1>0, <1>1
  <2>2. RowBytes(new) + slots[s].len = RowBytes(slots) + slot.len
    BY <1>1, RowBytesExcept
  <2> HIDE DEF new
  <2>3. RowBytes(slots) \in Nat /\ RowBytes(new) \in Nat
    BY <1>1, <2>1, RowBytesAppend
  <2> QED
    BY <2>1, <2>2, <2>3
<1>3. image.free = d - EntryLen * n - RowBytes(slots) /\ image.tag # "released"
  BY DEF PageSound, Gap
<1>4. Gap(after) = d - EntryLen * n - RowBytes(after.slots)
  BY <1>2 DEF Gap
<1>5. after.tag = "released" => LiveSlots(after) = {}
  BY <1>0, <1>1, <1>3 DEF LiveSlots
<1>6. after.free = image.free + slots[s].len - slot.len
  BY <1>0
<1> HIDE DEF d, n, slots
<1>7. after.free = d - EntryLen * n - RowBytes(after.slots)
  <2>1. PICK b \in Nat, b2 \in Nat, c \in Nat, x \in Nat :
          b = RowBytes(slots) /\ b2 = RowBytes(after.slots) /\ c = slots[s].len /\ x = slot.len
    BY <1>1, <1>2
  <2>2. b2 + c = b + x
    BY <1>2, <2>1
  <2>3. (d - EntryLen * n - b) + c - x = d - EntryLen * n - b2
    BY <1>1, <2>2, GapArithmetic
  <2> QED
    BY <1>3, <1>6, <2>1, <2>3
<1> QED
  BY <1>4, <1>5, <1>7 DEF PageSound

\* A page of its own for a row.
LEMMA NewPageSound ==
  ASSUME NEW t, NEW slot \in SlotType
  PROVE  PageSound(NewPage(t, slot))
<1> DEFINE after == NewPage(t, slot)
           d == PageBytes - DirectoryOffset
<1>1. slot.len \in Nat /\ d \in Int /\ EntryLen \in Nat
  BY SlotFacts, PageConstants
<1>2. after.tag = "data" /\ after.slots = <<slot>> /\ after.free = d - EntryLen - slot.len
  BY DEF NewPage
<1>3. <<slot>> = Append(<<>>, slot) /\ <<>> \in Seq(SlotType)
  OBVIOUS
<1>4. RowBytes(<<slot>>) = 0 + slot.len
  BY <1>3, RowBytesAppend
<1>5. Gap(after) = d - EntryLen * 1 - (0 + slot.len)
  BY <1>2, <1>4 DEF Gap
<1> HIDE DEF after, d
<1>6. after.free = Gap(after)
  BY <1>1, <1>2, <1>5
<1> QED
  BY <1>2, <1>6 DEF PageSound, after

-----------------------------------------------------------------------------
(* The walks of RowGraph::load. *)

\* The records of W and those their links lead to, and the walk link by link.
Further(pg, W) == UNION {Step(pg, l) : l \in W}
IsWalk(w, pg, S) ==
  w = [n \in 0 .. MaxChainDepth |-> IF n = 0 THEN S ELSE UNION {Step(pg, l) : l \in w[n - 1]}]

\* There is a function of the records on the first n links.
LEMMA WalkExists ==
  ASSUME NEW pg, NEW S
  PROVE  \E w : IsWalk(w, pg, S)
<1> DEFINE m == MaxChainDepth
           IsW(w, n) == w = [s \in 0 .. n |-> IF s = 0 THEN S ELSE UNION {Step(pg, l) : l \in w[s - 1]}]
           Q == {n \in Nat : \E w : IsW(w, n)}
<1>1. m \in Nat
  BY StoreAssumption
<1>2. 0 \in Q
  <2> DEFINE w == [s \in 0 .. 0 |-> S]
  <2>1. IsW(w, 0)
    OBVIOUS
  <2> QED
    BY <2>1
<1>3. ASSUME NEW n \in 0 .. m, n \in Q, n + 1 <= m PROVE n + 1 \in Q
  <2>1. PICK u : IsW(u, n)
    BY <1>3
  <2> DEFINE w == [s \in 0 .. (n + 1) |-> IF s = n + 1 THEN UNION {Step(pg, l) : l \in u[n]} ELSE u[s]]
  <2>2. n \in Nat /\ n + 1 \in Nat /\ n + 1 # 0 /\ (n + 1) - 1 = n
    BY <1>1
  <2>3. \A s \in 0 .. (n + 1) : s # n + 1 => s \in 0 .. n /\ (s # 0 => s - 1 \in 0 .. (n + 1) /\ s - 1 # n + 1)
    BY <2>2
  <2>4. ASSUME NEW s \in 0 .. (n + 1)
        PROVE  w[s] = IF s = 0 THEN S ELSE UNION {Step(pg, l) : l \in w[s - 1]}
    <3>1. CASE s = n + 1
      <4>1. n \in 0 .. (n + 1) /\ n # n + 1
        BY <2>2
      <4>2. w[n] = u[n]
        BY <4>1
      <4> QED
        BY <2>2, <3>1, <4>2
    <3>2. CASE s # n + 1
      <4>1. w[s] = u[s] /\ s \in 0 .. n
        BY <2>3, <3>2
      <4>2. u[s] = IF s = 0 THEN S ELSE UNION {Step(pg, l) : l \in u[s - 1]}
        BY <2>1, <4>1
      <4>3. s # 0 => w[s - 1] = u[s - 1]
        BY <2>3, <3>2
      <4> QED
        BY <4>1, <4>2, <4>3
    <3> QED
      BY <3>1, <3>2
  <2>5. IsW(w, n + 1)
    BY <2>4
  <2> QED
    BY <2>2, <2>5
<1> HIDE DEF Q
<1>4. m \in Q
  <2>1. \A n \in 0 .. m : n \in Q
    BY <1>1, <1>2, <1>3, Induct
  <2> QED
    BY <1>1, <2>1
<1> QED
  BY <1>4 DEF Q, IsWalk

\* Each further link adds the targets of the records so far.
LEMMA WalkSteps ==
  ASSUME NEW pg, NEW S
  PROVE  /\ Walk(pg, S)[0] = S
         /\ \A n \in 0 .. MaxChainDepth : n + 1 <= MaxChainDepth =>
              Walk(pg, S)[n + 1] = Further(pg, Walk(pg, S)[n])
<1> DEFINE w == CHOOSE x : IsWalk(x, pg, S)
<1>1. IsWalk(w, pg, S)
  BY WalkExists
<1>2. Walk(pg, S) = w
  BY DEF Walk, IsWalk
<1> HIDE DEF w
<1>3. 0 \in 0 .. MaxChainDepth
  BY StoreAssumption
<1>4. w[0] = S
  BY <1>1, <1>3 DEF IsWalk
<1>5. ASSUME NEW n \in 0 .. MaxChainDepth, n + 1 <= MaxChainDepth
      PROVE  w[n + 1] = Further(pg, w[n])
  <2>1. n + 1 \in 0 .. MaxChainDepth /\ n + 1 # 0 /\ (n + 1) - 1 = n
    BY <1>5, StoreAssumption
  <2> QED
    BY <1>1, <2>1 DEF IsWalk, Further
<1> QED
  BY <1>2, <1>4, <1>5

\* A set that no link leaves.
Closed(pg, T) == \A l \in T : Overflow(At(pg, l)) => Target(pg, l) \in T
Agree(pg, after, T) == \A l \in T : At(after, l) = At(pg, l)

\* What a step leads to.
LEMMA StepFacts ==
  ASSUME NEW pg, NEW l
  PROVE  /\ l \in Step(pg, l)
         /\ \A x \in Step(pg, l) : x = l \/ (Overflow(At(pg, l)) /\ x = Target(pg, l))
         /\ Overflow(At(pg, l)) => Target(pg, l) \in Step(pg, l)
         /\ ~Overflow(At(pg, l)) => Step(pg, l) = {l}
         /\ \A after : At(after, l) = At(pg, l) => Step(after, l) = Step(pg, l)
BY DEF Step, Target

\* Walks inside a closed set see nothing of the rest of the file.
LEMMA WalkLocal ==
  ASSUME NEW pg, NEW after, NEW T, Closed(pg, T), Agree(pg, after, T), NEW S \in SUBSET T
  PROVE  Walked(pg, S) \subseteq T /\ Walked(after, S) = Walked(pg, S)
<1> DEFINE m == MaxChainDepth
           Q == {n \in 0 .. m : Walk(pg, S)[n] \subseteq T /\ Walk(after, S)[n] = Walk(pg, S)[n]}
<1>1. m \in Nat
  BY StoreAssumption
<1>2. 0 \in Q
  BY <1>1, WalkSteps
<1>3. ASSUME NEW n \in 0 .. m, n \in Q, n + 1 <= m PROVE n + 1 \in Q
  <2>1. /\ Walk(pg, S)[n + 1] = Further(pg, Walk(pg, S)[n])
        /\ Walk(after, S)[n + 1] = Further(after, Walk(after, S)[n])
    BY <1>3, WalkSteps
  <2>2. \A l \in T : Step(pg, l) \subseteq T /\ Step(after, l) = Step(pg, l)
    BY StepFacts DEF Closed, Agree
  <2>3. Walk(pg, S)[n] \subseteq T /\ Walk(after, S)[n] = Walk(pg, S)[n]
    BY <1>3
  <2>4. Walk(pg, S)[n + 1] \subseteq T
    BY <2>1, <2>2, <2>3 DEF Further
  <2>5. Walk(after, S)[n + 1] = Walk(pg, S)[n + 1]
    <3> DEFINE W == Walk(pg, S)[n]
    <3>1. W \subseteq T
      BY <2>3
    <3>2. Walk(after, S)[n + 1] = Further(after, W)
      BY <2>1, <2>3
    <3>3. Walk(pg, S)[n + 1] = Further(pg, W)
      BY <2>1
    <3> HIDE DEF W
    <3>4. Further(after, W) = Further(pg, W)
      BY <2>2, <3>1 DEF Further
    <3> QED
      BY <3>2, <3>3, <3>4
  <2>6. n + 1 \in 0 .. m
    BY <1>1, <1>3
  <2> QED
    BY <2>4, <2>5, <2>6
<1> HIDE DEF Q
<1>4. m \in Q
  <2>1. \A n \in 0 .. m : n \in Q
    BY <1>1, <1>2, <1>3, Induct
  <2> QED
    BY <1>1, <2>1
<1> QED
  BY <1>4 DEF Q, Walked

\* The walks from two sets.
LEMMA WalkUnion ==
  ASSUME NEW pg, NEW S, NEW U
  PROVE  Walked(pg, S \union U) = Walked(pg, S) \union Walked(pg, U)
<1> DEFINE m == MaxChainDepth
           Q == {n \in 0 .. m : Walk(pg, S \union U)[n] = Walk(pg, S)[n] \union Walk(pg, U)[n]}
<1>1. m \in Nat
  BY StoreAssumption
<1>2. 0 \in Q
  BY <1>1, WalkSteps
<1>3. ASSUME NEW n \in 0 .. m, n \in Q, n + 1 <= m PROVE n + 1 \in Q
  <2> DEFINE A == Walk(pg, S)[n]
             B == Walk(pg, U)[n]
  <2>1. /\ Walk(pg, S)[n + 1] = Further(pg, A)
        /\ Walk(pg, U)[n + 1] = Further(pg, B)
        /\ Walk(pg, S \union U)[n + 1] = Further(pg, A \union B)
    <3>1. Walk(pg, S \union U)[n] = A \union B
      BY <1>3
    <3>2. Walk(pg, S \union U)[n + 1] = Further(pg, Walk(pg, S \union U)[n])
      BY <1>3, WalkSteps
    <3>3. /\ Walk(pg, S)[n + 1] = Further(pg, A)
          /\ Walk(pg, U)[n + 1] = Further(pg, B)
      BY <1>3, WalkSteps
    <3> QED
      BY <3>1, <3>2, <3>3
  <2>2. n + 1 \in 0 .. m
    BY <1>1, <1>3
  <2> HIDE DEF A, B
  <2>3. Further(pg, A \union B) = Further(pg, A) \union Further(pg, B)
    BY DEF Further
  <2> QED
    BY <2>1, <2>2, <2>3
<1> HIDE DEF Q
<1>4. m \in Q
  <2>1. \A n \in 0 .. m : n \in Q
    BY <1>1, <1>2, <1>3, Induct
  <2> QED
    BY <1>1, <2>1
<1> QED
  BY <1>4 DEF Q, Walked

\* A walk keeps its start and goes over the first link.
LEMMA WalkStart ==
  ASSUME NEW pg, NEW S
  PROVE  /\ S \subseteq Walked(pg, S)
         /\ \A l \in S : Step(pg, l) \subseteq Walked(pg, S)
         /\ \A n \in 0 .. MaxChainDepth : n + 1 <= MaxChainDepth =>
              Walk(pg, S)[n] \subseteq Walk(pg, S)[n + 1]
<1> DEFINE m == MaxChainDepth
           w == Walk(pg, S)
           T == Further(pg, S)
           Q == {n \in 0 .. m : n # 0 => T \subseteq w[n]}
<1>1. m \in Nat /\ m # 0
  BY StoreAssumption
<1>2. w[0] = S /\ \A n \in 0 .. m : n + 1 <= m => w[n + 1] = Further(pg, w[n])
  BY WalkSteps
<1> HIDE DEF w
<1>3. \A n \in 0 .. m : n + 1 <= m => w[n] \subseteq w[n + 1]
  BY <1>2, StepFacts DEF Further
<1>4. 0 \in Q
  BY <1>1
<1>5. ASSUME NEW n \in 0 .. m, n \in Q, n + 1 <= m PROVE n + 1 \in Q
  <2>1. n + 1 \in 0 .. m
    BY <1>1, <1>5
  <2>2. CASE n = 0
    <3>1. w[n + 1] = T
      BY <1>2, <1>5, <2>2
    <3> QED
      BY <2>1, <3>1
  <2>3. CASE n # 0
    BY <1>3, <1>5, <2>1, <2>3
  <2> QED
    BY <2>2, <2>3
<1>6. m \in Q
  <2> HIDE DEF Q
  <2>1. \A n \in 0 .. m : n \in Q
    BY <1>1, <1>4, <1>5, Induct
  <2> QED
    BY <1>1, <2>1
<1>7. T \subseteq Walked(pg, S)
  BY <1>1, <1>6 DEF Walked, w
<1>8. \A l \in S : Step(pg, l) \subseteq Walked(pg, S)
  BY <1>7 DEF Further
<1> QED
  BY <1>3, <1>8, StepFacts DEF w

-----------------------------------------------------------------------------
(* A set of records that loads, and what adding and dropping a row does to it. *)

Shown(pg, R) == {l \in R : ~Hidden(At(pg, l))}

\* GraphLoads without the page tags and the count, for a set of records.
Loads(pg, R) ==
  /\ \A l \in R : LengthValid(At(pg, l))
  /\ \A l \in R : Overflow(At(pg, l)) => Target(pg, l) \in R /\ Hidden(At(pg, Target(pg, l)))
  /\ \A l, m \in R : Overflow(At(pg, l)) /\ Overflow(At(pg, m)) /\ Target(pg, l) = Target(pg, m) => l = m
  /\ Walked(pg, Shown(pg, R)) = R

\* C holds the record of the row x, or the two it is in.
IsRow(pg, C, x) ==
  /\ ~Hidden(At(pg, x)) /\ LengthValid(At(pg, x))
  /\ IF Overflow(At(pg, x))
       THEN /\ C = {x, Target(pg, x)} /\ Hidden(At(pg, Target(pg, x)))
            /\ ~Overflow(At(pg, Target(pg, x))) /\ LengthValid(At(pg, Target(pg, x)))
       ELSE C = {x}

\* The walk from a row covers its records.
LEMMA RowWalk ==
  ASSUME NEW pg, NEW C, NEW x, IsRow(pg, C, x)
  PROVE  /\ x \in C /\ Closed(pg, C) /\ Walked(pg, {x}) = C
         /\ \A l \in C : LengthValid(At(pg, l)) /\ (l # x => Hidden(At(pg, l)) /\ ~Overflow(At(pg, l)))
<1>1. x \in C /\ Closed(pg, C)
  BY DEF IsRow, Closed
<1>2. C = Step(pg, x)
  BY DEF IsRow, Step
<1>3. Walked(pg, {x}) \subseteq C
  <2>1. Agree(pg, pg, C) /\ {x} \in SUBSET C
    BY <1>1 DEF Agree
  <2> QED
    BY <1>1, <2>1, WalkLocal
<1>4. C \subseteq Walked(pg, {x})
  BY <1>2, WalkStart
<1> QED
  BY <1>1, <1>3, <1>4 DEF IsRow

\* A reader of the row finds what its last record holds.
LEMMA RowValue ==
  ASSUME NEW pg, NEW C, NEW x, IsRow(pg, C, x), NEW e \in C, ~Overflow(At(pg, e))
  PROVE  Value(pg, x) = At(pg, e).val
<1>1. CASE Overflow(At(pg, x))
  <2>1. C = {x, Target(pg, x)} /\ e = Target(pg, x)
    BY <1>1 DEF IsRow
  <2>2. Ends(pg, x) = {e}
    BY <1>1, <2>1, RowWalk DEF Ends
  <2>3. (CHOOSE z \in Ends(pg, x) : TRUE) = e
    BY <2>2
  <2> QED
    BY <1>1, <2>3 DEF Value
<1>2. CASE ~Overflow(At(pg, x))
  BY <1>2 DEF IsRow, Value
<1> QED
  BY <1>1, <1>2

\* A walk comes to a record from its start or over a link.
LEMMA WalkBack ==
  ASSUME NEW pg, NEW S, NEW x \in Walked(pg, S), x \notin S
  PROVE  \E b \in Walked(pg, S) : Overflow(At(pg, b)) /\ x = Target(pg, b)
<1> DEFINE m == MaxChainDepth
           w == Walk(pg, S)
           Back(n) == \A y \in w[n] : y \notin S => \E b \in w[n] : Overflow(At(pg, b)) /\ y = Target(pg, b)
           Q == {n \in 0 .. m : Back(n)}
<1>1. m \in Nat
  BY StoreAssumption
<1>2. /\ w[0] = S
      /\ \A n \in 0 .. m : n + 1 <= m => w[n + 1] = Further(pg, w[n]) /\ w[n] \subseteq w[n + 1]
  BY WalkSteps, WalkStart
<1>3. x \in w[m]
  BY DEF Walked
<1> HIDE DEF w
<1>4. 0 \in Q
  BY <1>1, <1>2
<1>5. ASSUME NEW n \in 0 .. m, n \in Q, n + 1 <= m PROVE n + 1 \in Q
  <2>1. n + 1 \in 0 .. m
    BY <1>1, <1>5
  <2>2. w[n + 1] = Further(pg, w[n]) /\ w[n] \subseteq w[n + 1]
    BY <1>2, <1>5
  <2>3. ASSUME NEW y \in w[n + 1], y \notin S
        PROVE  \E b \in w[n + 1] : Overflow(At(pg, b)) /\ y = Target(pg, b)
    <3>1. PICK a \in w[n] : y \in Step(pg, a)
      BY <2>2, <2>3 DEF Further
    <3>2. CASE y = a
      BY <1>5, <2>2, <2>3, <3>2
    <3>3. CASE y # a
      BY <2>2, <3>1, <3>3, StepFacts
    <3> QED
      BY <3>2, <3>3
  <2> QED
    BY <2>1, <2>3
<1> HIDE DEF Q
<1>6. m \in Q
  <2>1. \A n \in 0 .. m : n \in Q
    BY <1>1, <1>4, <1>5, Induct
  <2> QED
    BY <1>1, <2>1
<1>7. Back(m)
  BY <1>6 DEF Q
<1> QED
  BY <1>3, <1>7 DEF Walked, w

\* There are finitely many locators.
LEMMA LocatorsFinite ==
  ASSUME NEW R \in SUBSET Locators
  PROVE  IsFiniteSet(R) /\ Cardinality(R) \in Nat
<1>1. IsFiniteSet(1 .. MaxPages) /\ IsFiniteSet(1 .. MaxBuiltRows)
  BY StoreAssumption, PageConstants, FS_Interval
<1>2. IsFiniteSet(Locators)
  BY <1>1, FS_Product DEF Locators, PageNumbers
<1> QED
  BY <1>2, FS_Subset, FS_CardinalityType

\* The walk of a row ends: no two walks meet, so the records of one are as many as its
\* links and its end, and a walk without an end would need one record more than it has.
LEMMA WalkEnds ==
  ASSUME NEW pg, NEW R \in SUBSET Locators, Loads(pg, R), NEW l \in Shown(pg, R)
  PROVE  Ends(pg, l) # {} /\ Ends(pg, l) \subseteq R
<1> DEFINE V == Shown(pg, R)
           A == Walked(pg, {l})
           B == Walked(pg, V \ {l})
<1>1. Closed(pg, R) /\ Agree(pg, pg, R) /\ {l} \in SUBSET R /\ V \ {l} \in SUBSET R
  BY DEF Loads, Closed, Agree, Shown
<1>2. A \subseteq R /\ B \subseteq R
  BY <1>1, WalkLocal
<1>3. A \union B = R
  <2>1. V = {l} \union (V \ {l})
    OBVIOUS
  <2> QED
    BY <2>1, WalkUnion DEF Loads
<1>4. \A e \in R : Overflow(At(pg, e)) => Target(pg, e) \in R /\ Target(pg, e) \notin V
  BY DEF Loads, Shown
<1>5. \A b, c \in R : Overflow(At(pg, b)) /\ Overflow(At(pg, c)) /\ Target(pg, b) = Target(pg, c) => b = c
  BY DEF Loads
<1>6. \A x \in B : x \in V \ {l} \/ \E b \in B : Overflow(At(pg, b)) /\ x = Target(pg, b)
  BY WalkBack
<1>7. l \in V /\ l \in A
  BY WalkStart
<1>8. \A e \in R : Overflow(At(pg, e)) /\ Target(pg, e) \in B => e \in B
  BY <1>2, <1>4, <1>5, <1>6
<1>9. A \intersect B = {}
  <2> DEFINE m == MaxChainDepth
             w == Walk(pg, {l})
             Q == {n \in 0 .. m : w[n] \subseteq R /\ w[n] \intersect B = {}}
  <2>1. m \in Nat
    BY StoreAssumption
  <2>2. w[0] = {l} /\ \A n \in 0 .. m : n + 1 <= m => w[n + 1] = Further(pg, w[n])
    BY WalkSteps
  <2>3. A = w[m]
    BY DEF Walked
  <2> HIDE DEF w, A, B, V
  <2>4. 0 \in Q
    BY <1>1, <1>2, <1>4, <1>6, <1>7, <2>1, <2>2
  <2>5. ASSUME NEW n \in 0 .. m, n \in Q, n + 1 <= m PROVE n + 1 \in Q
    <3>1. n + 1 \in 0 .. m
      BY <2>1, <2>5
    <3>2. w[n + 1] = Further(pg, w[n])
      BY <2>2, <2>5
    <3>3. ASSUME NEW x \in w[n + 1] PROVE x \in R /\ x \notin B
      <4>1. PICK a \in w[n] : x \in Step(pg, a)
        BY <3>2, <3>3 DEF Further
      <4>2. a \in R /\ a \notin B
        BY <2>5
      <4>3. x = a \/ (Overflow(At(pg, a)) /\ x = Target(pg, a))
        BY <4>1, StepFacts
      <4> QED
        BY <1>4, <1>8, <4>2, <4>3
    <3> QED
      BY <3>1, <3>3
  <2> HIDE DEF Q
  <2>6. m \in Q
    <3>1. \A n \in 0 .. m : n \in Q
      BY <2>1, <2>4, <2>5, Induct
    <3> QED
      BY <2>1, <3>1
  <2> QED
    BY <2>3, <2>6 DEF Q
<1>10. ASSUME \A e \in A : Overflow(At(pg, e)) PROVE FALSE
  <2> DEFINE f == [e \in A |-> Target(pg, e)]
             T == A \ {l}
  <2> HIDE DEF A, B, V
  <2>1. ASSUME NEW e \in A PROVE Target(pg, e) \in T
    BY <1>2, <1>3, <1>4, <1>7, <1>8, <1>9, <1>10, <2>1
  <2>2. f \in [A -> T]
    BY <2>1
  <2>3. IsFiniteSet(A) /\ IsFiniteSet(T) /\ Cardinality(A) \in Nat
    <3>1. A \in SUBSET Locators /\ T \in SUBSET Locators
      BY <1>2
    <3> QED
      BY <3>1, LocatorsFinite
  <2>4. Cardinality(T) = Cardinality(A) - 1
    BY <1>7, <2>3, FS_RemoveElement
  <2>5. Cardinality(T) < Cardinality(A)
    BY <2>3, <2>4
  <2> HIDE DEF f, T
  <2>6. PICK x, y \in A : x # y /\ f[x] = f[y]
    BY <2>2, <2>3, <2>5, FS_PigeonHole
  <2> QED
    BY <1>2, <1>5, <1>10, <2>6 DEF f
<1> QED
  BY <1>2, <1>10 DEF Ends

\* Records that no edit touched load as before, and their rows read the same.
LEMMA LoadsLocal ==
  ASSUME NEW pg, NEW after, NEW R \in SUBSET Locators, Loads(pg, R), Agree(pg, after, R)
  PROVE  /\ Loads(after, R) /\ Shown(after, R) = Shown(pg, R)
         /\ \A l \in Shown(pg, R) : Value(after, l) = Value(pg, l)
<1>1. Closed(pg, R)
  BY DEF Loads, Closed
<1>2. Shown(after, R) = Shown(pg, R) /\ Shown(pg, R) \in SUBSET R
  BY DEF Shown, Agree
<1>3. \A l \in R : At(after, l) = At(pg, l) /\ Target(after, l) = Target(pg, l)
  BY DEF Agree, Target
<1>4. Walked(after, Shown(after, R)) = R
  BY <1>1, <1>2, WalkLocal DEF Loads
<1>5. Loads(after, R)
  BY <1>3, <1>4 DEF Loads
<1>6. ASSUME NEW l \in Shown(pg, R) PROVE Value(after, l) = Value(pg, l)
  <2>1. Walked(pg, {l}) \subseteq R /\ Walked(after, {l}) = Walked(pg, {l})
    <3>1. {l} \in SUBSET R
      BY <1>2, <1>6
    <3> QED
      BY <1>1, <3>1, WalkLocal
  <2>2. Ends(after, l) = Ends(pg, l) /\ l \in R
    BY <1>2, <1>3, <2>1 DEF Ends
  <2> DEFINE e == CHOOSE z \in Ends(pg, l) : TRUE
             d == CHOOSE z \in Ends(after, l) : TRUE
  <2>3. d = e
    BY <2>2
  <2>4. e \in R
    BY <1>6, WalkEnds
  <2>6. /\ Value(after, l) = IF Overflow(At(after, l)) THEN At(after, d).val ELSE At(after, l).val
        /\ Value(pg, l) = IF Overflow(At(pg, l)) THEN At(pg, e).val ELSE At(pg, l).val
    BY DEF Value
  <2> HIDE DEF e, d
  <2>5. At(after, e) = At(pg, e) /\ At(after, l) = At(pg, l)
    BY <1>3, <2>2, <2>4
  <2> QED
    BY <2>3, <2>5, <2>6
<1> QED
  BY <1>2, <1>5, <1>6

\* Without one of its rows the set loads: no other walk led into the row's records.
LEMMA LoadsDrop ==
  ASSUME NEW pg, NEW R, Loads(pg, R), NEW C, NEW x \in R, IsRow(pg, C, x)
  PROVE  /\ C \subseteq R /\ Loads(pg, R \ C)
         /\ Shown(pg, R \ C) = Shown(pg, R) \ {x} /\ x \in Shown(pg, R)
<1> DEFINE R0 == R \ C
           V == Shown(pg, R)
           V0 == Shown(pg, R0)
<1>1. C \subseteq R /\ x \in C
  BY DEF IsRow, Loads
<1>2. x \in V /\ V0 = V \ {x}
  BY <1>1, RowWalk DEF Shown, IsRow
<1>3. ASSUME NEW m \in R0, Overflow(At(pg, m)) PROVE Target(pg, m) \in R0
  <2>1. Target(pg, m) \in R /\ Hidden(At(pg, Target(pg, m)))
    BY <1>3 DEF Loads
  <2>2. Target(pg, m) # x
    BY <2>1 DEF IsRow
  <2>3. ASSUME Target(pg, m) \in C PROVE FALSE
    <3>1. Overflow(At(pg, x)) /\ Target(pg, m) = Target(pg, x)
      BY <2>2, <2>3 DEF IsRow
    <3>2. m = x
      BY <1>3, <3>1 DEF Loads
    <3> QED
      BY <1>1, <3>2
  <2> QED
    BY <2>1, <2>3
<1>4. Closed(pg, R0) /\ Agree(pg, pg, R0) /\ V0 \in SUBSET R0
  BY <1>3 DEF Closed, Agree, Shown
<1>5. Walked(pg, V0) \subseteq R0
  BY <1>4, WalkLocal
<1>6. R = Walked(pg, V0) \union C
  <2>1. V = V0 \union {x}
    BY <1>2
  <2>2. Walked(pg, V) = R
    BY DEF Loads
  <2>3. Walked(pg, {x}) = C
    BY RowWalk
  <2> HIDE DEF V, V0
  <2> QED
    BY <2>1, <2>2, <2>3, WalkUnion
<1>7. Walked(pg, V0) = R0
  BY <1>5, <1>6
<1>8. Loads(pg, R0)
  BY <1>3, <1>7 DEF Loads
<1> QED
  BY <1>1, <1>2, <1>8

\* With one more row, in records of its own, it loads too.
LEMMA LoadsAdd ==
  ASSUME NEW pg, NEW R, Loads(pg, R), NEW D, NEW x, IsRow(pg, D, x), D \intersect R = {}
  PROVE  /\ Loads(pg, R \union D) /\ x \notin Shown(pg, R)
         /\ Shown(pg, R \union D) = Shown(pg, R) \union {x}
<1> DEFINE R2 == R \union D
           V == Shown(pg, R)
           V2 == Shown(pg, R2)
<1>1. x \in D /\ x \notin V
  BY RowWalk DEF Shown
<1>2. V2 = V \union {x}
  BY <1>1, RowWalk DEF Shown, IsRow
<1>3. \A m \in R2 : LengthValid(At(pg, m))
  BY RowWalk DEF Loads
<1>4. \A m \in R2 : Overflow(At(pg, m)) =>
         /\ Target(pg, m) \in R2 /\ Hidden(At(pg, Target(pg, m)))
         /\ IF m \in R THEN Target(pg, m) \in R ELSE m = x /\ Target(pg, m) \in D
  BY RowWalk DEF Loads, IsRow
<1>5. \A l, m \in R2 : Overflow(At(pg, l)) /\ Overflow(At(pg, m)) /\ Target(pg, l) = Target(pg, m) => l = m
  <2>1. \A l, m \in R : Overflow(At(pg, l)) /\ Overflow(At(pg, m)) /\ Target(pg, l) = Target(pg, m) => l = m
    BY DEF Loads
  <2> QED
    BY <1>4, <2>1
<1>6. Walked(pg, V2) = R2
  <2>1. Walked(pg, V) = R
    BY DEF Loads
  <2>2. Walked(pg, {x}) = D
    BY RowWalk
  <2> HIDE DEF V, V2
  <2> QED
    BY <1>2, <2>1, <2>2, WalkUnion
<1>7. Loads(pg, R2)
  BY <1>3, <1>4, <1>5, <1>6 DEF Loads
<1> QED
  BY <1>1, <1>2, <1>7

-----------------------------------------------------------------------------
(* The records of the file, and what an edit of a page does to them. *)

All(pg) == {l \in Locators : l[1] \in DOMAIN pg /\ l[2] \in LiveSlots(pg[l[1]])}
Of(pg, t) == {l \in All(pg) : pg[l[1]].owner = t}
Sound(pg) == pg \in Seq(PageType) /\ \A p \in DOMAIN pg : PageSound(pg[p])

\* The records in R stay what and whose they are.
Same(pg, after, R) ==
  \A m \in R : At(after, m) = At(pg, m) /\ after[m[1]].owner = pg[m[1]].owner

\* slot is written at l, on a page of t; or the record at l is gone.
Put(pg, after, t, l, slot) ==
  /\ All(after) = All(pg) \union {l} /\ Same(pg, after, All(pg) \ {l})
  /\ At(after, l) = slot /\ after[l[1]].owner = t
Cut(pg, after, l) ==
  All(after) = All(pg) \ {l} /\ Same(pg, after, All(pg) \ {l})

\* The records a table's maps lead to are the ones on the pages that name it.
LEMMA RecordsOf ==
  ASSUME NEW pg, Sound(pg), NEW glob, NEW own \in [Tables -> SUBSET PageNumbers], NEW av,
         MapsAccepted(pg, glob, own, av), NEW t \in Tables
  PROVE  /\ Records(pg, own[t]) = Of(pg, t) /\ Visible(pg, own[t]) = Shown(pg, Of(pg, t))
         /\ \A p \in own[t] : pg[p].tag = "data"
<1>1. \A p \in DOMAIN pg : /\ pg[p].tag \in {"data", "released"}
                           /\ pg[p].tag = "released" => LiveSlots(pg[p]) = {}
  <2>1. \A image \in PageType : image.tag \in {"data", "released"}
    BY DEF PageType
  <2> QED
    BY <2>1 DEF Sound, PageSound
<1>2. \A p \in DOMAIN pg : IF pg[p].tag = "released" THEN p \in glob
                           ELSE p \notin glob /\ p \in own[pg[p].owner]
  BY DEF MapsAccepted
<1>3. \A p \in own[t] : p \in DOMAIN pg /\ pg[p].owner = t /\ p \notin glob
  BY DEF MapsAccepted
<1>4. \A p \in own[t] : pg[p].tag = "data"
  BY <1>1, <1>2, <1>3
<1>5. Records(pg, own[t]) \subseteq Of(pg, t)
  BY <1>3 DEF Records, Of, All
<1>6. Of(pg, t) \subseteq Records(pg, own[t])
  BY <1>1, <1>2 DEF Records, Of, All
<1>7. Records(pg, own[t]) = Of(pg, t)
  BY <1>5, <1>6
<1> QED
  BY <1>4, <1>7 DEF Visible, Shown

\* What RowGraph::load checks, said of the records.
LEMMA GraphLoadsIs ==
  ASSUME NEW pg, Sound(pg), NEW glob, NEW own \in [Tables -> SUBSET PageNumbers], NEW av,
         MapsAccepted(pg, glob, own, av), NEW t \in Tables, NEW stored
  PROVE  GraphLoads(pg, own[t], stored) <=>
           Loads(pg, Of(pg, t)) /\ stored = Cardinality(Shown(pg, Of(pg, t)))
<1> DEFINE R == Of(pg, t)
           links == {l \in R : Overflow(At(pg, l))}
<1>1. Records(pg, own[t]) = R /\ Visible(pg, own[t]) = Shown(pg, R) /\ \A p \in own[t] : pg[p].tag = "data"
  BY RecordsOf
<1>2. GraphLoads(pg, own[t], stored) <=>
        /\ \A l \in R : LengthValid(At(pg, l))
        /\ \A l \in links : Target(pg, l) \in R \ Shown(pg, R)
        /\ \A l, m \in links : Target(pg, l) = Target(pg, m) => l = m
        /\ Walked(pg, Shown(pg, R)) = R
        /\ stored = Cardinality(Shown(pg, R))
  BY <1>1 DEF GraphLoads
<1> HIDE DEF R
<1>3. (\A l \in links : Target(pg, l) \in R \ Shown(pg, R)) <=>
        \A l \in R : Overflow(At(pg, l)) => Target(pg, l) \in R /\ Hidden(At(pg, Target(pg, l)))
  BY DEF Shown
<1>4. (\A l, m \in links : Target(pg, l) = Target(pg, m) => l = m) <=>
        \A l, m \in R : Overflow(At(pg, l)) /\ Overflow(At(pg, m)) /\ Target(pg, l) = Target(pg, m) => l = m
  OBVIOUS
<1> HIDE DEF links
<1>5. (Loads(pg, R) /\ stored = Cardinality(Shown(pg, R))) <=>
        /\ \A l \in R : LengthValid(At(pg, l))
        /\ \A l \in links : Target(pg, l) \in R \ Shown(pg, R)
        /\ \A l, m \in links : Target(pg, l) = Target(pg, m) => l = m
        /\ Walked(pg, Shown(pg, R)) = R
        /\ stored = Cardinality(Shown(pg, R))
  BY <1>3, <1>4 DEF Loads
<1>6. GraphLoads(pg, own[t], stored) <=> Loads(pg, R) /\ stored = Cardinality(Shown(pg, R))
  BY <1>2, <1>5
<1> QED
  BY <1>6 DEF R

\* A locator is its page and its slot.
LEMMA Pairs ==
  \A l, m \in Locators : /\ l = m <=> l[1] = m[1] /\ l[2] = m[2]
                         /\ l = <<l[1], l[2]>> /\ l[1] \in PageNumbers /\ l[2] \in 1 .. MaxBuiltRows
BY DEF Locators

\* One slot of a page rewritten.
Rewrites(pg, after, l, slot) ==
  /\ DOMAIN after = DOMAIN pg /\ \A p \in DOMAIN pg \ {l[1]} : after[p] = pg[p]
  /\ after[l[1]].owner = pg[l[1]].owner
  /\ after[l[1]].slots = [pg[l[1]].slots EXCEPT ![l[2]] = slot]

\* The record at that slot is rewritten, or gone when the slot is a deleted one.
LEMMA RewriteRecords ==
  ASSUME NEW pg, NEW after, NEW l \in All(pg), NEW slot, Rewrites(pg, after, l, slot)
  PROVE  /\ slot.kind # "deleted" => Put(pg, after, pg[l[1]].owner, l, slot)
         /\ slot.kind = "deleted" => Cut(pg, after, l)
<1>1. /\ l \in Locators /\ l[1] \in DOMAIN pg /\ l[2] \in DOMAIN pg[l[1]].slots
      /\ pg[l[1]].slots[l[2]].kind # "deleted"
  BY DEF All, LiveSlots
<1> DEFINE old == pg[l[1]].slots
           new == after[l[1]].slots
<1>2. /\ DOMAIN new = DOMAIN old /\ new[l[2]] = slot
      /\ \A s \in DOMAIN old : s # l[2] => new[s] = old[s]
  BY <1>1 DEF Rewrites
<1>4. ASSUME NEW m \in Locators, m # l PROVE m \in All(after) <=> m \in All(pg)
  <2>1. CASE m[1] = l[1]
    <3>1. m[2] # l[2]
      BY <1>1, <1>4, <2>1, Pairs
    <3> QED
      BY <1>1, <1>2, <2>1, <3>1 DEF All, LiveSlots, Rewrites
  <2>2. CASE m[1] # l[1]
    BY <2>2 DEF All, LiveSlots, Rewrites
  <2> QED
    BY <2>1, <2>2
<1>5. l \in All(after) <=> slot.kind # "deleted"
  BY <1>1, <1>2 DEF All, LiveSlots, Rewrites
<1>6. All(after) \subseteq Locators /\ All(pg) \subseteq Locators
  BY DEF All
<1>7. ASSUME NEW m \in All(pg) \ {l}
      PROVE  At(after, m) = At(pg, m) /\ after[m[1]].owner = pg[m[1]].owner
  <2>1. m \in Locators /\ m # l /\ m[1] \in DOMAIN pg /\ m[2] \in DOMAIN pg[m[1]].slots
    BY <1>7 DEF All, LiveSlots
  <2>2. CASE m[1] = l[1]
    <3>1. m[2] # l[2]
      BY <1>1, <2>1, <2>2, Pairs
    <3> QED
      BY <1>2, <2>1, <2>2, <3>1 DEF At, Rewrites
  <2>3. CASE m[1] # l[1]
    BY <2>1, <2>3 DEF At, Rewrites
  <2> QED
    BY <2>2, <2>3
<1>8. At(after, l) = slot
  BY <1>2 DEF At
<1> QED
  BY <1>4, <1>5, <1>6, <1>7, <1>8 DEF Put, Cut, Same, Rewrites

\* A page put in the place of another.
LEMMA SoundOne ==
  ASSUME NEW pg, Sound(pg), NEW p \in DOMAIN pg, NEW image \in PageType, PageSound(image),
         NEW after, after = [pg EXCEPT ![p] = image]
  PROVE  Sound(after)
BY DEF Sound

\* What removing a row writes, whether or not the page is released with it: the other
\* slots of a page with one live row are deleted ones already.
LEMMA RemoveRowIs ==
  ASSUME NEW image \in PageType, NEW s \in LiveSlots(image)
  PROVE  LET after == RemoveRow(image, s) IN
         /\ after.owner = image.owner /\ after.slots = [image.slots EXCEPT ![s] = Tombstone]
         /\ after.free = image.free + image.slots[s].len - Tombstone.len
         /\ after.tag = image.tag \/ (after.tag = "released" /\ LiveSlots(image) = {s})
<1> DEFINE after == RemoveRow(image, s)
<1>1. /\ image.slots \in Seq(SlotType) /\ image.free \in Int /\ s \in DOMAIN image.slots
      /\ image.slots[s].len \in Nat /\ Tombstone.len = 0
  BY SlotFacts DEF PageType, LiveSlots
<1>2. /\ after.owner = image.owner /\ after.free = image.free + image.slots[s].len
      /\ after.tag = IF LiveSlots(image) = {s} THEN "released" ELSE image.tag
      /\ after.slots = IF LiveSlots(image) = {s} THEN [i \in DOMAIN image.slots |-> Tombstone]
                                                 ELSE [image.slots EXCEPT ![s] = Tombstone]
  BY DEF RemoveRow, PageType
<1>3. LiveSlots(image) = {s} => [i \in DOMAIN image.slots |-> Tombstone] = [image.slots EXCEPT ![s] = Tombstone]
  <2> SUFFICES ASSUME LiveSlots(image) = {s}
               PROVE  [i \in DOMAIN image.slots |-> Tombstone] = [image.slots EXCEPT ![s] = Tombstone]
    OBVIOUS
  <2>1. \A i \in DOMAIN image.slots : i # s => image.slots[i] = Tombstone
    <3>1. \A i \in DOMAIN image.slots : image.slots[i] \in SlotType /\ (i # s => image.slots[i].kind = "deleted")
      BY <1>1 DEF LiveSlots
    <3> QED
      BY <3>1, SlotFacts
  <2> QED
    BY <1>1, <2>1
<1>4. image.free + image.slots[s].len = image.free + image.slots[s].len - Tombstone.len
  BY <1>1
<1> HIDE DEF after
<1>5. /\ after.owner = image.owner /\ after.slots = [image.slots EXCEPT ![s] = Tombstone]
      /\ after.free = image.free + image.slots[s].len - Tombstone.len
      /\ after.tag = image.tag \/ (after.tag = "released" /\ LiveSlots(image) = {s})
  BY <1>2, <1>3, <1>4
<1> QED
  BY <1>5 DEF after

\* A live record replaced by another one.
LEMMA PutAt ==
  ASSUME NEW pg, Sound(pg), NEW l \in All(pg), NEW slot \in SlotType, slot.kind # "deleted"
  PROVE  /\ Sound(ReplaceAt(pg, l, slot))
         /\ Put(pg, ReplaceAt(pg, l, slot), pg[l[1]].owner, l, slot)
<1> DEFINE image == pg[l[1]]
           new == ReplaceRow(image, l[2], slot)
<1>1. l[1] \in DOMAIN pg /\ l[2] \in LiveSlots(image) /\ image \in PageType /\ PageSound(image)
  BY DEF All, Sound
<1>2. l[2] \in DOMAIN image.slots
  BY <1>1 DEF LiveSlots
<1>3. new \in PageType
  BY <1>1, <1>2, PageEdits
<1>4. /\ new.tag = image.tag /\ new.owner = image.owner
      /\ new.slots = [image.slots EXCEPT ![l[2]] = slot]
      /\ new.free = image.free + image.slots[l[2]].len - slot.len
  BY <1>1 DEF ReplaceRow, PageType
<1> DEFINE after == ReplaceAt(pg, l, slot)
<1>6. after = [pg EXCEPT ![l[1]] = new]
  BY DEF ReplaceAt
<1> HIDE DEF new
<1>5. PageSound(new)
  BY <1>1, <1>4, PutSound DEF WritesSlot
<1>7. Sound(after)
  BY <1>1, <1>3, <1>5, <1>6, SoundOne
<1>8. Rewrites(pg, after, l, slot)
  BY <1>1, <1>4, <1>6 DEF Rewrites, Sound
<1> QED
  BY <1>7, <1>8, RewriteRecords

\* A live record removed.
LEMMA CutAt ==
  ASSUME NEW pg, Sound(pg), NEW l \in All(pg)
  PROVE  Sound(RemoveAt(pg, l)) /\ Cut(pg, RemoveAt(pg, l), l)
<1> DEFINE image == pg[l[1]]
           new == RemoveRow(image, l[2])
<1>1. l[1] \in DOMAIN pg /\ l[2] \in LiveSlots(image) /\ image \in PageType /\ PageSound(image)
  BY DEF All, Sound
<1>2. l[2] \in DOMAIN image.slots
  BY <1>1 DEF LiveSlots
<1>3. new \in PageType
  BY <1>1, <1>2, PageEdits, SlotFacts
<1>4. /\ new.tag = image.tag \/ (new.tag = "released" /\ LiveSlots(image) = {l[2]})
      /\ new.owner = image.owner
      /\ new.slots = [image.slots EXCEPT ![l[2]] = Tombstone]
      /\ new.free = image.free + image.slots[l[2]].len - Tombstone.len
  BY <1>1, RemoveRowIs
<1> DEFINE after == RemoveAt(pg, l)
<1>6. after = [pg EXCEPT ![l[1]] = new]
  BY DEF RemoveAt
<1> HIDE DEF new
<1>5. PageSound(new)
  <2>1. WritesSlot(image, new, l[2], Tombstone)
    BY <1>1, <1>4, SlotFacts DEF WritesSlot
  <2> HIDE DEF image
  <2> QED
    BY <1>1, <2>1, PutSound, SlotFacts
<1>7. Sound(after)
  BY <1>1, <1>3, <1>5, <1>6, SoundOne
<1>8. Rewrites(pg, after, l, Tombstone)
  BY <1>1, <1>4, <1>6 DEF Rewrites, Sound
<1> QED
  BY <1>7, <1>8, RewriteRecords, SlotFacts

\* The bytes of one row changed where they are.
Patches(pg, after, l, v) == after = [pg EXCEPT ![l[1]].slots[l[2]].val = v]

\* A field changed in place.
LEMMA PatchAt ==
  ASSUME NEW pg, Sound(pg), NEW l \in All(pg), NEW v, NEW slot, slot = [At(pg, l) EXCEPT !.val = v],
         slot \in SlotType, slot.kind # "deleted", slot.len = At(pg, l).len,
         NEW after, Patches(pg, after, l, v)
  PROVE  Sound(after) /\ Put(pg, after, pg[l[1]].owner, l, slot)
<1> DEFINE image == pg[l[1]]
           new == [image EXCEPT !.slots = [image.slots EXCEPT ![l[2]] = slot]]
<1>1. l[1] \in DOMAIN pg /\ l[2] \in LiveSlots(image) /\ image \in PageType /\ PageSound(image)
  BY DEF All, Sound
<1>2. l[2] \in DOMAIN image.slots /\ image.slots \in Seq(SlotType) /\ image.free \in Int
  BY <1>1 DEF LiveSlots, PageType
<1>3. [image.slots EXCEPT ![l[2]] = slot] \in Seq(SlotType)
  BY <1>2
<1>4. /\ new \in PageType /\ new.tag = image.tag /\ new.owner = image.owner
      /\ new.slots = [image.slots EXCEPT ![l[2]] = slot] /\ new.free = image.free
  <2> DEFINE slots == [image.slots EXCEPT ![l[2]] = slot]
  <2> HIDE DEF slots
  <2>1. slots \in Seq(SlotType)
    BY <1>3 DEF slots
  <2>2. /\ [image EXCEPT !.slots = slots] \in PageType /\ [image EXCEPT !.slots = slots].tag = image.tag
        /\ [image EXCEPT !.slots = slots].owner = image.owner
        /\ [image EXCEPT !.slots = slots].slots = slots /\ [image EXCEPT !.slots = slots].free = image.free
    BY <1>1, <2>1 DEF PageType
  <2> QED
    BY <2>2 DEF slots
<1>5. image.free = image.free + image.slots[l[2]].len - slot.len
  <2>1. slot.len \in Nat /\ slot.len = image.slots[l[2]].len
    BY SlotFacts DEF At
  <2> QED
    BY <1>2, <2>1
<1>6. after = [pg EXCEPT ![l[1]] = new]
  BY DEF At, Patches
<1> HIDE DEF new
<1>7. PageSound(new)
  <2>1. WritesSlot(image, new, l[2], slot)
    BY <1>1, <1>4, <1>5 DEF WritesSlot
  <2> HIDE DEF image
  <2> QED
    BY <1>1, <2>1, PutSound, SlotFacts
<1>8. Sound(after)
  <2> HIDE DEF image
  <2> QED
    BY <1>1, <1>4, <1>6, <1>7, SoundOne
<1>9. Rewrites(pg, after, l, slot)
  BY <1>1, <1>4, <1>6 DEF Rewrites, Sound
<1> QED
  BY <1>8, <1>9, RewriteRecords

\* A row appended to the page p; an image where the page p is or is to be.
Appends(pg, after, p, slot) == after = [pg EXCEPT ![p] = AppendRow(@, slot)]
Places(pg, after, p, image) ==
  /\ after \in Seq(PageType) /\ DOMAIN after = DOMAIN pg \union {p} /\ after[p] = image
  /\ \A q \in DOMAIN pg \ {p} : after[q] = pg[q]

\* A row appended to a page with room: its locator was free.
LEMMA AppendAt ==
  ASSUME NEW pg, Sound(pg), NEW p \in DOMAIN pg, p \in PageNumbers, NEW slot \in SlotType,
         slot.kind # "deleted", AppendFits(pg[p], slot.len),
         NEW l, l = <<p, Len(pg[p].slots) + 1>>,
         NEW after, Appends(pg, after, p, slot)
  PROVE  /\ Sound(after) /\ Put(pg, after, pg[p].owner, l, slot)
         /\ l \in Locators /\ l \notin All(pg) /\ l = <<p, Len(after[p].slots)>>
<1> DEFINE image == pg[p]
           new == AppendRow(image, slot)
           n == Len(image.slots)
<1>1. image \in PageType /\ PageSound(image) /\ LiveSlots(image) # {} /\ n < MaxBuiltRows
  BY DEF Sound, AppendFits
<1>2. PICK s \in DOMAIN image.slots : TRUE
  BY <1>1 DEF LiveSlots
<1>3. new \in PageType /\ PageSound(new)
  BY <1>1, <1>2, PageEdits, AppendSound
<1>4. image.slots \in Seq(SlotType) /\ n \in Nat /\ MaxBuiltRows \in Nat
  BY <1>1, PageConstants DEF PageType
<1>5. new.owner = image.owner /\ new.slots = Append(image.slots, slot)
  BY <1>1 DEF AppendRow, PageType
<1>6. after = [pg EXCEPT ![p] = new] /\ pg \in Seq(PageType)
  BY DEF Sound, Appends
<1>7. /\ l \in Locators /\ l[1] = p /\ l[2] = n + 1 /\ n + 1 \notin DOMAIN image.slots
      /\ Len(new.slots) = n + 1 /\ DOMAIN new.slots = DOMAIN image.slots \union {n + 1}
      /\ new.slots[n + 1] = slot /\ \A i \in DOMAIN image.slots : new.slots[i] = image.slots[i]
  <2>1. n + 1 \in 1 .. MaxBuiltRows
    BY <1>1, <1>4
  <2>2. l \in Locators /\ l[1] = p /\ l[2] = n + 1
    BY <2>1 DEF Locators
  <2>3. DOMAIN image.slots = 1 .. n /\ DOMAIN new.slots = 1 .. (n + 1) /\ Len(new.slots) = n + 1
    BY <1>4, <1>5
  <2>4. DOMAIN new.slots = DOMAIN image.slots \union {n + 1} /\ n + 1 \notin DOMAIN image.slots
    <3>1. n + 1 \notin 1 .. n /\ 1 .. (n + 1) = (1 .. n) \union {n + 1}
      BY <1>4, Intervals
    <3> QED
      BY <2>3, <3>1, Zenon
  <2>5. new.slots[n + 1] = slot /\ \A i \in DOMAIN image.slots : new.slots[i] = image.slots[i]
    BY <1>4, <1>5, <2>3
  <2> QED
    BY <2>2, <2>3, <2>4, <2>5
<1> HIDE DEF new
<1>8. Sound(after)
  BY <1>3, <1>6, SoundOne
<1>9. DOMAIN after = DOMAIN pg /\ after[p] = new /\ \A q \in DOMAIN pg : q # p => after[q] = pg[q]
  BY <1>6
<1>10. l \notin All(pg) /\ l \in All(after) /\ At(after, l) = slot
  BY <1>7, <1>9 DEF All, LiveSlots, At
<1>11. ASSUME NEW m \in Locators, m # l
       PROVE  /\ m \in All(after) <=> m \in All(pg)
              /\ m \in All(pg) => At(after, m) = At(pg, m) /\ after[m[1]].owner = pg[m[1]].owner
  <2>1. CASE m[1] = p
    <3>1. m[2] # n + 1
      BY <1>7, <1>11, <2>1, Pairs
    <3> HIDE DEF image, n
    <3>2. m[2] \in LiveSlots(new) <=> m[2] \in LiveSlots(image)
      BY <1>7, <3>1 DEF LiveSlots
    <3>3. m[2] \in LiveSlots(image) => new.slots[m[2]] = image.slots[m[2]]
      BY <1>7 DEF LiveSlots
    <3>4. after[m[1]] = new /\ pg[m[1]] = image /\ m[1] \in DOMAIN pg /\ m[1] \in DOMAIN after
      BY <1>9, <2>1 DEF image
    <3> QED
      BY <1>5, <3>2, <3>3, <3>4 DEF All, At
  <2>2. CASE m[1] # p
    BY <1>9, <2>2 DEF All, LiveSlots, At
  <2> QED
    BY <2>1, <2>2
<1>12. All(after) \subseteq Locators /\ All(pg) \subseteq Locators
  BY DEF All
<1>13. Put(pg, after, pg[p].owner, l, slot)
  BY <1>5, <1>7, <1>9, <1>10, <1>11, <1>12 DEF Put, Same
<1> QED
  BY <1>7, <1>8, <1>9, <1>10, <1>13

\* The page p is not there or has no rows.
Vacant(pg, p) == p \in DOMAIN pg => LiveSlots(pg[p]) = {}

\* A page of its own, where there was none or one without rows.
LEMMA PlaceNewAt ==
  ASSUME NEW pg, Sound(pg), NEW p \in PageNumbers, NEW t \in Tables, NEW slot \in SlotType,
         slot.kind # "deleted", Vacant(pg, p),
         NEW image, image = NewPage(t, slot),
         NEW after, Places(pg, after, p, image), NEW l, l = <<p, Len(after[p].slots)>>
  PROVE  /\ Sound(after) /\ Put(pg, after, t, l, slot)
         /\ l \in Locators /\ l \notin All(pg)
<1>0. /\ after \in Seq(PageType) /\ DOMAIN after = DOMAIN pg \union {p} /\ after[p] = NewPage(t, slot)
      /\ \A q \in DOMAIN pg \ {p} : after[q] = pg[q]
  BY DEF Places
<1>1. /\ after[p].slots = <<slot>> /\ after[p].owner = t /\ PageSound(after[p])
  BY <1>0, NewPageSound DEF NewPage
<1>2. Sound(after)
  BY <1>0, <1>1 DEF Sound
<1>3. DOMAIN after[p].slots = {1} /\ after[p].slots[1] = slot /\ Len(after[p].slots) = 1
  BY <1>1
<1>4. l \in Locators /\ l[1] = p /\ l[2] = 1
  BY <1>3, StoreAssumption, PageConstants DEF Locators
<1>5. l \notin All(pg) /\ l \in All(after) /\ At(after, l) = slot
  BY <1>0, <1>3, <1>4 DEF Vacant, All, LiveSlots, At
<1>6. ASSUME NEW m \in Locators, m # l
      PROVE  /\ m \in All(after) <=> m \in All(pg)
             /\ m \in All(pg) => At(after, m) = At(pg, m) /\ after[m[1]].owner = pg[m[1]].owner
  <2>1. CASE m[1] = p
    <3>1. m[2] # l[2]
      BY <1>4, <1>6, <2>1, Pairs, Zenon
    <3> QED
      BY <1>0, <1>3, <1>4, <2>1, <3>1 DEF Vacant, All, LiveSlots
  <2>2. CASE m[1] # p
    BY <1>0, <2>2 DEF All, LiveSlots, At
  <2> QED
    BY <2>1, <2>2
<1>7. All(after) \subseteq Locators /\ All(pg) \subseteq Locators
  BY DEF All
<1>8. Put(pg, after, t, l, slot)
  BY <1>1, <1>4, <1>5, <1>6, <1>7 DEF Put, Same
<1> QED
  BY <1>2, <1>3, <1>4, <1>5, <1>8

-----------------------------------------------------------------------------
(* What an operation does to the rows of all tables. *)

\* The records C of table t make way for the records D; no other record changes.
Outcome(pg, after, t, C, D) ==
  /\ C \subseteq Of(pg, t)
  /\ All(after) = (All(pg) \ C) \union D /\ D \intersect (All(pg) \ C) = {}
  /\ Same(pg, after, All(pg) \ C) /\ \A m \in D : after[m[1]].owner = t

\* An edit of the records of C, or of a free locator, changes nothing else.
LEMMA OutcomeSteps ==
  ASSUME NEW pg, NEW t, NEW C, C \subseteq Of(pg, t)
  PROVE  /\ Outcome(pg, pg, t, C, C)
         /\ \A mid, after, D, l, slot :
              /\ Outcome(pg, mid, t, C, D) /\ Put(mid, after, t, l, slot) /\ l \notin All(pg) \ C
                   => Outcome(pg, after, t, C, D \union {l})
              /\ Outcome(pg, mid, t, C, D) /\ Cut(mid, after, l) /\ l \notin All(pg) \ C
                   => Outcome(pg, after, t, C, D \ {l})
<1>1. Outcome(pg, pg, t, C, C)
  BY DEF Outcome, Of, Same
<1>2. ASSUME NEW mid, NEW after, NEW D, NEW l, NEW slot, Outcome(pg, mid, t, C, D),
             Put(mid, after, t, l, slot), l \notin All(pg) \ C
      PROVE  Outcome(pg, after, t, C, D \union {l})
  <2> DEFINE K == All(pg) \ C
  <2>1. All(mid) = K \union D /\ D \intersect K = {} /\ l \notin K
    BY <1>2 DEF Outcome
  <2>2. All(after) = K \union (D \union {l}) /\ (D \union {l}) \intersect K = {}
    BY <1>2, <2>1 DEF Put
  <2>3. \A m \in All(mid) : m # l => At(after, m) = At(mid, m) /\ after[m[1]].owner = mid[m[1]].owner
    BY <1>2 DEF Put, Same
  <2>4. \A m \in K : At(mid, m) = At(pg, m) /\ mid[m[1]].owner = pg[m[1]].owner
    BY <1>2 DEF Outcome, Same
  <2>5. (\A m \in D : mid[m[1]].owner = t) /\ after[l[1]].owner = t
    BY <1>2 DEF Outcome, Put
  <2> HIDE DEF K
  <2>6. Same(pg, after, K)
    BY <2>1, <2>3, <2>4 DEF Same
  <2>7. \A m \in D \union {l} : after[m[1]].owner = t
    BY <2>1, <2>3, <2>5
  <2> QED
    BY <2>2, <2>6, <2>7 DEF Outcome, K
<1>3. ASSUME NEW mid, NEW after, NEW D, NEW l, Outcome(pg, mid, t, C, D),
             Cut(mid, after, l), l \notin All(pg) \ C
      PROVE  Outcome(pg, after, t, C, D \ {l})
  <2> DEFINE K == All(pg) \ C
  <2>1. All(mid) = K \union D /\ D \intersect K = {} /\ l \notin K
    BY <1>3 DEF Outcome
  <2>2. All(after) = K \union (D \ {l}) /\ (D \ {l}) \intersect K = {}
    BY <1>3, <2>1 DEF Cut
  <2>3. \A m \in All(mid) : m # l => At(after, m) = At(mid, m) /\ after[m[1]].owner = mid[m[1]].owner
    BY <1>3 DEF Cut, Same
  <2>4. \A m \in K : At(mid, m) = At(pg, m) /\ mid[m[1]].owner = pg[m[1]].owner
    BY <1>3 DEF Outcome, Same
  <2>5. \A m \in D : mid[m[1]].owner = t
    BY <1>3 DEF Outcome
  <2> HIDE DEF K
  <2>6. Same(pg, after, K)
    BY <2>1, <2>3, <2>4 DEF Same
  <2>7. \A m \in D \ {l} : after[m[1]].owner = t
    BY <2>1, <2>3, <2>5
  <2> QED
    BY <2>2, <2>6, <2>7 DEF Outcome, K
<1> QED
  BY <1>1, <1>2, <1>3

\* The rows of t a reader sees.
Seen(pg, t) == Shown(pg, Of(pg, t))

\* Of the rows of t those in gone leave and those in come arrive, at most one each.
RowStep(pg, after, t, gone, come) ==
  \E C, D : /\ Outcome(pg, after, t, C, D)
            /\ \/ C = {} /\ gone = {}
               \/ \E x \in Of(pg, t) : gone = {x} /\ IsRow(pg, C, x)
            /\ \/ D = {} /\ come = {}
               \/ \E y : come = {y} /\ IsRow(after, D, y)

\* After such a step the records of every table load, and every other row reads the same.
LEMMA RowStepSeen ==
  ASSUME NEW pg, NEW after, NEW t, NEW gone, NEW come, RowStep(pg, after, t, gone, come),
         NEW T, t \in T, \A u \in T : Loads(pg, Of(pg, u))
  PROVE  /\ \A u \in T : Loads(after, Of(after, u))
         /\ Seen(after, t) = (Seen(pg, t) \ gone) \union come
         /\ gone \subseteq Seen(pg, t) /\ come \intersect (Seen(pg, t) \ gone) = {}
         /\ \A u \in T \ {t} : Seen(after, u) = Seen(pg, u)
         /\ \A u \in T : \A l \in Seen(pg, u) : l \notin gone => Value(after, l) = Value(pg, l)
<1>1. PICK C, D : /\ Outcome(pg, after, t, C, D)
                  /\ \/ C = {} /\ gone = {}
                     \/ \E x \in Of(pg, t) : gone = {x} /\ IsRow(pg, C, x)
                  /\ \/ D = {} /\ come = {}
                     \/ \E y : come = {y} /\ IsRow(after, D, y)
  BY DEF RowStep
<1> DEFINE R == Of(pg, t)
           R0 == R \ C
<1>2. /\ C \subseteq R /\ \A m \in D : after[m[1]].owner = t
      /\ All(after) = (All(pg) \ C) \union D /\ D \intersect (All(pg) \ C) = {}
      /\ \A m \in All(pg) \ C : At(after, m) = At(pg, m) /\ after[m[1]].owner = pg[m[1]].owner
  BY <1>1 DEF Outcome, Same
<1>3. /\ Of(after, t) = R0 \union D /\ D \intersect R0 = {} /\ Agree(pg, after, R0)
      /\ R0 \in SUBSET Locators
  BY <1>2 DEF Of, Agree, All
<1>4. \A u : u # t => Of(after, u) = Of(pg, u) /\ Agree(pg, after, Of(pg, u)) /\ Of(pg, u) \in SUBSET Locators
  BY <1>2 DEF Of, Agree, All
<1>5. ASSUME NEW u \in T, u # t
      PROVE  /\ Loads(after, Of(after, u)) /\ Seen(after, u) = Seen(pg, u)
             /\ \A l \in Seen(pg, u) : Value(after, l) = Value(pg, l)
  BY <1>4, <1>5, LoadsLocal DEF Seen
<1>6. /\ Loads(pg, R0) /\ Shown(pg, R0) = Shown(pg, R) \ gone /\ gone \subseteq Shown(pg, R)
  <2>1. CASE C = {} /\ gone = {}
    <3>1. R0 = R
      BY <2>1
    <3> QED
      BY <2>1, <3>1
  <2>2. CASE \E x \in Of(pg, t) : gone = {x} /\ IsRow(pg, C, x)
    <3>1. PICK x \in R : gone = {x} /\ IsRow(pg, C, x)
      BY <2>2
    <3>2. Loads(pg, R)
      OBVIOUS
    <3> HIDE DEF R
    <3>3. Loads(pg, R \ C) /\ Shown(pg, R \ C) = Shown(pg, R) \ {x} /\ x \in Shown(pg, R)
      BY <3>1, <3>2, LoadsDrop, Zenon
    <3> QED
      BY <3>1, <3>3
  <2> QED
    BY <1>1, <2>1, <2>2
<1> HIDE DEF R0
<1>7. /\ Loads(after, R0) /\ Shown(after, R0) = Shown(pg, R0)
      /\ \A l \in Shown(pg, R0) : Value(after, l) = Value(pg, l)
  BY <1>3, <1>6, LoadsLocal
<1>8. /\ Loads(after, R0 \union D) /\ Shown(after, R0 \union D) = Shown(after, R0) \union come
      /\ come \intersect Shown(after, R0) = {}
  <2>1. CASE D = {} /\ come = {}
    <3>1. R0 \union D = R0
      BY <2>1
    <3> QED
      BY <1>7, <2>1, <3>1
  <2>2. CASE \E y : come = {y} /\ IsRow(after, D, y)
    <3>1. PICK y : come = {y} /\ IsRow(after, D, y)
      BY <2>2
    <3> QED
      BY <1>3, <1>7, <3>1, LoadsAdd
  <2> QED
    BY <1>1, <2>1, <2>2
<1>9. \A u \in T : Loads(after, Of(after, u))
  BY <1>3, <1>5, <1>8
<1>10. Seen(after, t) = (Seen(pg, t) \ gone) \union come
  BY <1>3, <1>6, <1>7, <1>8 DEF Seen
<1>11. gone \subseteq Seen(pg, t) /\ come \intersect (Seen(pg, t) \ gone) = {}
  BY <1>6, <1>7, <1>8 DEF Seen
<1>12. \A l \in Seen(pg, t) : l \notin gone => Value(after, l) = Value(pg, l)
  BY <1>6, <1>7 DEF Seen
<1> QED
  BY <1>5, <1>9, <1>10, <1>11, <1>12

-----------------------------------------------------------------------------
(* Each operation is such a step. *)

AInv == IInv /\ count \in [Tables -> Nat] /\ NextCallAccepts

\* A file every loader accepts: its pages, and the records of each table.
LEMMA AcceptedIs ==
  ASSUME NEW pg \in Seq(PageType), NEW own \in [Tables -> SUBSET PageNumbers], NEW glob, NEW av,
         MapsAccepted(pg, glob, own, av), NEW stored
  PROVE  FileAccepted(pg, own, stored) <=>
           /\ Sound(pg)
           /\ \A u \in Tables : Loads(pg, Of(pg, u)) /\ stored[u] = Cardinality(Seen(pg, u))
<1>1. FileAccepted(pg, own, stored) <=> Sound(pg) /\ \A u \in Tables : GraphLoads(pg, own[u], stored[u])
  BY DEF FileAccepted, Sound, PageSound
<1>2. Sound(pg) => \A u \in Tables :
        GraphLoads(pg, own[u], stored[u]) <=>
          Loads(pg, Of(pg, u)) /\ stored[u] = Cardinality(Seen(pg, u))
  BY GraphLoadsIs DEF Seen
<1> QED
  BY <1>1, <1>2

\* What the invariant says of the pages and of the records of each table.
LEMMA Accepted ==
  ASSUME AInv
  PROVE  /\ Sound(pages)
         /\ \A u \in Tables : Loads(pages, Of(pages, u)) /\ count[u] = Cardinality(Seen(pages, u))
<1>1. /\ pages \in Seq(PageType) /\ owned \in [Tables -> SUBSET PageNumbers]
      /\ MapsAccepted(pages, global, owned, avail) /\ FileAccepted(pages, owned, count)
  BY DEF AInv, IInv, TypeInv, MapsPartition, NextCallAccepts
<1> QED
  BY <1>1, AcceptedIs

\* The row an operation names is one of the table's, in the records of its chain.
LEMMA ChainRow ==
  ASSUME AInv, NEW t \in Tables, NEW l \in Visible(pages, owned[t]), ~MultiHop(l), NEW C,
         C = IF Overflow(At(pages, l)) THEN {l, Target(pages, l)} ELSE {l}
  PROVE  /\ l \in Of(pages, t) /\ IsRow(pages, C, l) /\ C \subseteq Of(pages, t)
         /\ \A m \in C : m \in All(pages) /\ pages[m[1]].owner = t
<1>1. Sound(pages) /\ Loads(pages, Of(pages, t))
  BY Accepted DEF AInv
<1>2. Visible(pages, owned[t]) = Shown(pages, Of(pages, t))
  BY <1>1, RecordsOf DEF AInv, IInv, TypeInv, MapsPartition
<1>3. l \in Of(pages, t) /\ ~Hidden(At(pages, l)) /\ LengthValid(At(pages, l))
  BY <1>1, <1>2 DEF Shown, Loads
<1>4. Overflow(At(pages, l)) =>
        /\ Target(pages, l) \in Of(pages, t) /\ Hidden(At(pages, Target(pages, l)))
        /\ LengthValid(At(pages, Target(pages, l))) /\ ~Overflow(At(pages, Target(pages, l)))
  BY <1>1, <1>3 DEF Loads, MultiHop
<1>5. IsRow(pages, C, l)
  BY <1>3, <1>4 DEF IsRow
<1>6. C \subseteq Of(pages, t)
  BY <1>3, <1>4
<1> QED
  BY <1>3, <1>5, <1>6 DEF Of

\* The slots written are live, have valid lengths and show what they should.
LEMMA Written ==
  ASSUME NEW v \in Values, NEW n \in Lens[v]
  PROVE  /\ LET s == Ordinary(v, n) IN
              /\ s \in SlotType /\ s.kind # "deleted" /\ s.len = n /\ s.val = v
              /\ ~Hidden(s) /\ ~Overflow(s) /\ LengthValid(s)
         /\ LET s == Storage(v, n) IN
              /\ s \in SlotType /\ s.kind # "deleted" /\ s.len = n /\ s.val = v
              /\ Hidden(s) /\ ~Overflow(s) /\ LengthValid(s)
         /\ \A z \in Locators : LET s == Link(z) IN
              /\ s \in SlotType /\ s.kind # "deleted" /\ s.val = z
              /\ ~Hidden(s) /\ Overflow(s) /\ LengthValid(s)
<1>1. n \in Nat \ {0}
  BY StoreAssumption
<1>2. Ordinary(v, n) \in SlotType /\ Storage(v, n) \in SlotType
  BY SlotForms
<1>3. \A z \in Locators : Link(z) \in SlotType
  <2>1. \A z \in Locators : z = <<z[1], z[2]>> /\ z[1] \in Nat /\ z[2] \in Nat
    BY StoreAssumption, PageConstants DEF Locators, PageNumbers
  <2> QED
    BY <2>1, SlotForms
<1>4. /\ Ordinary(v, n).kind = "ordinary" /\ Ordinary(v, n).len = n /\ Ordinary(v, n).val = v
      /\ Storage(v, n).kind = "storage" /\ Storage(v, n).len = n /\ Storage(v, n).val = v
      /\ \A z : Link(z).kind = "link" /\ Link(z).len = PointerLen /\ Link(z).val = z
  BY DEF Ordinary, Storage, Link, Slot
<1>5. /\ ~Hidden(Ordinary(v, n)) /\ ~Overflow(Ordinary(v, n)) /\ LengthValid(Ordinary(v, n))
      /\ Hidden(Storage(v, n)) /\ ~Overflow(Storage(v, n)) /\ LengthValid(Storage(v, n))
      /\ \A z : ~Hidden(Link(z)) /\ Overflow(Link(z)) /\ LengthValid(Link(z))
  BY <1>1, <1>4 DEF Hidden, Overflow, LengthValid
<1> QED
  BY <1>2, <1>3, <1>4, <1>5

\* The records C of the row l of t, on pages that are sound.
Holds(pg, t, l, C) == Sound(pg) /\ IsRow(pg, C, l) /\ C \subseteq Of(pg, t)

\* What that says of the one or two records.
LEMMA HoldsFacts ==
  ASSUME NEW pg, NEW t, NEW l, NEW C, Holds(pg, t, l, C)
  PROVE  /\ l \in C /\ l \in Of(pg, t) /\ \A m \in C : m \in All(pg) /\ pg[m[1]].owner = t /\ m \notin All(pg) \ C
         /\ Overflow(At(pg, l)) => /\ C = {l, Target(pg, l)} /\ l # Target(pg, l)
                                   /\ Target(pg, l) \in C /\ Target(pg, l) \in All(pg)
         /\ ~Overflow(At(pg, l)) => C = {l}
<1>1. l \in C
  BY RowWalk DEF Holds
<1>2. \A m \in C : m \in All(pg) /\ pg[m[1]].owner = t
  BY DEF Holds, Of
<1> QED
  BY <1>1, <1>2 DEF Holds, IsRow

\* A row in a record of its own.
LEMMA NewRow ==
  ASSUME NEW pg, NEW after, NEW t, NEW y, NEW v \in Values, NEW n \in Lens[v],
         Put(pg, after, t, y, Ordinary(v, n)), y \notin All(pg)
  PROVE  RowStep(pg, after, t, {}, {y}) /\ Value(after, y) = v
<1>1. Outcome(pg, after, t, {}, {y})
  <2>1. Outcome(pg, pg, t, {}, {})
    BY OutcomeSteps
  <2>2. Outcome(pg, after, t, {}, {} \union {y})
    BY <2>1, OutcomeSteps
  <2> QED
    BY <2>2
<1>2. At(after, y) = Ordinary(v, n)
  BY DEF Put
<1>3. IsRow(after, {y}, y)
  BY <1>2, Written DEF IsRow
<1>4. Value(after, y) = v
  BY <1>2, Written DEF Value
<1> QED
  BY <1>1, <1>3, <1>4 DEF RowStep

\* delete: the hidden storage and the logical slot go.
LEMMA DropRow ==
  ASSUME NEW pg, NEW t, NEW l, NEW C, Holds(pg, t, l, C), NEW after,
         after = IF Overflow(At(pg, l)) THEN RemoveAt(RemoveAt(pg, Target(pg, l)), l) ELSE RemoveAt(pg, l)
  PROVE  Sound(after) /\ RowStep(pg, after, t, {l}, {})
<1> DEFINE y == Target(pg, l)
           mid == RemoveAt(pg, y)
<1>1. /\ l \in C /\ l \in Of(pg, t) /\ Sound(pg) /\ IsRow(pg, C, l) /\ C \subseteq Of(pg, t)
      /\ Outcome(pg, pg, t, C, C) /\ l \in All(pg) /\ l \notin All(pg) \ C
  BY HoldsFacts, OutcomeSteps, ZenonT(40) DEF Holds
<1>2. Sound(after) /\ Outcome(pg, after, t, C, {})
  <2>1. CASE ~Overflow(At(pg, l))
    <3>1. C = {l} /\ after = RemoveAt(pg, l)
      BY <2>1, HoldsFacts
    <3>2. Sound(after) /\ Cut(pg, after, l)
      BY <1>1, <3>1, CutAt
    <3>3. Outcome(pg, after, t, C, C \ {l})
      BY <1>1, <3>2, OutcomeSteps
    <3> QED
      BY <3>1, <3>2, <3>3
  <2>2. CASE Overflow(At(pg, l))
    <3>1. C = {l, y} /\ l # y /\ y \in All(pg) /\ after = RemoveAt(mid, l) /\ y \notin All(pg) \ C
      BY <2>2, HoldsFacts
    <3>2. Sound(mid) /\ Cut(pg, mid, y)
      BY <1>1, <3>1, CutAt
    <3> HIDE DEF mid, y
    <3>3. l \in All(mid)
      BY <1>1, <3>1, <3>2 DEF Cut
    <3>4. Sound(after) /\ Cut(mid, after, l)
      BY <3>1, <3>2, <3>3, CutAt
    <3>5. Outcome(pg, mid, t, C, C \ {y})
      BY <1>1, <3>1, <3>2, OutcomeSteps
    <3>6. Outcome(pg, after, t, C, (C \ {y}) \ {l})
      BY <1>1, <3>4, <3>5, OutcomeSteps, ZenonT(40)
    <3>7. (C \ {y}) \ {l} = {}
      BY <3>1
    <3> QED
      BY <3>4, <3>6, <3>7
  <2> QED
    BY <2>1, <2>2
<1> QED
  BY <1>1, <1>2 DEF RowStep

\* pg without the storage that the row l has in of.
Dropped(pg, of, l) == IF Overflow(At(of, l)) THEN RemoveAt(pg, Target(of, l)) ELSE pg

\* A row written to its logical slot, its storage dropped.
LEMMA CollapseRow ==
  ASSUME NEW pg, NEW t, NEW l, NEW C, Holds(pg, t, l, C), NEW v \in Values, NEW n \in Lens[v], NEW after,
         after = Dropped(ReplaceAt(pg, l, Ordinary(v, n)), pg, l)
  PROVE  Sound(after) /\ RowStep(pg, after, t, {l}, {l}) /\ Value(after, l) = v
<1> DEFINE y == Target(pg, l)
           slot == Ordinary(v, n)
           mid == ReplaceAt(pg, l, slot)
<1>1. /\ l \in C /\ l \in Of(pg, t) /\ Sound(pg) /\ IsRow(pg, C, l) /\ C \subseteq Of(pg, t)
      /\ Outcome(pg, pg, t, C, C) /\ l \in All(pg) /\ l \notin All(pg) \ C /\ pg[l[1]].owner = t
  BY HoldsFacts, OutcomeSteps, ZenonT(40) DEF Holds
<1>2. slot \in SlotType /\ slot.kind # "deleted"
  BY Written
<1> HIDE DEF slot
<1>3. Sound(mid) /\ Put(pg, mid, t, l, slot)
  BY <1>1, <1>2, PutAt
<1>4. Outcome(pg, mid, t, C, C \union {l})
  BY <1>1, <1>3, OutcomeSteps
<1>5. after = IF Overflow(At(pg, l)) THEN RemoveAt(mid, y) ELSE mid
  BY DEF slot, Dropped
<1> HIDE DEF mid, y
<1>6. Sound(after) /\ Outcome(pg, after, t, C, {l}) /\ At(after, l) = slot
  <2>1. CASE ~Overflow(At(pg, l))
    <3>1. C \union {l} = {l} /\ after = mid
      BY <1>5, <2>1, HoldsFacts
    <3> QED
      BY <1>3, <1>4, <3>1 DEF Put
  <2>2. CASE Overflow(At(pg, l))
    <3>1. C = {l, y} /\ l # y /\ y \in All(pg) /\ after = RemoveAt(mid, y) /\ y \notin All(pg) \ C
      BY <1>5, <2>2, HoldsFacts DEF y
    <3>2. y \in All(mid) /\ l \in All(mid)
      BY <1>3, <3>1 DEF Put
    <3>3. Sound(after) /\ Cut(mid, after, y)
      BY <1>3, <3>1, <3>2, CutAt
    <3>4. Outcome(pg, after, t, C, (C \union {l}) \ {y})
      BY <1>1, <1>4, <3>1, <3>3, OutcomeSteps
    <3>5. (C \union {l}) \ {y} = {l}
      BY <3>1
    <3>6. At(after, l) = slot
      BY <1>3, <3>1, <3>2, <3>3 DEF Cut, Same, Put
    <3> QED
      BY <3>3, <3>4, <3>5, <3>6
  <2> QED
    BY <2>1, <2>2
<1>7. IsRow(after, {l}, l) /\ Value(after, l) = v
  BY <1>6, Written DEF IsRow, Value, slot
<1> QED
  BY <1>1, <1>6, <1>7 DEF RowStep

\* The hidden storage rewritten where it is.
LEMMA StorageRow ==
  ASSUME NEW pg, NEW t, NEW l, NEW C, Holds(pg, t, l, C), Overflow(At(pg, l)),
         NEW slot, slot.kind # "deleted", ~Overflow(slot), Hidden(slot), LengthValid(slot),
         NEW after, Sound(after), Put(pg, after, t, Target(pg, l), slot)
  PROVE  RowStep(pg, after, t, {l}, {l}) /\ Value(after, l) = slot.val
<1> DEFINE y == Target(pg, l)
<1>1. /\ l \in C /\ l \in Of(pg, t) /\ IsRow(pg, C, l) /\ C \subseteq Of(pg, t)
      /\ Outcome(pg, pg, t, C, C) /\ l \in All(pg)
      /\ C = {l, y} /\ l # y /\ y \in All(pg) /\ y \notin All(pg) \ C
  BY HoldsFacts, OutcomeSteps, ZenonT(40) DEF Holds
<1>2. Put(pg, after, t, y, slot)
  OBVIOUS
<1>a. y = Target(pg, l)
  OBVIOUS
<1> HIDE DEF y
<1>3. Outcome(pg, after, t, C, C \union {y})
  BY <1>1, <1>2, OutcomeSteps
<1>4. C \union {y} = C
  BY <1>1
<1>5. At(after, y) = slot /\ At(after, l) = At(pg, l)
  BY <1>1, <1>2 DEF Put, Same
<1>6. Target(after, l) = y /\ Overflow(At(after, l))
  BY <1>5, <1>a DEF Target
<1>7. IsRow(after, C, l)
  BY <1>1, <1>5, <1>6 DEF IsRow
<1>8. Value(after, l) = slot.val
  BY <1>1, <1>5, <1>7, RowValue
<1> QED
  BY <1>1, <1>3, <1>4, <1>7, <1>8 DEF RowStep

\* Storage elsewhere at z, the logical slot a link to it, the old storage dropped.
LEMMA MoveRow ==
  ASSUME NEW pg, NEW t, NEW l, NEW C, Holds(pg, t, l, C), NEW v \in Values, NEW n \in Lens[v],
         NEW z \in Locators, z \notin All(pg), NEW stored, Sound(stored), Put(pg, stored, t, z, Storage(v, n)),
         NEW after,
         after = Dropped(ReplaceAt(stored, l, Link(z)), pg, l)
  PROVE  Sound(after) /\ RowStep(pg, after, t, {l}, {l}) /\ Value(after, l) = v
<1> DEFINE y == Target(pg, l)
           slot == Storage(v, n)
           mid == ReplaceAt(stored, l, Link(z))
<1>1. /\ l \in C /\ l \in Of(pg, t) /\ IsRow(pg, C, l) /\ C \subseteq Of(pg, t)
      /\ Outcome(pg, pg, t, C, C) /\ l \in All(pg) /\ l \notin All(pg) \ C /\ pg[l[1]].owner = t
      /\ z # l /\ z \notin All(pg) \ C
  BY HoldsFacts, OutcomeSteps, SMTT(30) DEF Holds
<1>2. slot.val = v /\ Hidden(slot) /\ ~Overflow(slot) /\ LengthValid(slot)
  BY Written
<1>3. /\ Link(z) \in SlotType /\ Link(z).kind # "deleted" /\ Link(z).val = z
      /\ ~Hidden(Link(z)) /\ Overflow(Link(z)) /\ LengthValid(Link(z))
  BY Written
<1>4. Put(pg, stored, t, z, slot)
  OBVIOUS
<1> HIDE DEF slot
<1>5. Outcome(pg, stored, t, C, C \union {z})
  BY <1>1, <1>4, OutcomeSteps
<1>6. l \in All(stored) /\ stored[l[1]].owner = t /\ At(stored, z) = slot /\ z \in All(stored)
  BY <1>1, <1>4 DEF Put, Same
<1>7. Sound(mid) /\ Put(stored, mid, t, l, Link(z))
  BY <1>3, <1>6, PutAt
<1>8. after = IF Overflow(At(pg, l)) THEN RemoveAt(mid, y) ELSE mid
  BY DEF Dropped
<1> HIDE DEF mid, y
<1>9. Outcome(pg, mid, t, C, (C \union {z}) \union {l})
  BY <1>1, <1>5, <1>7, OutcomeSteps
<1>10. At(mid, l) = Link(z) /\ At(mid, z) = slot /\ l \in All(mid) /\ z \in All(mid)
  BY <1>1, <1>6, <1>7 DEF Put, Same
<1>11. Sound(after) /\ Outcome(pg, after, t, C, {l, z}) /\ At(after, l) = Link(z) /\ At(after, z) = slot
  <2>1. CASE ~Overflow(At(pg, l))
    <3>1. (C \union {z}) \union {l} = {l, z} /\ after = mid
      BY <1>8, <2>1, HoldsFacts
    <3> QED
      BY <1>7, <1>9, <1>10, <3>1
  <2>2. CASE Overflow(At(pg, l))
    <3>1. /\ C = {l, y} /\ l # y /\ y \in All(pg) /\ after = RemoveAt(mid, y) /\ y \notin All(pg) \ C
          /\ y # z
      BY <1>8, <2>2, HoldsFacts DEF y
    <3>2. y \in All(mid)
      BY <1>4, <1>7, <3>1 DEF Put
    <3>3. Sound(after) /\ Cut(mid, after, y)
      BY <1>7, <3>1, <3>2, CutAt
    <3>4. Outcome(pg, after, t, C, ((C \union {z}) \union {l}) \ {y})
      BY <1>1, <1>9, <3>1, <3>3, OutcomeSteps
    <3>5. ((C \union {z}) \union {l}) \ {y} = {l, z}
      BY <3>1
    <3>6. At(after, l) = Link(z) /\ At(after, z) = slot
      BY <1>10, <3>1, <3>3 DEF Cut, Same
    <3> QED
      BY <3>3, <3>4, <3>5, <3>6
  <2> QED
    BY <2>1, <2>2
<1>12. Target(after, l) = z
  BY <1>3, <1>11 DEF Target
<1>13. IsRow(after, {l, z}, l)
  BY <1>2, <1>3, <1>11, <1>12 DEF IsRow
<1>14. Value(after, l) = v
  BY <1>2, <1>11, <1>13, RowValue
<1> QED
  BY <1>1, <1>11, <1>13, <1>14 DEF RowStep

\* A page that is free has no rows.
LEMMA FreePage ==
  ASSUME AInv, NEW p \in global
  PROVE  p \in PageNumbers /\ (p \in DOMAIN pages => LiveSlots(pages[p]) = {})
<1>1. Sound(pages)
  BY Accepted DEF AInv
<1>2. p \in DOMAIN pages => pages[p].tag = "released"
  BY DEF AInv, IInv, MapsPartition, MapsAccepted
<1> QED
  BY <1>1, <1>2 DEF AInv, IInv, TypeInv, Sound, PageSound

\* The record an insertion or a relocation writes, on a page with room or of its own.
Stored(t, slot, p, after) ==
  \/ /\ p \in DOMAIN pages /\ p \in owned[t] /\ AppendFits(pages[p], slot.len)
     /\ Appends(pages, after, p, slot)
  \/ p \in global /\ IsPlaced(p, NewPage(t, slot), after)

\* It is at a locator that was free.
LEMMA StoredAt ==
  ASSUME AInv, NEW t \in Tables, NEW slot \in SlotType, slot.kind # "deleted", NEW p, NEW after,
         Stored(t, slot, p, after), NEW z, z = <<p, Len(after[p].slots)>>
  PROVE  Sound(after) /\ Put(pages, after, t, z, slot) /\ z \in Locators /\ z \notin All(pages)
<1>1. Sound(pages)
  BY Accepted DEF AInv
<1>2. CASE /\ p \in DOMAIN pages /\ p \in owned[t] /\ AppendFits(pages[p], slot.len)
           /\ Appends(pages, after, p, slot)
  <2>1. p \in PageNumbers /\ pages[p].owner = t
    BY <1>2 DEF AInv, IInv, TypeInv, MapsPartition, MapsAccepted
  <2>2. PICK l : l = <<p, Len(pages[p].slots) + 1>>
    OBVIOUS
  <2>3. /\ Sound(after) /\ Put(pages, after, pages[p].owner, l, slot)
        /\ l \in Locators /\ l \notin All(pages) /\ l = <<p, Len(after[p].slots)>>
    BY <1>1, <1>2, <2>1, <2>2, AppendAt
  <2> QED
    BY <2>1, <2>3
<1>3. CASE p \in global /\ IsPlaced(p, NewPage(t, slot), after)
  <2>1. p \in PageNumbers /\ Vacant(pages, p)
    BY <1>3, FreePage DEF Vacant
  <2>2. Places(pages, after, p, NewPage(t, slot))
    BY <1>3 DEF IsPlaced, Places
  <2> QED
    BY <1>1, <2>1, <2>2, PlaceNewAt
<1> QED
  BY <1>2, <1>3 DEF Stored

\* An insertion stores one row.
LEMMA InsertStep ==
  ASSUME AInv, NEW t \in Tables, NEW v \in Values, NEW n \in Lens[v], Insert(t, v, n)
  PROVE  /\ Sound(pages')
         /\ \E y \in Locators : /\ y \notin All(pages) /\ RowStep(pages, pages', t, {}, {y})
                                /\ Value(pages', y) = v
<1> DEFINE slot == Ordinary(v, n)
<1>1. slot \in SlotType /\ slot.kind # "deleted" /\ IInv
  BY Written DEF AInv
<1>2. InsertIntoAvailable(t, slot) \/ InsertIntoNewPage(t, slot)
  BY DEF Insert
<1> HIDE DEF slot
<1>3. \E p : Stored(t, slot, p, pages')
  <2>1. CASE InsertIntoAvailable(t, slot)
    <3> DEFINE p == Lowest(Candidates(t, {}, slot.len))
    <3>1. p \in Candidates(t, {}, slot.len) /\ p \in DOMAIN pages /\ p \in owned[t]
      BY <1>1, <2>1, CandidateOwned DEF InsertIntoAvailable
    <3>2. pages' = [pages EXCEPT ![p] = AppendRow(@, slot)]
      BY <2>1 DEF InsertIntoAvailable, Stage
    <3> HIDE DEF p
    <3>3. AppendFits(pages[p], slot.len)
      BY <3>1 DEF Candidates
    <3> QED
      BY <3>1, <3>2, <3>3 DEF Stored, Appends
  <2>2. CASE InsertIntoNewPage(t, slot)
    <3> DEFINE p == NewRowPage(t)
    <3>1. NewPage(t, slot) \in PageType
      BY <1>1, PageForm
    <3>2. IsPlaced(p, NewPage(t, slot), Place(pages, p, NewPage(t, slot)))
      BY <1>1, <3>1, Placed
    <3>3. p \in global /\ pages' = Place(pages, p, NewPage(t, slot))
      BY <2>2 DEF InsertIntoNewPage, Stage, MayAllocate
    <3> HIDE DEF p
    <3> QED
      BY <3>2, <3>3 DEF Stored
  <2> QED
    BY <1>2, <2>1, <2>2
<1>4. PICK p : Stored(t, slot, p, pages')
  BY <1>3
<1>5. PICK y : y = <<p, Len(pages'[p].slots)>>
  OBVIOUS
<1>6. Sound(pages') /\ Put(pages, pages', t, y, slot) /\ y \in Locators /\ y \notin All(pages)
  BY <1>1, <1>4, <1>5, StoredAt
<1>7. RowStep(pages, pages', t, {}, {y}) /\ Value(pages', y) = v
  BY <1>6, NewRow DEF slot
<1> QED
  BY <1>6, <1>7

\* The records of the row an operation names.
ChainSet(l) == IF Overflow(At(pages, l)) THEN {l, Target(pages, l)} ELSE {l}

\* The chain of an edited row is one or two records of its table.
LEMMA ChainHolds ==
  ASSUME AInv, NEW t \in Tables, NEW l \in Visible(pages, owned[t]), ~MultiHop(l)
  PROVE  /\ Holds(pages, t, l, ChainSet(l)) /\ GraphLoads(pages, owned[t], count[t])
         /\ IF Overflow(At(pages, l))
              THEN /\ Len(Chain(l)) = 2 /\ Chain(l)[1] = l /\ Chain(l)[2] = Target(pages, l)
                   /\ Chain(l)[Len(Chain(l))] = Target(pages, l)
              ELSE Len(Chain(l)) = 1 /\ Chain(l)[1] = l /\ Chain(l)[Len(Chain(l))] = l
<1>1. Sound(pages)
  BY Accepted DEF AInv
<1>2. Holds(pages, t, l, ChainSet(l))
  BY <1>1, ChainRow DEF Holds, ChainSet
<1>3. GraphLoads(pages, owned[t], count[t])
  BY DEF AInv, NextCallAccepts, FileAccepted
<1> QED
  BY <1>2, <1>3 DEF Chain

\* A deletion takes one row.
LEMMA DeleteStep ==
  ASSUME AInv, NEW t \in Tables, NEW l \in Visible(pages, owned[t]), Delete(t, l)
  PROVE  Sound(pages') /\ RowStep(pages, pages', t, {l}, {})
<1>1. ~MultiHop(l)
  BY DEF Delete
<1>2. Holds(pages, t, l, ChainSet(l))
  BY <1>1, ChainHolds
<1>3. pages' = IF Overflow(At(pages, l)) THEN RemoveAt(RemoveAt(pages, Target(pages, l)), l) ELSE RemoveAt(pages, l)
  BY <1>1, ChainHolds DEF Delete, Stage
<1> QED
  BY <1>2, <1>3, DropRow

\* A patched field changes one row.
LEMMA PatchedStep ==
  ASSUME AInv, NEW t \in Tables, NEW l \in Visible(pages, owned[t]), NEW v \in Values, PatchField(t, l, v)
  PROVE  Sound(pages') /\ RowStep(pages, pages', t, {l}, {l}) /\ Value(pages', l) = v
<1>1. ~MultiHop(l)
  BY DEF PatchField
<1>2. Holds(pages, t, l, ChainSet(l)) /\ Sound(pages) /\ GraphLoads(pages, owned[t], count[t])
  BY <1>1, ChainHolds DEF Holds
<1> DEFINE e == Chain(l)[Len(Chain(l))]
           slot == [At(pages, e) EXCEPT !.val = v]
<1>3. /\ e = IF Overflow(At(pages, l)) THEN Target(pages, l) ELSE l
  BY <1>1, ChainHolds
<1>4. e \in All(pages) /\ pages[e[1]].owner = t /\ e \in ChainSet(l)
  BY <1>2, <1>3, HoldsFacts
<1>5. At(pages, e).kind # "deleted" /\ ~Overflow(At(pages, e))
  BY <1>1, <1>2, ChainEnd
<1>6. Patches(pages, pages', e, v)
  BY DEF PatchField, Patches
<1>a. LengthValid(At(pages, e)) /\ (e # l => Hidden(At(pages, e))) /\ ~Hidden(At(pages, l))
  BY <1>2, <1>4, RowWalk DEF Holds, IsRow
<1> HIDE DEF e
<1>7. At(pages, e) \in SlotType
  <2>1. e[1] \in DOMAIN pages /\ e[2] \in DOMAIN pages[e[1]].slots /\ pages \in Seq(PageType)
    BY <1>2, <1>4 DEF All, LiveSlots, Sound
  <2>2. pages[e[1]] \in PageType
    BY <2>1
  <2>3. pages[e[1]].slots \in Seq(SlotType)
    BY <2>2 DEF PageType
  <2> QED
    BY <2>1, <2>3 DEF At
<1>8. slot \in SlotType
  BY <1>5, <1>7, SlotFacts
<1>9. slot.kind = At(pages, e).kind /\ slot.len = At(pages, e).len /\ slot.val = v
  <2>1. \A s \in SlotType : LET w == [s EXCEPT !.val = v] IN w.kind = s.kind /\ w.len = s.len /\ w.val = v
    BY DEF SlotType, Tombstone, Slot
  <2> QED
    BY <1>7, <2>1
<1>10. Sound(pages') /\ Put(pages, pages', t, e, slot)
  BY <1>2, <1>4, <1>5, <1>6, <1>8, <1>9, PatchAt
<1> HIDE DEF slot
<1>11. /\ slot.kind # "deleted" /\ ~Overflow(slot) /\ LengthValid(slot)
       /\ Hidden(slot) <=> Hidden(At(pages, e))
  BY <1>5, <1>9, <1>a DEF Overflow, Hidden, LengthValid
<1>12. CASE Overflow(At(pages, l))
  <2>1. e = Target(pages, l) /\ e # l
    BY <1>2, <1>3, <1>12, HoldsFacts
  <2> QED
    BY <1>2, <1>9, <1>10, <1>11, <1>12, <1>a, <2>1, StorageRow
<1>13. CASE ~Overflow(At(pages, l))
  <2>1. e = l /\ ChainSet(l) = {l} /\ l \in Of(pages, t) /\ {l} \subseteq Of(pages, t) /\ l \in All(pages)
    BY <1>2, <1>3, <1>4, <1>13, HoldsFacts
  <2>2. Outcome(pages, pages, t, {l}, {l})
    BY <2>1, OutcomeSteps
  <2>3. Outcome(pages, pages', t, {l}, {l} \union {l})
    BY <1>10, <2>1, <2>2, OutcomeSteps
  <2>4. At(pages', l) = slot
    BY <1>10, <2>1 DEF Put
  <2>5. IsRow(pages', {l}, l) /\ Value(pages', l) = v
    BY <1>9, <1>11, <1>a, <2>1, <2>4 DEF IsRow, Value
  <2>6. IsRow(pages, {l}, l)
    BY <1>2, <2>1 DEF Holds
  <2>7. RowStep(pages, pages', t, {l}, {l})
    BY <2>1, <2>3, <2>5, <2>6 DEF RowStep
  <2> QED
    BY <1>10, <2>5, <2>7
<1> QED
  BY <1>12, <1>13

\* A relocated row is written elsewhere and its logical slot names the place.
LEMMA RelocateStep ==
  ASSUME AInv, NEW t \in Tables, NEW l \in Visible(pages, owned[t]), NEW v \in Values, NEW n \in Lens[v],
         ~MultiHop(l), NEW chain, chain = Chain(l), Relocate(t, chain, v, n)
  PROVE  Sound(pages') /\ RowStep(pages, pages', t, {l}, {l}) /\ Value(pages', l) = v
<1> DEFINE own == {chain[i][1] : i \in DOMAIN chain}
           open == Candidates(t, own, n)
           slot == Storage(v, n)
           p == IF open # {} THEN Lowest(open) ELSE NewRowPage(t)
           stored == IF open # {} THEN [pages EXCEPT ![p] = AppendRow(@, slot)]
                                  ELSE Place(pages, p, NewPage(t, slot))
           z == <<p, Len(stored[p].slots)>>
<1>1. slot \in SlotType /\ slot.kind # "deleted" /\ slot.len = n /\ IInv
  BY Written DEF AInv
<1>2. pages' = LinkTo(stored, chain, z)
  BY DEF Relocate, Stage
<1>3. Stored(t, slot, p, stored)
  <2>1. CASE open # {}
    <3>1. p \in open /\ p \in DOMAIN pages /\ p \in owned[t]
      BY <1>1, <2>1, CandidateOwned
    <3>2. Appends(pages, stored, p, slot)
      BY <2>1 DEF Appends
    <3>3. AppendFits(pages[p], slot.len)
      BY <1>1, <3>1 DEF Candidates
    <3> HIDE DEF p, stored, open, slot
    <3> QED
      BY <3>1, <3>2, <3>3 DEF Stored
  <2>2. CASE open = {}
    <3>1. p = NewRowPage(t) /\ stored = Place(pages, p, NewPage(t, slot))
      BY <2>2
    <3>2. p \in global
      BY <2>2 DEF Relocate, Stage, MayAllocate
    <3> HIDE DEF p, stored, open, slot
    <3>3. NewPage(t, slot) \in PageType
      BY <1>1, PageForm
    <3>4. IsPlaced(p, NewPage(t, slot), stored)
      BY <1>1, <3>1, <3>3, Placed
    <3> QED
      BY <3>2, <3>4 DEF Stored
  <2> QED
    BY <2>1, <2>2
<1> HIDE DEF p, stored, open
<1>4. Sound(stored) /\ Put(pages, stored, t, z, slot) /\ z \in Locators /\ z \notin All(pages)
  <2> HIDE DEF slot
  <2>1. PICK y : y = z
    OBVIOUS
  <2>2. Sound(stored) /\ Put(pages, stored, t, y, slot) /\ y \in Locators /\ y \notin All(pages)
    BY <1>1, <1>3, <2>1, StoredAt
  <2> QED
    BY <2>1, <2>2
<1> HIDE DEF z
<1>5. Holds(pages, t, l, ChainSet(l))
  BY ChainHolds
<1>6. pages' = Dropped(ReplaceAt(stored, l, Link(z)), pages, l)
  BY <1>2, ChainHolds DEF LinkTo, DropStorage, Dropped
<1> QED
  BY <1>4, <1>5, <1>6, MoveRow

\* A replacement gives one row its new value.
LEMMA ReplaceStep ==
  ASSUME AInv, NEW t \in Tables, NEW l \in Visible(pages, owned[t]), NEW v \in Values, NEW n \in Lens[v],
         Replace(t, l, v, n)
  PROVE  Sound(pages') /\ RowStep(pages, pages', t, {l}, {l}) /\ Value(pages', l) = v
<1> DEFINE chain == Chain(l)
<1>1. ~MultiHop(l)
  BY DEF Replace
<1>2. Holds(pages, t, l, ChainSet(l)) /\ Sound(pages)
  BY <1>1, ChainHolds DEF Holds
<1>3. \/ CollapseIntoLogical(t, chain, v, n)
      \/ ResizeStorage(t, chain, v, n)
      \/ Relocate(t, chain, v, n)
  BY DEF Replace
<1>4. CASE CollapseIntoLogical(t, chain, v, n)
  <2>1. pages' = DropStorage(ReplaceAt(pages, chain[1], Ordinary(v, n)), chain)
    BY <1>4 DEF CollapseIntoLogical, Stage
  <2>2. pages' = Dropped(ReplaceAt(pages, l, Ordinary(v, n)), pages, l)
    BY <1>1, <2>1, ChainHolds DEF DropStorage, Dropped
  <2> QED
    BY <1>2, <2>2, CollapseRow
<1>5. CASE ResizeStorage(t, chain, v, n)
  <2>1. Overflow(At(pages, l)) /\ pages' = ReplaceAt(pages, Target(pages, l), Storage(v, n))
    BY <1>1, <1>5, ChainHolds DEF ResizeStorage, Stage
  <2> DEFINE slot == Storage(v, n)
             y == Target(pages, l)
  <2>2. /\ slot \in SlotType /\ slot.kind # "deleted" /\ slot.val = v
        /\ Hidden(slot) /\ ~Overflow(slot) /\ LengthValid(slot)
    BY Written
  <2>3. y \in All(pages) /\ pages[y[1]].owner = t
    BY <1>2, <2>1, HoldsFacts
  <2>4. Sound(pages') /\ Put(pages, pages', t, y, slot)
    <3> HIDE DEF slot
    <3> QED
      BY <1>2, <2>1, <2>2, <2>3, PutAt DEF slot
  <2> HIDE DEF slot
  <2> QED
    BY <1>2, <2>1, <2>2, <2>4, StorageRow
<1>6. CASE Relocate(t, chain, v, n)
  BY <1>1, <1>6, RelocateStep
<1> QED
  BY <1>3, <1>4, <1>5, <1>6

-----------------------------------------------------------------------------
(* The next call accepts the file. *)

\* A step of the rows of t that stores their number.
Counted(t, gone, come) ==
  /\ Sound(pages') /\ RowStep(pages, pages', t, gone, come)
  /\ count' \in [Tables -> Nat] /\ count'[t] = Cardinality((Seen(pages, t) \ gone) \union come)
  /\ \A u \in Tables \ {t} : count'[u] = count[u]

\* The rows of a table and their number.
LEMMA SeenCount ==
  ASSUME NEW pg, NEW t
  PROVE  /\ Seen(pg, t) \in SUBSET Locators /\ Cardinality(Seen(pg, t)) \in Nat
         /\ \A y \in Locators : y \notin All(pg) =>
              /\ y \notin Seen(pg, t)
              /\ Cardinality((Seen(pg, t) \ {}) \union {y}) = Cardinality(Seen(pg, t)) + 1
         /\ \A l \in Seen(pg, t) :
              /\ Cardinality((Seen(pg, t) \ {l}) \union {}) = Cardinality(Seen(pg, t)) - 1
              /\ Cardinality((Seen(pg, t) \ {l}) \union {}) \in Nat
              /\ Cardinality((Seen(pg, t) \ {l}) \union {l}) = Cardinality(Seen(pg, t))
<1> DEFINE V == Seen(pg, t)
<1>1. V \subseteq All(pg) /\ V \in SUBSET Locators
  BY DEF Seen, Shown, Of, All
<1>2. IsFiniteSet(V) /\ Cardinality(V) \in Nat
  BY <1>1, LocatorsFinite
<1>3. ASSUME NEW y \in Locators, y \notin All(pg)
      PROVE  y \notin V /\ Cardinality((V \ {}) \union {y}) = Cardinality(V) + 1
  <2>1. y \notin V /\ V \ {} = V
    BY <1>1, <1>3
  <2> HIDE DEF V
  <2> QED
    BY <1>2, <2>1, FS_AddElement
<1>4. ASSUME NEW l \in V
      PROVE  /\ Cardinality((V \ {l}) \union {}) = Cardinality(V) - 1
             /\ Cardinality((V \ {l}) \union {}) \in Nat
             /\ Cardinality((V \ {l}) \union {l}) = Cardinality(V)
  <2>1. (V \ {l}) \union {} = V \ {l} /\ (V \ {l}) \union {l} = V
    BY <1>4
  <2>2. V \ {l} \in SUBSET Locators
    BY <1>1
  <2> HIDE DEF V
  <2>3. Cardinality(V \ {l}) = Cardinality(V) - 1 /\ Cardinality(V \ {l}) \in Nat
    BY <1>2, <1>4, <2>2, FS_RemoveElement, LocatorsFinite
  <2> QED
    BY <2>1, <2>3
<1> QED
  BY <1>1, <1>2, <1>3, <1>4

\* The visible records are the rows seen.
LEMMA VisibleSeen ==
  ASSUME AInv, NEW t \in Tables
  PROVE  Visible(pages, owned[t]) = Seen(pages, t)
BY Accepted, RecordsOf DEF AInv, IInv, TypeInv, MapsPartition, Seen

\* Each operation is a step of the rows of its table, with the count it stores.
LEMMA NextCounted ==
  ASSUME AInv, Next
  PROVE  \E t \in Tables :
           \/ \E v \in Values : \E y \in Locators :
                /\ Counted(t, {}, {y}) /\ y \notin All(pages) /\ Value(pages', y) = v
                /\ call' = [op |-> "insert", table |-> t, value |-> v]
           \/ \E l \in Seen(pages, t) :
                Counted(t, {l}, {}) /\ call' = [op |-> "delete", table |-> t, at |-> l]
           \/ \E l \in Seen(pages, t) : \E v \in Values :
                /\ Counted(t, {l}, {l}) /\ Value(pages', l) = v
                /\ call' = [op |-> "replace", table |-> t, at |-> l, value |-> v]
<1>1. PICK t \in Tables : Operation(t)
  BY DEF Next
<1>2. Visible(pages, owned[t]) = Seen(pages, t)
  BY VisibleSeen
<1>3. /\ count \in [Tables -> Nat] /\ count[t] = Cardinality(Seen(pages, t))
  BY Accepted DEF AInv
<1>4. \/ \E v \in Values : \E n \in Lens[v] : Insert(t, v, n)
      \/ \E l \in Seen(pages, t) :
           \/ Delete(t, l)
           \/ \E v \in Values : \E n \in Lens[v] : Replace(t, l, v, n)
           \/ \E v \in Values : PatchField(t, l, v)
  BY <1>1, <1>2 DEF Operation
<1>5. ASSUME NEW v \in Values, NEW n \in Lens[v], Insert(t, v, n)
      PROVE  \E y \in Locators :
                /\ Counted(t, {}, {y}) /\ y \notin All(pages) /\ Value(pages', y) = v
                /\ call' = [op |-> "insert", table |-> t, value |-> v]
  <2>1. Sound(pages') /\ \E y \in Locators : /\ y \notin All(pages) /\ RowStep(pages, pages', t, {}, {y})
                                             /\ Value(pages', y) = v
    BY <1>5, InsertStep
  <2>2. PICK y \in Locators : y \notin All(pages) /\ RowStep(pages, pages', t, {}, {y}) /\ Value(pages', y) = v
    BY <2>1
  <2>3. count' = [count EXCEPT ![t] = @ + 1] /\ call' = [op |-> "insert", table |-> t, value |-> v]
    BY <1>5 DEF Insert
  <2>4. count' \in [Tables -> Nat] /\ count'[t] = count[t] + 1 /\ \A u \in Tables \ {t} : count'[u] = count[u]
    BY <1>3, <2>3
  <2>5. count'[t] = Cardinality((Seen(pages, t) \ {}) \union {y})
    BY <1>3, <2>2, <2>4, SeenCount
  <2> QED
    BY <2>1, <2>2, <2>3, <2>4, <2>5 DEF Counted
<1>6. ASSUME NEW l \in Seen(pages, t), Delete(t, l)
      PROVE  Counted(t, {l}, {}) /\ call' = [op |-> "delete", table |-> t, at |-> l]
  <2>1. Sound(pages') /\ RowStep(pages, pages', t, {l}, {})
    BY <1>2, <1>6, DeleteStep
  <2>2. count' = [count EXCEPT ![t] = @ - 1] /\ call' = [op |-> "delete", table |-> t, at |-> l]
    BY <1>6 DEF Delete
  <2>3. count'[t] = count[t] - 1 /\ \A u \in Tables \ {t} : count'[u] = count[u]
    BY <1>3, <2>2
  <2>4. count'[t] = Cardinality((Seen(pages, t) \ {l}) \union {}) /\ count[t] - 1 \in Nat
    BY <1>3, <2>3, SeenCount
  <2>5. count' \in [Tables -> Nat]
    BY <1>3, <2>2, <2>4
  <2> QED
    BY <2>1, <2>2, <2>3, <2>4, <2>5 DEF Counted
<1>7. ASSUME NEW l \in Seen(pages, t), NEW v \in Values, RowStep(pages, pages', t, {l}, {l}),
             Sound(pages'), UNCHANGED count
      PROVE  Counted(t, {l}, {l})
  <2>1. count'[t] = Cardinality((Seen(pages, t) \ {l}) \union {l})
    BY <1>3, <1>7, SeenCount
  <2> QED
    BY <1>3, <1>7, <2>1 DEF Counted
<1>8. ASSUME NEW l \in Seen(pages, t), NEW v \in Values, NEW n \in Lens[v], Replace(t, l, v, n)
      PROVE  /\ Counted(t, {l}, {l}) /\ Value(pages', l) = v
             /\ call' = [op |-> "replace", table |-> t, at |-> l, value |-> v]
  <2>1. Sound(pages') /\ RowStep(pages, pages', t, {l}, {l}) /\ Value(pages', l) = v
    BY <1>2, <1>8, ReplaceStep
  <2>2. UNCHANGED count /\ call' = [op |-> "replace", table |-> t, at |-> l, value |-> v]
    BY <1>8 DEF Replace
  <2> QED
    BY <1>7, <2>1, <2>2
<1>9. ASSUME NEW l \in Seen(pages, t), NEW v \in Values, PatchField(t, l, v)
      PROVE  /\ Counted(t, {l}, {l}) /\ Value(pages', l) = v
             /\ call' = [op |-> "replace", table |-> t, at |-> l, value |-> v]
  <2>1. Sound(pages') /\ RowStep(pages, pages', t, {l}, {l}) /\ Value(pages', l) = v
    BY <1>2, <1>9, PatchedStep
  <2>2. UNCHANGED count /\ call' = [op |-> "replace", table |-> t, at |-> l, value |-> v]
    BY <1>9 DEF PatchField
  <2> QED
    BY <1>7, <2>1, <2>2
<1> QED
  BY <1>1, <1>4, <1>5, <1>6, <1>8, <1>9

\* A counted step leads to a file every loader accepts.
LEMMA CountedAccepts ==
  ASSUME AInv, IInv', NEW t \in Tables, NEW gone, NEW come, Counted(t, gone, come)
  PROVE  AInv'
<1>1. \A u \in Tables : Loads(pages, Of(pages, u)) /\ count[u] = Cardinality(Seen(pages, u))
  BY Accepted
<1>2. /\ \A u \in Tables : Loads(pages', Of(pages', u))
      /\ Seen(pages', t) = (Seen(pages, t) \ gone) \union come
      /\ \A u \in Tables \ {t} : Seen(pages', u) = Seen(pages, u)
  BY <1>1, RowStepSeen DEF Counted
<1>3. \A u \in Tables : count'[u] = Cardinality(Seen(pages', u))
  BY <1>1, <1>2 DEF Counted
<1>4. /\ pages' \in Seq(PageType) /\ owned' \in [Tables -> SUBSET PageNumbers]
      /\ MapsAccepted(pages', global', owned', avail')
  BY DEF IInv, TypeInv, MapsPartition
<1>5. Sound(pages') /\ count' \in [Tables -> Nat]
  BY DEF Counted
<1>6. FileAccepted(pages', owned', count')
  BY <1>2, <1>3, <1>4, <1>5, AcceptedIs
<1> QED
  BY <1>5, <1>6 DEF AInv, NextCallAccepts

\* The files the library is given are accepted, and every step keeps it so.
LEMMA AcceptedInit == Init => AInv
<1> SUFFICES ASSUME Init PROVE AInv
  OBVIOUS
<1>1. PICK f \in Files : /\ pages = f.pages /\ global = f.global /\ owned = f.owned
                         /\ avail = f.avail /\ count = f.count
  BY DEF Init
<1>2. NextCallAccepts /\ count \in [Tables -> Nat]
  BY <1>1, FilesTyped, FilesAccepted DEF NextCallAccepts
<1> QED
  BY <1>2, InitInv DEF AInv

\* An operation keeps the file accepted, and so does a step that changes nothing.
LEMMA AcceptedPreserved == AInv /\ [Next]_vars => AInv'
<1> SUFFICES ASSUME AInv, [Next]_vars PROVE AInv'
  OBVIOUS
<1>1. CASE Next
  <2>1. IInv'
    BY <1>1, NextInv DEF AInv
  <2>2. \E t \in Tables : \E gone, come : Counted(t, gone, come)
    BY <1>1, NextCounted
  <2> QED
    BY <2>1, <2>2, CountedAccepts
<1>2. CASE UNCHANGED vars
  BY <1>2 DEF vars, file, AInv, IInv, TypeInv, MapsPartition, NextCallAccepts
<1> QED
  BY <1>1, <1>2

\* No sequence of inserts, replacements, patches and deletions, from any file the loaders
\* accept, leads to a file that RowGraph::load, packed or find_released_page refuses.
THEOREM EveryCallAccepts == Spec => []NextCallAccepts
<1>1. AInv => NextCallAccepts
  BY DEF AInv
<1> QED
  BY <1>1, AcceptedInit, AcceptedPreserved, PTL DEF Spec

-----------------------------------------------------------------------------
(* The row store implements TableRows. *)

Record(t, l, v) == [table |-> t, at |-> l, value |-> v]
RecordsAt(pg, t, S) == {Record(t, l, Value(pg, l)) : l \in S}
RowsIn(pg) == UNION {{Record(t, l, Value(pg, l)) : l \in Seen(pg, t)} : t \in Tables}

\* A row is one of one table, at its locator.
LEMMA RowsInIs ==
  ASSUME NEW pg
  PROVE  /\ \A r : r \in RowsIn(pg) <=> \E u \in Tables : \E l \in Seen(pg, u) : r = Record(u, l, Value(pg, l))
         /\ \A t, u \in Tables : \A l \in Seen(pg, t) : l \in Seen(pg, u) => t = u
         /\ \A t, u, l, m, v, w : Record(t, l, v) = Record(u, m, w) <=> t = u /\ l = m /\ v = w
         /\ \A t, l, v : Record(t, l, v).table = t /\ Record(t, l, v).at = l /\ Record(t, l, v).value = v
<1>1. \A r : r \in RowsIn(pg) <=> \E u \in Tables : \E l \in Seen(pg, u) : r = Record(u, l, Value(pg, l))
  BY DEF RowsIn
<1>2. \A t, u \in Tables : \A l \in Seen(pg, t) : l \in Seen(pg, u) => t = u
  BY DEF Seen, Shown, Of
<1>3. \A t, l, v : Record(t, l, v).table = t /\ Record(t, l, v).at = l /\ Record(t, l, v).value = v
  BY DEF Record
<1> QED
  BY <1>1, <1>2, <1>3

\* What a step of the rows of t does to the rows of the database.
LEMMA RowsChange ==
  ASSUME NEW pg, NEW after, NEW t \in Tables, NEW gone, NEW come, RowStep(pg, after, t, gone, come),
         \A u \in Tables : Loads(pg, Of(pg, u))
  PROVE  /\ gone \subseteq Seen(pg, t)
         /\ RowsIn(after) = (RowsIn(pg) \ RecordsAt(pg, t, gone)) \union RecordsAt(after, t, come)
<1> DEFINE Out == {Record(t, l, Value(pg, l)) : l \in gone}
           In == {Record(t, l, Value(after, l)) : l \in come}
<1>1. /\ Seen(after, t) = (Seen(pg, t) \ gone) \union come
      /\ gone \subseteq Seen(pg, t) /\ come \intersect (Seen(pg, t) \ gone) = {}
      /\ \A u \in Tables \ {t} : Seen(after, u) = Seen(pg, u)
      /\ \A u \in Tables : \A l \in Seen(pg, u) : l \notin gone => Value(after, l) = Value(pg, l)
  BY RowStepSeen
<1>2. \A u \in Tables \ {t} : \A l \in Seen(pg, u) : l \notin gone
  BY <1>1, RowsInIs
<1>3. ASSUME NEW r \in RowsIn(after) PROVE r \in (RowsIn(pg) \ Out) \union In
  <2>0. PICK u \in Tables : \E l \in Seen(after, u) : r = Record(u, l, Value(after, l))
    BY RowsInIs
  <2>1. PICK l \in Seen(after, u) : r = Record(u, l, Value(after, l))
    BY <2>0
  <2>2. CASE u = t /\ l \in come
    BY <2>1, <2>2
  <2>3. CASE l \in Seen(pg, u) /\ l \notin gone
    <3>1. r = Record(u, l, Value(pg, l)) /\ r \in RowsIn(pg)
      BY <1>1, <2>1, <2>3, RowsInIs
    <3>2. r \notin Out
      BY <2>3, <3>1, RowsInIs
    <3> QED
      BY <3>1, <3>2
  <2> QED
    BY <1>1, <1>2, <2>1, <2>2, <2>3
<1>4. ASSUME NEW r \in RowsIn(pg), r \notin Out PROVE r \in RowsIn(after)
  <2>0. PICK u \in Tables : \E l \in Seen(pg, u) : r = Record(u, l, Value(pg, l))
    BY RowsInIs
  <2>1. PICK l \in Seen(pg, u) : r = Record(u, l, Value(pg, l))
    BY <2>0
  <2>2. l \notin gone
    BY <1>2, <1>4, <2>1
  <2>3. l \in Seen(after, u) /\ Value(after, l) = Value(pg, l)
    BY <1>1, <2>1, <2>2
  <2> QED
    BY <2>1, <2>3, RowsInIs
<1>5. ASSUME NEW r \in In PROVE r \in RowsIn(after)
  <2>1. PICK l \in come : r = Record(t, l, Value(after, l))
    BY <1>5
  <2>2. l \in Seen(after, t)
    BY <1>1
  <2> QED
    BY <2>1, <2>2, RowsInIs
<1>6. Out = RecordsAt(pg, t, gone) /\ In = RecordsAt(after, t, come)
  BY DEF RecordsAt
<1> HIDE DEF Out, In
<1> QED
  BY <1>1, <1>3, <1>4, <1>5, <1>6

\* The rows of the refinement mapping.
LEMMA MappedRows ==
  ASSUME NEW pg, Sound(pg), NEW glob, NEW own \in [Tables -> SUBSET PageNumbers], NEW av,
         MapsAccepted(pg, glob, own, av)
  PROVE  UNION {{[table |-> t, at |-> l, value |-> Value(pg, l)] : l \in Visible(pg, own[t])} : t \in Tables} = RowsIn(pg)
<1>1. \A t \in Tables : Visible(pg, own[t]) = Seen(pg, t)
  BY RecordsOf DEF Seen
<1> QED
  BY <1>1 DEF RowsIn, Record

\* What a reader finds at the end of a walk is a value.
LEMMA SeenValues ==
  ASSUME NEW pg, Sound(pg), NEW t, Loads(pg, Of(pg, t)), NEW l \in Seen(pg, t)
  PROVE  l \in Locators /\ Value(pg, l) \in Values
<1>1. /\ Of(pg, t) \in SUBSET Locators /\ l \in Of(pg, t) /\ l \in Shown(pg, Of(pg, t)) /\ pg \in Seq(PageType)
  BY DEF Seen, Shown, Of, All, Sound
<1>2. ASSUME NEW e \in Of(pg, t), ~Overflow(At(pg, e)) PROVE At(pg, e).val \in Values
  <2>1. e[1] \in DOMAIN pg /\ e[2] \in DOMAIN pg[e[1]].slots /\ At(pg, e).kind # "deleted"
    BY <1>2 DEF Of, All, LiveSlots, At
  <2>2. pg[e[1]] \in PageType
    BY <1>1, <2>1
  <2>3. pg[e[1]].slots \in Seq(SlotType)
    BY <2>2 DEF PageType
  <2>4. At(pg, e) \in SlotType
    BY <2>1, <2>3 DEF At
  <2> QED
    BY <1>2, <2>1, <2>4, SlotFacts
<1>3. CASE ~Overflow(At(pg, l))
  BY <1>1, <1>2, <1>3 DEF Value
<1>4. CASE Overflow(At(pg, l))
  <2> DEFINE e == CHOOSE z \in Ends(pg, l) : TRUE
  <2>1. e \in Ends(pg, l) /\ e \in Of(pg, t)
    BY <1>1, WalkEnds
  <2>2. Value(pg, l) = At(pg, e).val
    BY <1>4 DEF Value
  <2> HIDE DEF e
  <2>3. ~Overflow(At(pg, e))
    BY <2>1 DEF Ends
  <2> QED
    BY <1>1, <1>2, <2>1, <2>2, <2>3
<1> QED
  BY <1>3, <1>4

\* Each row is a row of TableRows and has its locator for itself.
LEMMA RowsTyped ==
  ASSUME NEW pg, Sound(pg), \A u \in Tables : Loads(pg, Of(pg, u))
  PROVE  /\ RowsIn(pg) \subseteq [table : Tables, at : Locators, value : Values]
         /\ \A r, q \in RowsIn(pg) : r.at = q.at => r = q
<1>1. ASSUME NEW r \in RowsIn(pg) PROVE r \in [table : Tables, at : Locators, value : Values]
  <2>1. PICK u \in Tables : \E l \in Seen(pg, u) : r = Record(u, l, Value(pg, l))
    BY RowsInIs
  <2>2. PICK l \in Seen(pg, u) : r = Record(u, l, Value(pg, l))
    BY <2>1
  <2>3. l \in Locators /\ Value(pg, l) \in Values
    BY SeenValues
  <2> QED
    BY <2>2, <2>3 DEF Record
<1>2. ASSUME NEW r \in RowsIn(pg), NEW q \in RowsIn(pg), r.at = q.at PROVE r = q
  <2>1. PICK u \in Tables : \E l \in Seen(pg, u) : r = Record(u, l, Value(pg, l))
    BY RowsInIs
  <2>2. PICK l \in Seen(pg, u) : r = Record(u, l, Value(pg, l))
    BY <2>1
  <2>3. PICK w \in Tables : \E m \in Seen(pg, w) : q = Record(w, m, Value(pg, m))
    BY RowsInIs
  <2>4. PICK m \in Seen(pg, w) : q = Record(w, m, Value(pg, m))
    BY <2>3
  <2>5. l = m
    BY <1>2, <2>2, <2>4, RowsInIs
  <2>6. u = w
    BY <2>5, RowsInIs
  <2> QED
    BY <2>2, <2>4, <2>5, <2>6
<1> QED
  BY <1>1, <1>2

\* The rows TableRows is shown.
Shared == UNION {RowsOf(t) : t \in Tables}

\* They are the rows of the pages, before a step and after it.
LEMMA SharedRows ==
  /\ AInv => Shared = RowsIn(pages)
  /\ AInv' => Shared' = RowsIn(pages')
<1>1. AInv => Shared = RowsIn(pages)
  <2> SUFFICES ASSUME AInv PROVE Shared = RowsIn(pages)
    OBVIOUS
  <2>1. Sound(pages) /\ owned \in [Tables -> SUBSET PageNumbers] /\ MapsAccepted(pages, global, owned, avail)
    BY Accepted DEF AInv, IInv, TypeInv, MapsPartition
  <2>2. Shared = UNION {{[table |-> t, at |-> l, value |-> Value(pages, l)] : l \in Visible(pages, owned[t])} : t \in Tables}
    BY DEF Shared, RowsOf
  <2> QED
    BY <2>1, <2>2, MappedRows
<1>2. AInv' => Shared' = RowsIn(pages')
  <2> SUFFICES ASSUME AInv' PROVE Shared' = RowsIn(pages')
    OBVIOUS
  <2>1. /\ pages' \in Seq(PageType) /\ owned' \in [Tables -> SUBSET PageNumbers]
        /\ MapsAccepted(pages', global', owned', avail') /\ FileAccepted(pages', owned', count')
    BY DEF AInv, IInv, TypeInv, MapsPartition, NextCallAccepts
  <2>2. Sound(pages')
    BY <2>1, AcceptedIs
  <2>3. Shared' = UNION {{[table |-> t, at |-> l, value |-> Value(pages', l)] : l \in Visible(pages', owned'[t])} : t \in Tables}
    BY DEF Shared, RowsOf
  <2> QED
    BY <2>1, <2>2, <2>3, MappedRows
<1> QED
  BY <1>1, <1>2

\* A step is an operation of TableRows.
LEMMA StepRefines ==
  ASSUME AInv, AInv', Next
  PROVE  \/ \E r \in (Shared' \ Shared) \intersect [table : Tables, at : Locators, value : Values] :
              /\ call' = [op |-> "insert", table |-> r.table, value |-> r.value]
              /\ \A q \in Shared : q.at # r.at
              /\ Shared' = Shared \union {r}
         \/ \E r \in Shared :
              \/ call' = [op |-> "delete", table |-> r.table, at |-> r.at] /\ Shared' = Shared \ {r}
              \/ \E v \in Values :
                   /\ call' = [op |-> "replace", table |-> r.table, at |-> r.at, value |-> v]
                   /\ Shared' = (Shared \ {r}) \union {[r EXCEPT !.value = v]}
<1>1. /\ Shared = RowsIn(pages) /\ Shared' = RowsIn(pages')
      /\ \A u \in Tables : Loads(pages, Of(pages, u))
  BY SharedRows, Accepted
<1>2. PICK t \in Tables :
           \/ \E v \in Values : \E y \in Locators :
                /\ Counted(t, {}, {y}) /\ y \notin All(pages) /\ Value(pages', y) = v
                /\ call' = [op |-> "insert", table |-> t, value |-> v]
           \/ \E l \in Seen(pages, t) :
                Counted(t, {l}, {}) /\ call' = [op |-> "delete", table |-> t, at |-> l]
           \/ \E l \in Seen(pages, t) : \E v \in Values :
                /\ Counted(t, {l}, {l}) /\ Value(pages', l) = v
                /\ call' = [op |-> "replace", table |-> t, at |-> l, value |-> v]
  BY NextCounted
<1>3. ASSUME NEW gone, NEW come, Counted(t, gone, come)
      PROVE  Shared' = (Shared \ RecordsAt(pages, t, gone)) \union RecordsAt(pages', t, come)
  <2>1. RowStep(pages, pages', t, gone, come)
    BY <1>3 DEF Counted
  <2>2. RowsIn(pages') = (RowsIn(pages) \ RecordsAt(pages, t, gone)) \union RecordsAt(pages', t, come)
    BY <1>1, <2>1, RowsChange, Zenon
  <2> QED
    BY <1>1, <2>2, Zenon
<1>4. CASE \E v \in Values : \E y \in Locators :
                /\ Counted(t, {}, {y}) /\ y \notin All(pages) /\ Value(pages', y) = v
                /\ call' = [op |-> "insert", table |-> t, value |-> v]
  <2>1. PICK v \in Values, y \in Locators :
                /\ Counted(t, {}, {y}) /\ y \notin All(pages) /\ Value(pages', y) = v
                /\ call' = [op |-> "insert", table |-> t, value |-> v]
    BY <1>4
  <2> DEFINE r == Record(t, y, v)
  <2>2. Shared' = Shared \union {r}
    BY <1>3, <2>1 DEF RecordsAt
  <2>3. \A q \in Shared : q.at # y
    <3>1. \A u : \A l \in Seen(pages, u) : l \in All(pages)
      BY DEF Seen, Shown, Of
    <3> QED
      BY <1>1, <2>1, <3>1, RowsInIs
  <2>4. r.at = y /\ r.table = t /\ r.value = v /\ r \in [table : Tables, at : Locators, value : Values]
    BY DEF Record
  <2> HIDE DEF r
  <2>5. r \in (Shared' \ Shared) \intersect [table : Tables, at : Locators, value : Values]
    BY <2>2, <2>3, <2>4
  <2> QED
    BY <2>1, <2>2, <2>3, <2>4, <2>5
<1>5. CASE \E l \in Seen(pages, t) :
                Counted(t, {l}, {}) /\ call' = [op |-> "delete", table |-> t, at |-> l]
  <2>1. PICK l \in Seen(pages, t) :
                Counted(t, {l}, {}) /\ call' = [op |-> "delete", table |-> t, at |-> l]
    BY <1>5
  <2> DEFINE r == Record(t, l, Value(pages, l))
  <2>2. Shared' = Shared \ {r}
    BY <1>3, <2>1 DEF RecordsAt
  <2>3. r \in Shared /\ r.table = t /\ r.at = l
    BY <1>1, RowsInIs
  <2> HIDE DEF r
  <2> QED
    BY <2>1, <2>2, <2>3
<1>6. CASE \E l \in Seen(pages, t) : \E v \in Values :
                /\ Counted(t, {l}, {l}) /\ Value(pages', l) = v
                /\ call' = [op |-> "replace", table |-> t, at |-> l, value |-> v]
  <2>0. PICK l \in Seen(pages, t) : \E v \in Values :
                /\ Counted(t, {l}, {l}) /\ Value(pages', l) = v
                /\ call' = [op |-> "replace", table |-> t, at |-> l, value |-> v]
    BY <1>6
  <2>1. PICK v \in Values :
                /\ Counted(t, {l}, {l}) /\ Value(pages', l) = v
                /\ call' = [op |-> "replace", table |-> t, at |-> l, value |-> v]
    BY <2>0
  <2> DEFINE r == Record(t, l, Value(pages, l))
  <2>2. Shared' = (Shared \ {r}) \union {Record(t, l, v)}
    BY <1>3, <2>1 DEF RecordsAt
  <2>3. r \in Shared /\ r.table = t /\ r.at = l
    BY <1>1, RowsInIs
  <2>4. [r EXCEPT !.value = v] = Record(t, l, v)
    BY DEF Record
  <2> HIDE DEF r
  <2> QED
    BY <2>1, <2>2, <2>3, <2>4
<1> QED
  BY <1>2, <1>4, <1>5, <1>6

\* Whatever the files, the row store promises what TableRows says: rows are inserted under
\* free locators, replaced under their own and deleted, and no other row changes.
THEOREM RowStoreImplementsTableRows == Spec => ImplementsTableRows
<1>1. Init => Abstract!Init
  <2> SUFFICES ASSUME Init PROVE Abstract!Init
    OBVIOUS
  <2>1. AInv
    BY AcceptedInit
  <2>2. Shared = RowsIn(pages) /\ Sound(pages) /\ \A u \in Tables : Loads(pages, Of(pages, u))
    BY <2>1, SharedRows, Accepted
  <2>3. /\ Shared \subseteq [table : Tables, at : Locators, value : Values]
        /\ \A r, q \in Shared : r.at = q.at => r = q
    BY <2>2, RowsTyped
  <2>4. call = [op |-> "none"]
    BY DEF Init
  <2> QED
    BY <2>3, <2>4 DEF Abstract!Init, Abstract!Row, Shared
<1>2. AInv /\ AInv' /\ [Next]_vars => [Abstract!Next]_<<Shared, call>>
  <2> SUFFICES ASSUME AInv, AInv', [Next]_vars PROVE [Abstract!Next]_<<Shared, call>>
    OBVIOUS
  <2>1. CASE Next
    <3>1. Abstract!Next
      BY <2>1, StepRefines DEF Abstract!Next, Abstract!Insert, Abstract!Delete, Abstract!Replace, Abstract!Row, Shared
    <3> QED
      BY <3>1
  <2>2. CASE UNCHANGED vars
    BY <2>2 DEF vars, file, Shared, RowsOf
  <2> QED
    BY <2>1, <2>2
<1>3. AInv /\ AInv' /\ [Next]_vars => [Abstract!Next]_<<UNION {RowsOf(t) : t \in Tables}, call>>
  BY <1>2 DEF Shared
<1> QED
  BY <1>1, <1>3, AcceptedInit, AcceptedPreserved, PTL DEF Spec, ImplementsTableRows, Abstract!Spec
=============================================================================
