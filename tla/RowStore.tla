------------------------------ MODULE RowStore ------------------------------
(***************************************************************************)
(* Where the rows of the user tables live: insert, replace, update and     *)
(* delete choose pages and slots, move rows between a logical slot and     *)
(* hidden overflow storage, release empty pages and take them back, and    *)
(* keep the allocation maps and the stored row counts in step.             *)
(*                                                                         *)
(* One action is one published plan: the plan is computed from the opened  *)
(* file and AtomicPublish replaces the file by its result or leaves it     *)
(* alone, so a refused or failed call is a stuttering step here.           *)
(* Pages are numbered from 1 in the order of the file; only row data pages *)
(* are represented.  Slots are numbered from 1.                            *)
(***************************************************************************)
EXTENDS DataPage, Integers

CONSTANTS Tables,
          Values,        \* what a row can hold
          Lens,          \* value -> the encoded lengths of rows with it
          MinimumLen,    \* minimum_row: the length of the all-null row
          MaxChainDepth, \* links the budget lets a walk follow
          MaxPages,      \* pages a 24-bit reference can name
          Files          \* the files the library may be given

\* No row is encoded in nothing, a page can hold one, and a link may be followed.
ASSUME StoreAssumption ==
  /\ MaxPages \in Nat /\ MaxBuiltRows # 0 /\ MaxChainDepth \in Nat \ {0}
  /\ \A v \in Values : Lens[v] \subseteq Nat \ {0}

VARIABLES pages,    \* the row data pages, in file order
          global,   \* the global map: pages that are free
          owned,    \* table -> pages of its owned map
          avail,    \* table -> pages of its available map
          count,    \* table -> the row count its definition stores
          call      \* the last call, for the comparison with TableRows

file == <<pages, global, owned, avail, count>>
vars == <<file, call>>

PageNumbers == 1 .. MaxPages
Locators == PageNumbers \X (1 .. MaxBuiltRows)
Lowest(S) == CHOOSE p \in S : \A q \in S : p <= q

Ordinary(v, n) == Slot("ordinary", n, v)
Storage(v, n) == Slot("storage", n, v)
Link(target) == Slot("link", PointerLen, target)

At(pg, l) == pg[l[1]].slots[l[2]]

-----------------------------------------------------------------------------
(* RowGraph::load. *)

\* The records of the table whose owned map is own.
Records(pg, own) ==
  {l \in Locators : l[1] \in own /\ l[2] \in LiveSlots(pg[l[1]])}

Visible(pg, own) == {l \in Records(pg, own) : ~Hidden(At(pg, l))}

\* Where the pointer in an overflow record leads.
Target(pg, l) == At(pg, l).val

\* The records on the walks from S to the ends of their storage; the budget's
\* check_chain_depth ends a longer walk with an error.
Step(pg, l) == IF Overflow(At(pg, l)) THEN {l, Target(pg, l)} ELSE {l}
Walk(pg, S) ==
  LET walk[n \in 0 .. MaxChainDepth] ==
        IF n = 0 THEN S ELSE UNION {Step(pg, l) : l \in walk[n - 1]}
  IN  walk
Walked(pg, S) == Walk(pg, S)[MaxChainDepth]

\* Every walk stays on hidden records of the table and no two meet, no hidden
\* record is left over, and the stored row count is the number of walks.
GraphLoads(pg, own, stored) ==
  LET records == Records(pg, own)
      visible == Visible(pg, own)
      links == {l \in records : Overflow(At(pg, l))}
  IN  /\ \A p \in own : pg[p].tag = "data"
      /\ \A l \in records : LengthValid(At(pg, l))
      /\ \A l \in links : Target(pg, l) \in records \ visible
      /\ \A l, m \in links : Target(pg, l) = Target(pg, m) => l = m
      /\ Walked(pg, visible) = records
      /\ stored = Cardinality(visible)

\* graph.selected: the record a row is in, or the two it is in; a longer chain is
\* read and never edited.
Chain(l) == IF Overflow(At(pages, l)) THEN <<l, Target(pages, l)>> ELSE <<l>>
MultiHop(l) == Overflow(At(pages, l)) /\ Overflow(At(pages, Target(pages, l)))

\* What a reader of the table sees: the record at the end of the walk.
Ends(pg, l) == {e \in Walked(pg, {l}) : ~Overflow(At(pg, e))}
Value(pg, l) ==
  IF Overflow(At(pg, l)) THEN At(pg, CHOOSE e \in Ends(pg, l) : TRUE).val ELSE At(pg, l).val

-----------------------------------------------------------------------------
(* The two sources of a page with room. *)

\* The available pages, outside a row's own chain, that can take the row.
Candidates(t, skip, len) ==
  {p \in avail[t] \ skip : AppendFits(pages[p], len)}

\* An available page that the table does not own refuses the operation.
AvailableChecked(t) == avail[t] \subseteq owned[t]

\* find_released_page: the first free page of the file that this table released.
Reusable(t) ==
  {p \in global : p <= Len(pages) /\ pages[p].tag = "released" /\ pages[p].owner = t}

\* plan_eof_insert: a page the table released before, else one more page.
\* next_append_page is asked first, also when a released page is then taken.
NewRowPage(t) == IF Reusable(t) # {} THEN Lowest(Reusable(t)) ELSE Len(pages) + 1
MayAppend == Len(pages) + 1 <= MaxPages

Place(pg, p, image) == IF p <= Len(pg) THEN [pg EXCEPT ![p] = image] ELSE Append(pg, image)

-----------------------------------------------------------------------------
(* alloc::patch and RowPages::stage. *)

\* The bits each kind of change expects before it (patch::plan).
MayAllocate(t, p) == p \in global /\ p \notin owned[t] /\ p \notin avail[t]
MayRetain(t, p) == p \notin global /\ p \in owned[t]

\* The pages of a plan whose tag became "released".
Freed(after, touched) == {p \in touched : after[p].tag = "released"}

\* Mutant: a released page does not become free.
GlobalWithoutFreed(after, touched, allocated) == global \ allocated
GlobalAfter(after, touched, allocated) ==
  (global \ allocated) \union Freed(after, touched)

\* Every touched page gets its available bit anew.  Mutant: only new pages do.
AvailOnlyNew(t, after, touched, allocated) ==
  (avail[t] \ Freed(after, touched))
    \union {p \in allocated : HasCapacity(after[p], MinimumLen)}
AvailAfter(t, after, touched, allocated) ==
  (avail[t] \ touched)
    \union {p \in (touched \ Freed(after, touched)) \union allocated :
              HasCapacity(after[p], MinimumLen)}

\* A released page leaves the table's maps and becomes free.
Stage(t, after, touched, allocated) ==
  /\ \A p \in touched : MayRetain(t, p)
  /\ \A p \in allocated : MayAllocate(t, p)
  /\ pages' = after
  /\ global' = GlobalAfter(after, touched, allocated)
  /\ owned' = [owned EXCEPT ![t] = (@ \ Freed(after, touched)) \union allocated]
  /\ avail' = [avail EXCEPT ![t] = AvailAfter(t, after, touched, allocated)]

-----------------------------------------------------------------------------
(* The operations. *)

\* insert::plan: the first available page with room ...
InsertIntoAvailable(t, slot) ==
  /\ AvailableChecked(t)
  /\ Candidates(t, {}, slot.len) # {}
  /\ LET p == Lowest(Candidates(t, {}, slot.len))
     IN  Stage(t, [pages EXCEPT ![p] = AppendRow(@, slot)], {p}, {})

\* ... or a page of its own.
InsertIntoNewPage(t, slot) ==
  /\ AvailableChecked(t)
  /\ Candidates(t, {}, slot.len) = {}
  /\ MayAppend
  /\ NewPageFits(slot.len)
  /\ Stage(t, Place(pages, NewRowPage(t), NewPage(t, slot)), {}, {NewRowPage(t)})

Insert(t, v, n) ==
  /\ InsertIntoAvailable(t, Ordinary(v, n)) \/ InsertIntoNewPage(t, Ordinary(v, n))
  /\ count' = [count EXCEPT ![t] = @ + 1]
  /\ call' = [op |-> "insert", table |-> t, value |-> v]

\* delete::plan: hidden storage first, then the logical slot; the second edit of
\* a page starts from the first one's result.
RemoveAt(pg, l) == [pg EXCEPT ![l[1]] = RemoveRow(@, l[2])]

Delete(t, l) ==
  LET chain == Chain(l)
      after == IF Len(chain) = 2 THEN RemoveAt(RemoveAt(pages, chain[2]), l)
                                 ELSE RemoveAt(pages, l)
  IN  /\ ~MultiHop(l)
      /\ Stage(t, after, {chain[i][1] : i \in DOMAIN chain}, {})
      /\ count' = [count EXCEPT ![t] = @ - 1]
      /\ call' = [op |-> "delete", table |-> t, at |-> l]

ReplaceAt(pg, l, slot) == [pg EXCEPT ![l[1]] = ReplaceRow(@, l[2], slot)]
FitsAt(pg, l, n) == ReplaceFits(pg[l[1]], l[2], n)

\* Mutant: the old storage stays.
KeepStorage(pg, chain) == pg

\* The storage a replaced row had is dropped once nothing points at it.
DropStorage(pg, chain) == IF Len(chain) = 2 THEN RemoveAt(pg, chain[2]) ELSE pg

\* mutation_place::replace: the row goes back to its logical slot if it fits,
CollapseIntoLogical(t, chain, v, n) ==
  /\ FitsAt(pages, chain[1], n)
  /\ Stage(t, DropStorage(ReplaceAt(pages, chain[1], Ordinary(v, n)), chain),
           {chain[i][1] : i \in DOMAIN chain}, {})

\* stays in its hidden storage if that can hold it,
ResizeStorage(t, chain, v, n) ==
  /\ ~FitsAt(pages, chain[1], n)
  /\ Len(chain) = 2 /\ FitsAt(pages, chain[2], n)
  /\ Stage(t, ReplaceAt(pages, chain[2], Storage(v, n)),
           {chain[i][1] : i \in DOMAIN chain}, {})

\* and else moves to storage elsewhere, which the logical slot then names.
LinkTo(pg, chain, target) == DropStorage(ReplaceAt(pg, chain[1], Link(target)), chain)

Relocate(t, chain, v, n) ==
  LET own == {chain[i][1] : i \in DOMAIN chain}
      open == Candidates(t, own, n)
      p == IF open # {} THEN Lowest(open) ELSE NewRowPage(t)
      stored == IF open # {} THEN [pages EXCEPT ![p] = AppendRow(@, Storage(v, n))]
                             ELSE Place(pages, p, NewPage(t, Storage(v, n)))
  IN  /\ ~FitsAt(pages, chain[1], n)
      /\ ~(Len(chain) = 2 /\ FitsAt(pages, chain[2], n))
      /\ AvailableChecked(t)
      /\ open = {} => MayAppend /\ NewPageFits(n)
      /\ FitsAt(pages, chain[1], PointerLen)
      /\ Stage(t, LinkTo(stored, chain, <<p, Len(stored[p].slots)>>),
               own \union (IF open # {} THEN {p} ELSE {}),
               IF open # {} THEN {} ELSE {p})

Replace(t, l, v, n) ==
  LET chain == Chain(l)
  IN  /\ ~MultiHop(l)
      /\ \/ CollapseIntoLogical(t, chain, v, n)
         \/ ResizeStorage(t, chain, v, n)
         \/ Relocate(t, chain, v, n)
      /\ UNCHANGED count
      /\ call' = [op |-> "replace", table |-> t, at |-> l, value |-> v]

\* update::plan of a present fixed field: bytes change where the row is stored, and the
\* row keeps its length.
PatchField(t, l, v) ==
  LET chain == Chain(l)
      last == chain[Len(chain)]
  IN  /\ ~MultiHop(l)
      /\ pages[last[1]].slots[last[2]].len \in Lens[v]
      /\ pages' = [pages EXCEPT ![last[1]].slots[last[2]].val = v]
      /\ UNCHANGED <<global, owned, avail, count>>
      /\ call' = [op |-> "replace", table |-> t, at |-> l, value |-> v]

-----------------------------------------------------------------------------

\* The bytes of the rows, and those of a page that its slot words and its rows leave.
RowBytes(slots) ==
  LET used[s \in 0 .. Len(slots)] == IF s = 0 THEN 0 ELSE used[s - 1] + slots[s].len
  IN  used[Len(slots)]
Gap(pg) == PageBytes - DirectoryOffset - EntryLen * Len(pg.slots) - RowBytes(pg.slots)

\* What the checks of load, packed and find_released_page ask of a whole file.
FileAccepted(pg, own, stored) ==
  /\ \A t \in Tables : GraphLoads(pg, own[t], stored[t])
  /\ \A p \in DOMAIN pg : pg[p].free = Gap(pg[p])
  /\ \A p \in DOMAIN pg : pg[p].tag = "released" => LiveSlots(pg[p]) = {}

\* No page is shared between tables or maps, and none is lost: a page is free,
\* beyond the end of the file, or owned by the one table its header names.
MapsAccepted(pg, glob, own, av) ==
  /\ \A p \in DOMAIN pg :
       IF pg[p].tag = "released" THEN p \in glob
       ELSE p \notin glob /\ p \in own[pg[p].owner]
  /\ \A p \in PageNumbers : p \notin DOMAIN pg => p \in glob
  /\ \A t \in Tables :
       /\ av[t] \subseteq own[t]
       /\ \A p \in own[t] : p \in DOMAIN pg /\ pg[p].owner = t /\ p \notin glob

\* The stored forms: a row holds a value, a pointer names a page and a slot, and a slot
\* is deleted when it is empty, hidden and overflow.
SlotType ==
  [kind : {"ordinary", "storage"}, len : Nat, val : Values]
    \union [kind : {"link", "storage_link"}, len : Nat, val : Nat \X Nat]
    \union {Tombstone}
PageType == [tag : {"data", "released"}, owner : Tables, free : Int, slots : Seq(SlotType)]

ASSUME FilesTyped ==
  \A f \in Files :
    /\ f.pages \in Seq(PageType) /\ f.global \subseteq PageNumbers
    /\ f.owned \in [Tables -> SUBSET PageNumbers]
    /\ f.avail \in [Tables -> SUBSET PageNumbers] /\ f.count \in [Tables -> Nat]
ASSUME FilesAccepted ==
  \A f \in Files :
    /\ FileAccepted(f.pages, f.owned, f.count)
    /\ MapsAccepted(f.pages, f.global, f.owned, f.avail)

Init ==
  \E f \in Files :
    /\ pages = f.pages /\ global = f.global /\ owned = f.owned
    /\ avail = f.avail /\ count = f.count /\ call = [op |-> "none"]

\* Every operation loads the row graph of its table first.
Operation(t) ==
  /\ GraphLoads(pages, owned[t], count[t])
  /\ \/ \E v \in Values : \E n \in Lens[v] : Insert(t, v, n)
     \/ \E l \in Visible(pages, owned[t]) :
          \/ Delete(t, l)
          \/ \E v \in Values : \E n \in Lens[v] : Replace(t, l, v, n)
          \/ \E v \in Values : PatchField(t, l, v)

Next == \E t \in Tables : Operation(t)

Spec == Init /\ [][Next]_vars

-----------------------------------------------------------------------------
(* Properties. *)

\* No sequence of inserts, replacements, updates and deletions leads to a file the
\* next call refuses: every chain of hidden storage is reached exactly once and
\* nothing hidden is left behind (RowGraph::load), the free-byte counts are the
\* ones DataPageEditor::packed insists on, and every released page is one
\* find_released_page takes back.
NextCallAccepts == FileAccepted(pages, owned, count)

\* The three allocation maps stay a partition of the file through every release,
\* reuse and relocation: no page in two hands, none leaked.
MapsPartition == MapsAccepted(pages, global, owned, avail)

\* After an operation changed the layout of a page that stays with its table, the
\* page's available bit says whether a minimum row fits, the logical page of a
\* relocated row and the destination included: a page is neither skipped while it
\* has room nor offered when it has none.
TouchedPagesKnowTheirRoom ==
  [][\A t \in Tables : \A p \in owned'[t] :
       (p \notin owned[t] \/ pages'[p].free # pages[p].free)
         => (p \in avail'[t] <=> HasCapacity(pages'[p], MinimumLen))]_vars

\* The logical content of the tables.
RowsOf(t) ==
  {[table |-> t, at |-> l, value |-> Value(pages, l)] : l \in Visible(pages, owned[t])}
Abstract == INSTANCE TableRows WITH rows <- UNION {RowsOf(t) : t \in Tables}

\* Each operation is one operation of TableRows: the row it names is inserted under
\* a locator that is free in all tables, replaced under its own locator, or
\* deleted; every other row of every table reads the same, wherever compaction,
\* relocation and page reuse moved bytes.
ImplementsTableRows == Abstract!Spec
=============================================================================
