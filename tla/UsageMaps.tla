----------------------------- MODULE UsageMaps -----------------------------
(***************************************************************************)
(* The allocation maps of a file while one plan edits them.  A map is a    *)
(* bitmap over page numbers.  It starts as one inline window in its row    *)
(* and, once a page outside the window has to be a member, becomes a list  *)
(* of references to bitmap pages of SlotBits bits each.  Those pages are   *)
(* appended to the very file whose pages the maps account for, so growing  *)
(* a map changes what the maps have to say.                                *)
(*                                                                         *)
(* A plan records the wanted bits (map_bit), and finish_maps then applies  *)
(* them: the maps of the tables first, the global map of free pages last.  *)
(***************************************************************************)
EXTENDS Naturals, Sequences, FiniteSets

CONSTANTS Roles,       \* the maps of tables, indexes and long values
          Global,      \* the map of free pages, at page 1, row 0
          InlineBits,  \* bits of an inline window
          SlotBits,    \* EXTENDED_BITMAP_BITS
          Slots,       \* INDIRECT_REFERENCE_SLOTS
          Bases,       \* first pages of the inline windows of Roles
          MaxChanges   \* pages one plan moves between maps

Maps == Roles \union {Global}

ASSUME UsageMapsAssumption ==
  /\ Global \notin Roles /\ Roles \intersect {"meta", "free", "bitmap"} = {}
  /\ InlineBits \in Nat \ {0, 1} /\ SlotBits \in Nat \ {0} /\ Slots \in Nat
  /\ MaxChanges \in Nat /\ Bases \subseteq Nat
  /\ 2 <= Slots * SlotBits

VARIABLES eof,      \* pages of the file
          used,     \* page -> what the file uses it for
          maps,     \* map -> its layout, references and members
          pc,       \* where the plan is
          next,     \* next_append_page
          placed,   \* used, as the plan leaves it
          changes,  \* PendingMap::changes
          work,     \* PendingMap::bits
          number    \* the page the final loop of apply is at

file == <<eof, used, maps>>
vars == <<eof, used, maps, pc, next, placed, changes, work, number>>

-----------------------------------------------------------------------------
(* MapBits. *)

Window(mp) == IF mp.layout = "inline" THEN mp.base .. mp.base + InlineBits - 1
                                      ELSE 0 .. Len(mp.refs) * SlotBits - 1
Represents(mp, p) == p \in Window(mp)
Contains(mp, p) == p \in mp.bits
BitmapPages(mp) == {mp.refs[i] : i \in DOMAIN mp.refs}

SlotOf(p) == p \div SlotBits

\* The slots a map needs to hold the members S.
SlotsFor(S) == IF S = {} THEN 0 ELSE (CHOOSE n \in {SlotOf(p) : p \in S} : \A p \in S : SlotOf(p) <= n) + 1

\* Bits a new slot starts with: beyond the end of the file every page is free.
Preset(m, first, end) == IF m = Global THEN {p \in first .. end - 1 : p >= eof} ELSE {}

\* ensure_slot: references form a prefix, so every missing slot up to the nth gets a
\* bitmap page, the first at page at.
EnsureSlot(m, mp, n, at) ==
  [mp EXCEPT !.refs = @ \o [i \in 1 .. (IF n > Len(@) THEN n - Len(@) ELSE 0) |-> at + i - 1],
             !.bits = @ \union Preset(m, Len(mp.refs) * SlotBits, n * SlotBits)]

\* Mutant: the members of the window are forgotten.
ConvertEmpty(m, mp, at) ==
  EnsureSlot(m, [layout |-> "indirect", base |-> 0, refs |-> <<>>, bits |-> {}], SlotsFor(mp.bits), at)

\* convert: the members of the inline window move to bitmap pages.
Convert(m, mp, at) ==
  LET empty == [layout |-> "indirect", base |-> 0, refs |-> <<>>, bits |-> {}]
  IN  [EnsureSlot(m, empty, SlotsFor(mp.bits), at) EXCEPT !.bits = @ \union mp.bits]

PutBit(mp, p, desired) == [mp EXCEPT !.bits = IF desired THEN @ \union {p} ELSE @ \ {p}]

\* A bit that is not represented and is to be clear needs no bitmap page; in the
\* global map it does, because there a page beyond the windows is free.
NoWindowNeeded(m, mp, p, desired) ==
  ~desired /\ m # Global /\ ~Represents(mp, p)

SetBit(m, mp, p, desired, at) ==
  LET indirect == IF mp.layout = "inline" THEN Convert(m, mp, at) ELSE mp
      placedNow == Len(indirect.refs) - Len(mp.refs)
  IN  IF mp.layout = "inline" /\ Represents(mp, p) THEN PutBit(mp, p, desired)
      ELSE IF NoWindowNeeded(m, mp, p, desired) THEN mp
      ELSE PutBit(EnsureSlot(m, indirect, SlotOf(p) + 1, at + placedNow), p, desired)

-----------------------------------------------------------------------------
(* MapBits::load and mutation_map_guard::validate. *)

\* Page 1 holds the map rows; page 0 is the header.
MapRowPage == 1
Metadata(mp) == {MapRowPage} \union BitmapPages(mp)

Loads(mp) ==
  /\ \A i, j \in DOMAIN mp.refs : mp.refs[i] = mp.refs[j] => i = j
  /\ \A p \in BitmapPages(mp) : p # MapRowPage /\ p < eof /\ used[p] = "bitmap"

GuardAccepts ==
  /\ \A m \in Maps : Loads(maps[m])
  /\ \A m \in Maps : \A p \in Metadata(maps[m]) : ~Contains(maps[Global], p)
  /\ \A m, o \in Maps : m # o => BitmapPages(maps[m]) \intersect BitmapPages(maps[o]) = {}
  /\ \A m \in Maps, r \in Roles : \A p \in Metadata(maps[m]) : ~Contains(maps[r], p)

-----------------------------------------------------------------------------
(* Planning: PageEdits::append and map_bit. *)

Recorded(m, p) == {i \in DOMAIN changes[m] : changes[m][i].page = p}

\* The membership map_bit compares with the expected one.
Old(m, p) ==
  IF Recorded(m, p) # {} THEN changes[m][CHOOSE i \in Recorded(m, p) : TRUE].desired
  ELSE IF m = Global /\ p >= eof /\ ~Represents(maps[m], p) THEN TRUE
  ELSE Contains(maps[m], p)

\* PendingMap::change: a page changed before keeps its place in the list.
Change(m, p, desired) ==
  IF Recorded(m, p) # {} THEN [i \in DOMAIN changes[m] |->
                                 IF i \in Recorded(m, p) THEN [page |-> p, desired |-> desired]
                                                         ELSE changes[m][i]]
  ELSE Append(changes[m], [page |-> p, desired |-> desired])

Extend(f, n, k, what) == [p \in 0 .. n + k - 1 |-> IF p < n THEN f[p] ELSE what]

Take(m, p) ==
  /\ Old(Global, p) /\ ~Old(m, p)
  /\ changes' = [changes EXCEPT ![Global] = Change(Global, p, FALSE), ![m] = Change(m, p, TRUE)]

Planning == pc = "plan" /\ Len(changes[Global]) < MaxChanges

AppendPage(m) ==
  /\ Planning
  /\ Take(m, next)
  /\ placed' = Extend(placed, next, 1, m)
  /\ next' = next + 1
  /\ UNCHANGED <<file, pc, work, number>>

ReusePage(m, p) ==
  /\ Planning
  /\ p < eof /\ Take(m, p)
  /\ placed' = [placed EXCEPT ![p] = m]
  /\ UNCHANGED <<file, pc, next, work, number>>

ReleasePage(m, p) ==
  /\ Planning
  /\ p < eof /\ Old(m, p) /\ ~Old(Global, p)
  /\ changes' = [changes EXCEPT ![Global] = Change(Global, p, TRUE), ![m] = Change(m, p, FALSE)]
  /\ placed' = [placed EXCEPT ![p] = "free"]
  /\ UNCHANGED <<file, pc, next, work, number>>

-----------------------------------------------------------------------------
(* PageEdits::finish_maps and PendingMap::apply. *)

Finish ==
  /\ pc = "plan"
  /\ changes[Global] # <<>>
  /\ GuardAccepts
  /\ pc' = "tables"
  /\ UNCHANGED <<file, next, placed, changes, work, number>>

FitsSlots(mp) == Len(mp.refs) <= Slots

\* One bit set, with the bitmap pages it places at the end of the file.
Set(m, p, desired) ==
  LET result == SetBit(m, work[m], p, desired, next)
      grown == Len(result.refs) - Len(work[m].refs)
  IN  /\ FitsSlots(result)
      /\ work' = [work EXCEPT ![m] = result]
      /\ placed' = Extend(placed, next, grown, "bitmap")
      /\ next' = next + grown

ApplyChange(m) ==
  /\ changes[m] # <<>>
  /\ Set(m, Head(changes[m]).page, Head(changes[m]).desired)
  /\ changes' = [changes EXCEPT ![m] = Tail(@)]
  /\ UNCHANGED <<file, pc, number>>

ApplyToTable(m) == pc = "tables" /\ ApplyChange(m)

TablesApplied == \A m \in Roles : changes[m] = <<>>

ApplyToGlobal == pc = "tables" /\ TablesApplied /\ ApplyChange(Global)

StartInclude ==
  /\ pc = "tables" /\ TablesApplied /\ changes[Global] = <<>>
  /\ pc' = "include" /\ number' = eof
  /\ UNCHANGED <<file, next, placed, changes, work>>

\* Mutant: a page whose bit is already clear is skipped without going on.
AfterSkipped ==
  IF Represents(work[Global], number) /\ ~Contains(work[Global], number) THEN number ELSE number + 1
After == number + 1

\* Mutant: the loop ends with the pages that were placed before the maps grew.
MoreContent == \E p \in number .. next - 1 : placed[p] # "bitmap"
MoreToInclude == number < next

\* The final loop: no page from the old to the new end of the file is free, the
\* bitmap pages the loop itself places included.
IncludeNext ==
  /\ pc = "include" /\ MoreToInclude
  /\ Set(Global, number, FALSE)
  /\ number' = After
  /\ UNCHANGED <<file, pc, changes>>

EndPlan(count, roles, bits) ==
  /\ pc' = "plan" /\ number' = 0
  /\ changes' = [m \in Maps |-> <<>>]
  /\ next' = count /\ placed' = roles /\ work' = bits

\* The staged rows, bitmap pages and appended pages are published together.
Publish ==
  /\ pc = "include" /\ ~MoreToInclude
  /\ eof' = next /\ used' = placed /\ maps' = work
  /\ EndPlan(next, placed, work)

\* Any error drops the plan: a limit of the budget, a map row that cannot grow on
\* its page, a page edit that overlaps.
Refuse ==
  /\ pc # "plan" \/ changes[Global] # <<>>
  /\ EndPlan(eof, used, maps)
  /\ UNCHANGED file

\* ensure_slot has no reference left.
SlotsExhausted ==
  /\ \/ pc = "tables" /\ \E m \in Maps :
          /\ changes[m] # <<>> /\ (m = Global => TablesApplied)
          /\ ~FitsSlots(SetBit(m, work[m], Head(changes[m]).page, Head(changes[m]).desired, next))
     \/ pc = "include" /\ MoreToInclude /\ ~FitsSlots(SetBit(Global, work[Global], number, FALSE, next))
  /\ EndPlan(eof, used, maps)
  /\ UNCHANGED file

-----------------------------------------------------------------------------

InlineMap(base, bits) == [layout |-> "inline", base |-> base, refs |-> <<>>, bits |-> bits]

\* A new file: the header and the page of the map rows are in use, the pages the
\* inline window of the global map reaches beyond them are free.
Init ==
  /\ eof = 2 /\ used = [p \in {0, 1} |-> "meta"]
  /\ \E base \in [Roles -> Bases] :
       maps = [m \in Maps |-> IF m = Global THEN InlineMap(0, 2 .. InlineBits - 1)
                                            ELSE InlineMap(base[m], {})]
  /\ pc = "plan" /\ next = eof /\ placed = used /\ work = maps
  /\ changes = [m \in Maps |-> <<>>] /\ number = 0

Progress ==
  \/ \E m \in Roles : ApplyToTable(m)
  \/ ApplyToGlobal \/ StartInclude \/ IncludeNext \/ Publish \/ SlotsExhausted

Next ==
  \/ \E m \in Roles : AppendPage(m)
  \/ \E m \in Roles, p \in DOMAIN used : ReusePage(m, p) \/ ReleasePage(m, p)
  \/ Finish \/ Refuse \/ Progress

\* finish_maps runs to its end in the calling thread.
Spec == Init /\ [][Next]_vars /\ WF_vars(Progress)

-----------------------------------------------------------------------------
(* Properties. *)

\* The published file passes the checks of MapBits::load and of the guard on the next
\* plan: a bitmap page placed for any map is a bitmap page of that map alone, is not
\* free in the global map, the one placed for the global map itself included, and is
\* not content of a table.
NextPlanAccepted == GuardAccepts

\* The members of a map are exactly the pages in that use: no page is owned twice,
\* free while in use, or lost, through inline windows, conversions, growth of several
\* maps in one plan, and pages released and taken back.
EveryPageAccounted ==
  /\ \A m \in Roles : maps[m].bits = {p \in DOMAIN used : used[p] = m}
  /\ \A p \in DOMAIN used : Contains(maps[Global], p) <=> used[p] = "free"
  /\ \A p \in Window(maps[Global]) : p >= eof => Contains(maps[Global], p)

\* "Include every newly placed bitmap in its own global allocation state", the comment
\* on the final loop of apply: no bitmap page of a published file is free.  It fails when
\* the loop itself is what converts the global map (run usage_maps_shifted): the pages it
\* has passed are free again among the bits the new slot starts with.
BitmapsIncluded == \A m \in Maps : \A p \in BitmapPages(maps[m]) : ~Contains(maps[Global], p)

\* Applying a plan ends although the end of the file the final loop runs to moves
\* while it runs: the file is published or the plan refused.
PlansEnd == pc # "plan" ~> pc = "plan"
=============================================================================
