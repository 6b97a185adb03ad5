----------------------------- MODULE IndexTree -----------------------------
(***************************************************************************)
(* One physical index of a table.  Every mutation of a row reads the whole *)
(* tree and checks it against the rows (index/mutation_load.rs and         *)
(* mutation_structure.rs), changes the sorted entries (mutation.rs), plans *)
(* a new tree over them (tree/builder.rs) and writes it over the pages of  *)
(* the old one, appending pages when they do not suffice.                  *)
(*                                                                         *)
(* A record is a key with the locator of its row.  Keys are numbers in key *)
(* order, NullKey the lowest; only their order and the width of a record   *)
(* matter.  Prefix compression, which other writers use, is left out.      *)
(***************************************************************************)
EXTENDS Naturals, SequencesExt, FiniteSets

CONSTANTS Rows,         \* locators, 1 .. n
          Keys, NullKey,\* keys in key order; the one whose fields are all null
          PartNull,     \* the keys with some fields null
          Width,        \* key -> bytes of a record with that key
          AreaBytes,    \* AREA_BYTES
          ChildBytes,   \* CHILD_BYTES
          MaxPage,      \* bound on the pages of the file
          CounterMax,   \* u32::MAX
          MaxDepth,     \* check_chain_depth of the budget
          NIL,
          Settings      \* the indexes considered, each with the rows and keys it may meet

Policies == {"Required", "IgnoreAllNull", "Include"}
PageIds == 1 .. MaxPage
Root == 1
Depths == 1 .. MaxDepth
MaxNodes == 2 * Cardinality(Rows)   \* maximum_nodes; a tree of n leaves has fewer than 2n nodes

ASSUME IndexAssumption ==
  /\ IsFiniteSet(Rows) /\ 1 \in Rows /\ Rows = 1 .. Cardinality(Rows) /\ NIL \notin Nat
  /\ Keys \subseteq Nat /\ NullKey \in Nat /\ PartNull \subseteq Keys
  /\ \A k \in Keys : NullKey <= k /\ Width[k] \in Nat
  /\ AreaBytes \in Nat /\ ChildBytes \in Nat /\ MaxPage \in Nat \ {0, 1} /\ CounterMax \in Nat
  /\ MaxDepth \in Nat \ {0, 1}
  /\ Settings \subseteq [policy : Policies, unique : BOOLEAN, counted : BOOLEAN,
                          rows : SUBSET Rows, keys : SUBSET Keys]

\* The depth allowed, 4096 unless the caller says otherwise, is that of a tree over more rows
\* than there are: with two children under each branch, every level doubles the leaves.
Doublings ==
  LET leaves[d \in 0 .. MaxDepth] == IF d = 0 THEN 1 ELSE 2 * leaves[d - 1]
  IN  leaves
ASSUME DepthAssumption == Cardinality(Rows) < Doublings[MaxDepth]

VARIABLES setting,   \* null policy, unique flag, relationship_counter
          rows,      \* locator -> key, NIL where there is no row
          pages,     \* page -> node; Stale for a page of the map no tree uses
          mapped,    \* the pages of the index's usage map
          counter,   \* the two counters of the index in the table definition
          pc,
          pending,   \* rows, entries and counter after the mutation
          nodes,     \* ScalarIndexPages::nodes
          level,     \* previous: the nodes to be grouped
          first, start

file == <<rows, pages, mapped, counter>>
vars == <<setting, file, pc, pending, nodes, level, first, start>>

-----------------------------------------------------------------------------
(* Entries. *)

Record(k, l) == [key |-> k, row |-> l]
Less(a, b) == a.key < b.key \/ (a.key = b.key /\ a.row < b.row)

\* ScalarIndexEntry::encode: IgnoreAllNull omits the all-null key, Required refuses any null.
HasNull(k) == k = NullKey \/ k \in PartNull
Indexed(k) == k # NIL /\ ~(setting.policy = "IgnoreAllNull" /\ k = NullKey)
Encodable(k) == setting.policy = "Required" => ~HasNull(k)

Records(rs) == {Record(rs[l], l) : l \in {x \in Rows : Indexed(rs[x])}}
\* sort_unstable_by record.
Sorted(S) ==
  [i \in 1 .. Cardinality(S) |->
     CHOOSE r \in S : Cardinality({x \in S : Less(x, r)}) = i - 1]
Entries(rs) == Sorted(Records(rs))

-----------------------------------------------------------------------------
(* index_tree: breadth first from the root. *)

Stale == [kind |-> "stale"]
IsBranch(p) == pages[p].kind = "branch"
\* The children of a branch: those of its entries, then the tail child.
Children(p) == IF IsBranch(p) THEN [i \in 1 .. Len(pages[p].items) |-> pages[p].items[i].child]
                                    \o <<pages[p].tail>>
                              ELSE <<>>

\* The pages visited at each depth.
Levels ==
  LET lev[d \in Depths] ==
        IF d = 1 THEN <<Root>>
        ELSE FlattenSeq([i \in DOMAIN lev[d - 1] |-> Children(lev[d - 1][i])])
  IN  [d \in Depths |-> lev[d]]
LeafRecords(p) ==
  IF pages[p].kind # "leaf" THEN <<>>
  ELSE [i \in DOMAIN pages[p].items |-> pages[p].items[i].record]
ReadEntries(visited) == FlattenSeq([i \in DOMAIN visited |-> LeafRecords(visited[i])])

\* The sums of the first elements of a sequence.
Sums(s) ==
  LET sum[i \in 0 .. Len(s)] == IF i = 0 THEN 0 ELSE sum[i - 1] + s[i]
  IN  sum
ItemBytes(n) ==
  Sums([i \in 1 .. Len(n.items) |->
          Width[n.items[i].record.key] + (IF n.kind = "branch" THEN ChildBytes ELSE 0)])[Len(n.items)]
\* parse_node. A branch without entries is accepted as a root only.
Parses(p, d) ==
  /\ pages[p].kind \in {"branch", "leaf"}
  /\ ItemBytes(pages[p]) <= AreaBytes
  /\ pages[p].prev # p /\ pages[p].next # p
  /\ IsBranch(p) => /\ pages[p].tail \notin {NIL, p}
                    /\ pages[p].items = <<>> => d = 1

\* No page twice, all leaves at the last depth, sibling links along each depth.
TreeReads(levels, visited) ==
  /\ \A d \in Depths : \A i \in DOMAIN levels[d] :
       LET p == levels[d][i] IN
       /\ Parses(p, d)
       /\ IsBranch(p) <=> IsBranch(levels[d][1])
       /\ IsBranch(p) => d < MaxDepth
       /\ pages[p].prev = IF i = 1 THEN NIL ELSE levels[d][i - 1]
       /\ pages[p].next = IF i = Len(levels[d]) THEN NIL ELSE levels[d][i + 1]
  /\ IsInjective(visited)

\* mutation_structure::validate: records ascend in each leaf, a separator is not less
\* than any record of the child before it and less than any of the child after it.
Below(levels) ==
  LET below[n \in 0 .. MaxDepth] ==
        [p \in PageIds |->
           IF IsBranch(p) /\ n > 0 THEN UNION {below[n - 1][c] : c \in Range(Children(p))}
                                   ELSE Range(LeafRecords(p))]
  IN  below[Cardinality({d \in Depths : levels[d] # <<>>})]
StructureValid(levels, visited) ==
  LET below == Below(levels) IN
  \A p \in Range(visited) :
    LET items == pages[p].items IN
    IF IsBranch(p)
    THEN /\ \A c \in Range(Children(p)) : below[c] # {}
         /\ \A i \in DOMAIN items :
              /\ \A r \in below[items[i].child] : ~Less(items[i].record, r)
              /\ \A r \in below[Children(p)[i + 1]] : Less(items[i].record, r)
    ELSE \A i \in 1 .. Len(items) - 1 : Less(items[i].record, items[i + 1].record)

NoDuplicates(rs) ==
  setting.unique => \A a, b \in Rows : a # b /\ rs[a] # NIL /\ ~HasNull(rs[a]) => rs[a] # rs[b]

\* load: the map owns the nodes, the tree is sound and holds the entries of the rows.
LoadAccepts ==
  LET levels == Levels
      visited == FlattenSeq(levels)
  IN  /\ TreeReads(levels, visited) /\ StructureValid(levels, visited)
      /\ Range(visited) \subseteq mapped
      /\ NoDuplicates(rows) /\ \A l \in Rows : rows[l] # NIL => Encodable(rows[l])
      /\ ReadEntries(visited) = Entries(rows)

-----------------------------------------------------------------------------
(* Mutations. *)

Increment(c) == [c EXCEPT !.second = @ + 1]
RemoveRelationshipEntry(c) ==
  IF c.first = 0 THEN c
  ELSE [first |-> c.first - 1,
        second |-> IF c.second < c.first - 1 THEN c.second ELSE c.first - 1]

\* MutableIndex::insert looks for the key among the other entries.
PresentRecord(rs, l, k) == Record(k, l) \in Records(rs)
Present(rs, l, k) == \E r \in Records(rs) : r.key = k
Admissible(rs, l, k) == setting.unique /\ ~HasNull(k) => ~Present(rs, l, k)

\* If the entries changed a new tree is planned; otherwise only the counter is staged.
Plan(rs, c) ==
  /\ c.second <= CounterMax
  /\ IF Records(rs) # Records(rows)
     THEN /\ pending' = [rows |-> rs, counter |-> c, entries |-> Entries(rs)] /\ pc' = "leaves"
          /\ UNCHANGED <<setting, file, nodes, level, first, start>>
     ELSE /\ rows' = rs /\ counter' = c
          /\ UNCHANGED <<setting, pages, mapped, pc, pending, nodes, level, first, start>>

InsertRow(l, k) ==
  /\ pc = "idle"
  /\ rows[l] = NIL /\ Encodable(k)
  /\ Indexed(k) => Admissible(rows, l, k)
  /\ Plan([rows EXCEPT ![l] = k],
          IF Indexed(k) /\ ~Present(rows, l, k) THEN Increment(counter) ELSE counter)

RemoveRow(l) ==
  /\ pc = "idle"
  /\ rows[l] # NIL
  /\ Plan([rows EXCEPT ![l] = NIL],
          IF setting.counted THEN RemoveRelationshipEntry(counter) ELSE counter)

\* An assignment of the key it has changes no entry and still counts.
ReplaceRow(l, k) ==
  /\ pc = "idle"
  /\ rows[l] # NIL /\ Encodable(k)
  /\ k # rows[l] /\ Indexed(k) => Admissible([rows EXCEPT ![l] = NIL], l, k)
  /\ Plan([rows EXCEPT ![l] = k],
          IF setting.counted THEN RemoveRelationshipEntry(counter) ELSE counter)

-----------------------------------------------------------------------------
(* ScalarIndexPages::new. *)

Planned == pending.entries
Bytes(i) == Width[Planned[i].key]

\* A record fits beside a second separator, so that no branch is left with one child.
RecordFitsArea(w) == w <= AreaBytes
RecordFits(w) == w + ChildBytes <= AreaBytes \div 2

\* Greedy packing: where the leaf that holds the i-th entry begins.
LeafStart ==
  LET at[i \in 0 .. Len(Planned)] ==
        IF i = 0 THEN [from |-> 1, used |-> 0]
        ELSE IF at[i - 1].used + Bytes(i) > AreaBytes THEN [from |-> i, used |-> Bytes(i)]
        ELSE [from |-> at[i - 1].from, used |-> at[i - 1].used + Bytes(i)]
  IN  at
LeafStarts == {LeafStart[i].from : i \in 0 .. Len(Planned)}
Nth(S, n) == CHOOSE x \in S : Cardinality({y \in S : y < x}) = n - 1

Node(lo, hi, kids) == [lo |-> lo, hi |-> hi, kids |-> kids]
NoKids == <<1, 0>>
PackLeaves ==
  LET n == Cardinality(LeafStarts) IN
  /\ pc = "leaves"
  /\ \A i \in DOMAIN Planned : RecordFits(Bytes(i))
  /\ nodes' = [j \in 1 .. n |-> Node(Nth(LeafStarts, j),
                                    IF j = n THEN Len(Planned) ELSE Nth(LeafStarts, j + 1) - 1,
                                    NoKids)]
  /\ level' = <<<<1, n>>>> /\ first' = 1 /\ start' = n + 1 /\ pc' = "group"
  /\ UNCHANGED <<setting, file, pending>>

\* The children from `first` on whose separators fit.
LevelEnd == Last(level)[2]
SeparatorBytes(end) ==
  Sums([i \in 1 .. LevelEnd - first |-> Bytes(nodes[first + i - 1].hi) + ChildBytes])[end - first]
Fitting == CHOOSE end \in first .. LevelEnd :
             /\ SeparatorBytes(end) <= AreaBytes
             /\ end < LevelEnd => SeparatorBytes(end + 1) > AreaBytes
GroupGreedy == Fitting
GroupEnd == IF LevelEnd - Fitting = 1 THEN Fitting - 1 ELSE Fitting

MoreToGroup == Last(level)[1] < LevelEnd
\* One branch, and the next level once all nodes of this one have a parent.
GroupNext ==
  /\ pc = "group" /\ MoreToGroup
  /\ GroupEnd >= 1 /\ Len(nodes) < MaxNodes
  /\ nodes' = nodes \o <<Node(nodes[first].lo, nodes[GroupEnd].hi, <<first, GroupEnd>>)>>
  /\ IF GroupEnd = LevelEnd
     THEN level' = level \o <<<<start, Len(nodes')>>>> /\ first' = start /\ start' = Len(nodes') + 1
     ELSE first' = GroupEnd + 1 /\ UNCHANGED <<level, start>>
  /\ UNCHANGED <<setting, file, pc, pending>>

-----------------------------------------------------------------------------
(* MutableIndex::stage_tree and ScalarIndexPages::image. *)

Spare == mapped \ {Root}
NewPages(n) == {p \in PageIds \ mapped : Cardinality({q \in PageIds \ mapped : q < p}) < n}
\* Pages of the old tree first, then appended ones; the root stays where it is.
PageOf(n) == IF n = Len(nodes) THEN Root
             ELSE IF n <= Cardinality(Spare) THEN Nth(Spare, n)
             ELSE Nth(PageIds \ mapped, n - Cardinality(Spare))
SiblingsOf(n) == CHOOSE s \in Range(level) : s[1] <= n /\ n <= s[2]
PrevIn(n, s) == IF n > s[1] THEN PageOf(n - 1) ELSE NIL
NextIn(n, s) == IF n < s[2] THEN PageOf(n + 1) ELSE NIL

Image(n) ==
  LET nd == nodes[n]
      kids == nd.kids[2] - nd.kids[1] + 1
  IN  [kind |-> IF kids = 0 THEN "leaf" ELSE "branch",
       prev |-> PrevIn(n, SiblingsOf(n)), next |-> NextIn(n, SiblingsOf(n)),
       tail |-> IF kids = 0 THEN NIL ELSE PageOf(nd.kids[2]),
       items |-> IF kids = 0
                 THEN [i \in 1 .. nd.hi - nd.lo + 1 |->
                         [record |-> Planned[nd.lo + i - 1], child |-> NIL]]
                 ELSE [i \in 1 .. kids - 1 |->
                         [record |-> Planned[nodes[nd.kids[1] + i - 1].hi],
                          child |-> PageOf(nd.kids[1] + i - 1)]]]

Reset == pc' = "idle" /\ pending' = NIL /\ nodes' = <<>> /\ level' = <<>> /\ first' = 0 /\ start' = 0

StageTree ==
  LET fresh == Len(nodes) - 1 - Cardinality(Spare) IN
  /\ pc = "group" /\ ~MoreToGroup
  /\ Len(nodes) <= MaxPage
  /\ mapped' = mapped \union (IF fresh > 0 THEN NewPages(fresh) ELSE {})
  /\ pages' = [p \in PageIds |->
                 IF \E n \in DOMAIN nodes : PageOf(n) = p
                 THEN Image(CHOOSE n \in DOMAIN nodes : PageOf(n) = p)
                 ELSE Stale]
  /\ rows' = pending.rows /\ counter' = pending.counter
  /\ Reset /\ UNCHANGED setting

\* Layout("record width"); no page left to append.
TooWide == pc = "leaves" /\ \E i \in DOMAIN Planned : ~RecordFits(Bytes(i))
NoPage == pc = "group" /\ ~MoreToGroup /\ Len(nodes) > MaxPage
RefuseTree == (TooWide \/ NoPage) /\ Reset /\ UNCHANGED <<setting, file>>
\* The resource budget may run out at any step.
RefuseBudget == pc # "idle" /\ Reset /\ UNCHANGED <<setting, file>>

-----------------------------------------------------------------------------

EmptyLeaf == [kind |-> "leaf", prev |-> NIL, next |-> NIL, tail |-> NIL, items |-> <<>>]
Leaf(r) == [EmptyLeaf EXCEPT !.items = <<[record |-> r, child |-> NIL]>>]
OneRow(k) == [l \in Rows |-> IF l = 1 THEN k ELSE NIL]

\* An empty index; and one row under a root that has kept only its tail child.
Init ==
  /\ setting \in Settings
  /\ counter = [first |-> 1, second |-> 0]
  /\ \/ /\ rows = [l \in Rows |-> NIL]
        /\ mapped = {Root} /\ pages = [p \in PageIds |-> IF p = Root THEN EmptyLeaf ELSE Stale]
     \/ \E k \in setting.keys :
          /\ ~HasNull(k) /\ RecordFits(Width[k])
          /\ rows = OneRow(k)
          /\ mapped = {Root, 2}
          /\ pages = [p \in PageIds |->
               IF p = Root THEN [EmptyLeaf EXCEPT !.kind = "branch", !.tail = 2]
               ELSE IF p = 2 THEN Leaf(Record(k, 1)) ELSE Stale]
  /\ pc = "idle" /\ pending = NIL /\ nodes = <<>> /\ level = <<>> /\ first = 0 /\ start = 0

\* Every mutation loads the index before anything else.
Mutate ==
  /\ pc = "idle" /\ LoadAccepts
  /\ \E l \in setting.rows : RemoveRow(l) \/ \E k \in setting.keys : InsertRow(l, k) \/ ReplaceRow(l, k)
Build == PackLeaves \/ GroupNext \/ StageTree \/ RefuseTree
Next == Mutate \/ Build \/ RefuseBudget

\* A mutation runs to its end in the calling thread.
Spec == Init /\ [][Next]_vars /\ WF_vars(Build)

-----------------------------------------------------------------------------
(* Properties. *)

\* The next mutation of the table accepts the index the last one left behind: reading it
\* gives exactly the entries of the rows in order, sibling links and depths agree, and
\* every separator bounds its children.
NextLoadAccepts == pc = "idle" => LoadAccepts

\* A unique index never admits two rows with one non-null key, by insertion or by replacement.
UniqueKeys == NoDuplicates(rows)

\* Planning a tree comes to an end: every round of grouping leaves fewer nodes.
BuildEnds == [](pc # "idle" => <>(pc = "idle"))
=============================================================================
