----------------------------- MODULE MCRowStore -----------------------------
(***************************************************************************)
(* RowStore on small files: two empty tables; a table as DAO leaves it,    *)
(* with a chain inside one page; a table with a multi-hop chain, which the *)
(* library reads and never edits; and a table whose available map still    *)
(* offers a page that has no slot left.                                    *)
(***************************************************************************)
EXTENDS RowStore, TLC

CONSTANTS t1, t2, a, b, c

Room(slots, lens) == PageBytes - DirectoryOffset - EntryLen * slots - lens

EmptyFile ==
  [pages |-> <<>>, global |-> PageNumbers, owned |-> [t \in Tables |-> {}],
   avail |-> [t \in Tables |-> {}], count |-> [t \in Tables |-> 0]]

\* Pages of t1 whose available bits DAO left clear.
Page(slots, lens) ==
  [tag |-> "data", owner |-> t1, free |-> Room(Len(slots), lens), slots |-> slots]
OneRow(pgs) ==
  [pages |-> pgs,
   global |-> PageNumbers \ DOMAIN pgs,
   owned |-> [t \in Tables |-> IF t = t1 THEN DOMAIN pgs ELSE {}],
   avail |-> [t \in Tables |-> {}],
   count |-> [t \in Tables |-> IF t = t1 THEN 1 ELSE 0]]

SamePageChain(v) == OneRow(<<Page(<<Link(<<1, 2>>), Storage(v, 1)>>, PointerLen + 1)>>)

MultiHopChain(v) ==
  OneRow(<<Page(<<Slot("storage_link", PointerLen, <<2, 1>>), Link(<<1, 1>>)>>,
                2 * PointerLen),
           Page(<<Storage(v, 1)>>, 1)>>)

FullButOffered(v) ==
  [OneRow(<<Page(<<Tombstone, Ordinary(v, 1)>>, 1)>>) EXCEPT !.avail[t1] = {1}]

MCTables == {t1, t2}

\* Two short rows and a long one.
MCValues == {a, b, c}
MCLens == (a :> {1}) @@ (b :> {1}) @@ (c :> {5})
ValueSymmetry == Permutations({a, b})
MCFiles ==
  {EmptyFile} \union UNION {{SamePageChain(v), MultiHopChain(v), FullButOffered(v)} : v \in {a, b}}
=============================================================================
