------------------------------ MODULE SchemaFile ------------------------------
(***************************************************************************)
(* A database file as the schema editor sees it (schema/storage.rs,        *)
(* schema/map.rs, schema/definition.rs, schema/index.rs, catalog/*.rs).    *)
(* A file is a record:                                                     *)
(*   size, kind     the pages and the tag each carries                     *)
(*   free           the pages the global map offers, below the end         *)
(*   maps           <<page, row>> -> the pages that map row holds          *)
(*   defs           root -> table definition                               *)
(*   objects        the catalog: [id, name, kind, props], a table's id its *)
(*                  root, props the stored <<block, property, value>>      *)
(*   grants         the object ids that have access rows                   *)
(*   rels           the rows of MSysRelationships                          *)
(*   rows           root -> the encoded rows, in slot order                *)
(*   trees          index root page -> its entries                         *)
(* The storage of the system tables themselves is left out: they are rows, *)
(* trees and payloads like any other table's.  Map rows are inline, a tree *)
(* has one page, and a table's rows share one data page.                   *)
(*                                                                         *)
(* A step of an edit maps a file to the set of files it can leave: one, or *)
(* none when the step refuses, which abandons the whole edit.              *)
(***************************************************************************)
EXTENDS TableDefinition

CONSTANTS SystemPages,   \* header, global map, and the pages of the system tables
          Hidden         \* names of the unseen endpoint indexes, by selector + 1

ASSUME SchemaConstants == SystemPages \in Nat \ {0} /\ Hidden \in Seq(DOMAIN Fold)

Step(guard, result) == IF guard THEN {result} ELSE {}
Then(files, Op(_)) == UNION {Op(f) : f \in files}

-----------------------------------------------------------------------------
(* Pages, maps and definitions. *)

Allocate(f, tag) == [f EXCEPT !.size = @ + 1, !.kind = @ @@ (f.size :> tag)]
\* Mutant: a page that is let go is forgotten.
Forget(f, pages) == f
Release(f, pages) == [f EXCEPT !.free = @ \union pages]

\* stage_bytes: the pages already in the chain are reused in order, new ones
\* are appended and the surplus is freed, still tagged as a definition.
StageBytes(f, root, def) ==
  LET count == ChainPages(LengthOf(def))
      kept == SubSeq(def.pages, 1, Min({count, Len(def.pages)}))
      pages == kept \o [i \in 1 .. count - Len(kept) |-> f.size + i - 1]
      new == ToSet(pages) \ ToSet(kept)
  IN [f EXCEPT !.size = @ + Cardinality(new),
               !.kind = [p \in ToSet(pages) |-> "definition"] @@ @,
               !.free = @ \union (ToSet(def.pages) \ ToSet(kept)),
               !.defs = (root :> [def EXCEPT !.pages = pages]) @@ @]

\* One new page per map, its bits in row 0.
NewMap(f) == <<f.size, 0>>
CreateMap(f, members) == [Allocate(f, "data") EXCEPT !.maps = (NewMap(f) :> members) @@ @]

Locators(def) ==
  {def.owned, def.available} \union {p.map : p \in ToSet(def.physical)}
    \union UNION {{g.owned, g.available} : g \in ToSet(def.longMaps)}
MapCount(def) == 2 + Len(def.physical) + 2 * Len(def.longMaps)

RetireMap(f, locator) ==
  Step(/\ f.maps[locator] = {}
       /\ \A o \in f.objects : o.kind = "table" => locator \notin Locators(f.defs[o.id]),
       LET left == DOMAIN f.maps \ {locator}
           last == \A l \in left : l[1] # locator[1]
       IN [f EXCEPT !.maps = [l \in left |-> f.maps[l]],
                    !.free = @ \union (IF last THEN {locator[1]} ELSE {})])
RetireMaps(f, locators) == FoldSet(LAMBDA l, files : Then(files, LAMBDA g : RetireMap(g, l)), {f}, locators)

ClearMaps(f, locators) ==
  [f EXCEPT !.maps = [l \in DOMAIN @ |-> IF l \in locators THEN {} ELSE @[l]]]

-----------------------------------------------------------------------------
(* Finding and reading tables. *)

Reads(f, root) == root \in DOMAIN f.defs /\ DefinitionReads(f.defs[root], f.kind, f.maps)
Tables(f) == {o.id : o \in {x \in f.objects : x.kind = "table"}}
\* finish_record: identities differ, and a table's is a page tagged as a definition.
CatalogReads(f) ==
  /\ \A o, p \in f.objects : o.id = p.id => o = p
  /\ \A root \in Tables(f) : root \in DOMAIN f.kind /\ f.kind[root] = "definition"
ObjectOf(f, id) == CHOOSE o \in f.objects : o.id = id

\* indexed_writable_table: by exact name, a single one.
Named(f, name) == {o.id : o \in {x \in f.objects : x.kind = "table" /\ x.name = name}}
Opens(f, name) ==
  CatalogReads(f) /\ Cardinality(Named(f, name)) = 1 /\ \A root \in Named(f, name) : Reads(f, root)
RootOf(f, name) == CHOOSE root \in Named(f, name) : TRUE

Distinct(name, others) == \A other \in others : ~SameName(name, other)
NamesOf(s) == {s[i].name : i \in DOMAIN s}
NamesBut(s, i) == {s[j].name : j \in DOMAIN s \ {i}}

\* table::validate_name, among the children of the Tables container.
TableNameFree(f, name, except) ==
  Distinct(name, {o.name : o \in {x \in f.objects : x.kind = "table" /\ x.id # except}})

PositionOf(s, name) == CHOOSE i \in DOMAIN s : s[i].name = name

-----------------------------------------------------------------------------
(* Rows and index entries. *)

Payloads(f, root, column) ==
  LET def == f.defs[root]
  IN {RowValue(f.rows[root][r], def, column) : r \in DOMAIN f.rows[root]} \ {Null}

\* RowGraph::load: a data page only while there are rows, and it is the table's own.
RowsLoad(f, root) ==
  LET def == f.defs[root]
  IN /\ Len(f.rows[root]) = def.rows
     /\ (f.maps[def.owned] = {}) <=> (f.rows[root] = <<>>)
     /\ f.maps[def.available] \subseteq f.maps[def.owned]
     /\ \A r \in DOMAIN f.rows[root] : RowValid(f.rows[root][r], def)

\* LongValues::load: the pages of a column are those its values name, once each.
LongValuesLoad(f, root) ==
  LET def == f.defs[root]
  IN \A g \in ToSet(def.longMaps) :
       LET named == {v.bytes[1] : v \in Payloads(f, root, ColumnAt(def, g.column))} \ {0}
       IN f.maps[g.owned] = named /\ f.maps[g.available] \subseteq f.maps[g.owned]

IgnoreAllNull(flags) == (flags \div 2) % 2 = 1
KeyType(c) == c.type \notin LongTypes
KeyOf(def, row, fields) ==
  [i \in DOMAIN fields |-> <<fields[i].asc, RowValue(row, def, ColumnAt(def, fields[i].column))>>]
HasNull(key) == \E i \in DOMAIN key : key[i][2].null
AllNull(key) == \A i \in DOMAIN key : key[i][2].null
\* ScalarIndexEntry::encode over every row.
EntriesOf(def, rows, fields, flags) ==
  {e \in {[key |-> KeyOf(def, rows[r], fields), row |-> r] : r \in DOMAIN rows} :
     ~(IgnoreAllNull(flags) /\ AllNull(e.key))}
EntriesAccepted(entries, flags) ==
  /\ Required(flags) => \A e \in entries : ~HasNull(e.key)
  /\ Unique(flags) => \A d, e \in entries : d.key = e.key /\ ~HasNull(e.key) => d.row = e.row

\* index::mutation::load: each tree holds the rows, in pages its map owns.
IndexesLoad(f, root) ==
  LET def == f.defs[root]
  IN \A p \in ToSet(def.physical) :
       /\ p.root \in f.maps[p.map]
       /\ LET entries == EntriesOf(def, f.rows[root], p.fields, p.flags)
          IN f.trees[p.root] = entries /\ EntriesAccepted(entries, p.flags)
=============================================================================
