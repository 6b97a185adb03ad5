------------------------------- MODULE Composer -------------------------------
(***************************************************************************)
(* create_database: a whole file planned at once (create/*.rs and          *)
(* create/composer/*.rs), where the schema editor builds one step by step. *)
(* The pages of each table follow one another: the root, the map pages,    *)
(* the rest of the definition, the index roots, the payloads, the rows.    *)
(* Map rows are packed, so one page serves several maps, and a foreign key *)
(* may rest on an index its table declares anyway.                         *)
(*                                                                         *)
(* A request is a table spec with rows of fields; a null field of an       *)
(* AutoIncrement column asks for a number, <<1>> in a long-value column    *)
(* is a payload that fills a page of its own, <<0>> one that stays inline. *)
(***************************************************************************)
EXTENDS Validation

CONSTANT MapRowsPerPage   \* 15
ASSUME ComposerConstants == MapRowsPerPage \in Nat \ {0}

External == Val(<<1>>)
NewFile == [size |-> SystemPages, kind |-> [p \in 0 .. SystemPages - 1 |-> "system"], free |-> {},
            maps |-> <<>>, defs |-> <<>>, objects |-> {}, grants |-> {}, rels |-> {},
            rows |-> <<>>, trees |-> <<>>]

\* value_policy::check_value
PolicyAccepts(type, class, required, zero, v) ==
  /\ required => ~v.null
  /\ type = "Text" /\ class = "variable" /\ v = Val(<<>>) => zero

-----------------------------------------------------------------------------
(* The graph of relationships: relationship_graph_plan::resolve.           *)

\* select_direction, over the indexes a table declares.
Declared(table, names, flags, descending) ==
  {i \in DOMAIN table.indexes :
     LET x == table.indexes[i]
     IN /\ IndexFlags(x) \in flags /\ Len(x.fields) = Len(names)
        /\ \A n \in DOMAIN names : x.fields[n].column = names[n]
        /\ descending <=> \E n \in DOMAIN names : ~x.fields[n].asc}
Selected(table, positions) ==
  CHOOSE i \in positions : \A j \in positions : Fold[table.indexes[i].name] <= Fold[table.indexes[j].name]

ParentSources(table, names) ==
  LET ascending == Declared(table, names, {1, 9}, FALSE)
  IN IF ascending # {} THEN ascending ELSE Declared(table, names, {1, 9}, TRUE)
SideNames(r, side) == [i \in DOMAIN r.fields |-> r.fields[i][side]]

\* A graph in the making: its edges, and the indexes each table has so far.
EdgeAccepted(specs, g, r) ==
  /\ r.flags.enforced /\ Distinct(r.name, {e.spec.name : e \in ToSet(g.edges)})
  /\ {r.parent, r.child} \subseteq NamesOf(specs) /\ Len(r.fields) \in 1 .. KeySlots
  /\ LET parent == specs[PositionOf(specs, r.parent)]
         child == specs[PositionOf(specs, r.child)]
         pnames == SideNames(r, 1)
         cnames == SideNames(r, 2)
     IN /\ ToSet(pnames) \subseteq NamesOf(parent.columns) /\ ToSet(cnames) \subseteq NamesOf(child.columns)
        /\ FieldsAccepted([i \in DOMAIN pnames |-> ColumnNamed(parent, pnames[i])],
                          [i \in DOMAIN cnames |-> ColumnNamed(child, cnames[i])])
        /\ r.parent = r.child => pnames # cnames
        /\ ParentSources(parent, pnames) # {}
        /\ Distinct(r.name, NamesOf(child.indexes))
        /\ g.logical[PositionOf(specs, r.child)] < MaxIndexes

\* A tree for each side: the child's of an earlier edge, of the table, or a new
\* one; the parent's own when it ascends, that of an earlier edge, or a new one.
\* A self reference takes the child's first.
AddEdge(specs, g, r) ==
  LET parent == PositionOf(specs, r.parent)
      child == PositionOf(specs, r.child)
      pnames == SideNames(r, 1)
      cnames == SideNames(r, 2)
      ascending == Declared(specs[parent], pnames, {1, 9}, FALSE)
      source == Selected(specs[parent], ParentSources(specs[parent], pnames))
      own == Declared(specs[child], cnames, {IF r.flags.unique THEN 1 ELSE 0}, FALSE)
      asChild == {e \in ToSet(g.edges) : /\ e.child = child /\ SideNames(e.spec, 2) = cnames
                                         /\ e.spec.flags.unique = r.flags.unique}
      asParent == {e \in ToSet(g.edges) : e.parent = parent /\ SideNames(e.spec, 1) = pnames}
      foreign == CASE asChild # {} -> (CHOOSE e \in asChild : TRUE).foreign
                   [] asChild = {} /\ own # {} -> Selected(specs[child], own) - 1
                   [] OTHER -> g.physical[child]
      taken == [g.physical EXCEPT ![child] = Max({@, foreign + 1})]
      primary == CASE ascending # {} -> source - 1
                   [] ascending = {} /\ asParent # {} -> (CHOOSE e \in asParent : TRUE).primary
                   [] OTHER -> taken[parent]
      counted == [g.logical EXCEPT ![child] = @ + 1]
  IN [edges |-> Append(g.edges, [spec |-> r, parent |-> parent, child |-> child,
                                 foreign |-> foreign, primary |-> primary,
                                 childId |-> g.logical[child], parentId |-> counted[parent],
                                 nulls |-> specs[parent].indexes[source].nulls]),
      physical |-> [taken EXCEPT ![parent] = Max({@, primary + 1})],
      logical |-> [counted EXCEPT ![parent] = @ + 1]]

\* The graphs of the relations in order: one, or none when one is refused.
ResolveGraph(specs, relations) ==
  LET counts == [i \in DOMAIN specs |-> Len(specs[i].indexes)]
  IN FoldLeft(LAMBDA graphs, r : UNION {Step(EdgeAccepted(specs, g, r), AddEdge(specs, g, r)) : g \in graphs},
              {[edges |-> <<>>, physical |-> counts, logical |-> counts]}, relations)

\* The physical indexes of table t: those declared, then those the edges add.
GeneratedIndex(edges, t, ordinal) ==
  LET k == Min({n \in DOMAIN edges : \/ edges[n].child = t /\ edges[n].foreign = ordinal
                                     \/ edges[n].parent = t /\ edges[n].primary = ordinal})
      e == edges[k]
      ascend(names) == [i \in DOMAIN names |-> [column |-> names[i], asc |-> TRUE]]
  IN IF e.child = t /\ e.foreign = ordinal
     THEN [name |-> e.spec.name, fields |-> ascend(SideNames(e.spec, 2)), nulls |-> "include",
           class |-> IF e.spec.flags.unique THEN "unique" ELSE "ordinary"]
     ELSE [name |-> Hidden[e.parentId + 1], fields |-> ascend(SideNames(e.spec, 1)), nulls |-> e.nulls,
           class |-> "unique"]
PhysicalIndexes(specs, g, t) ==
  LET declared == Len(specs[t].indexes)
  IN specs[t].indexes \o [n \in 1 .. g.physical[t] - declared |-> GeneratedIndex(g.edges, t, declared + n - 1)]

\* GraphRelation::logical; a generated tree is named by its endpoint alone.
EndpointsOf(edges, t, roots) ==
  FoldLeft(LAMBDA s, e :
    LET cascade == <<e.spec.flags.updates, e.spec.flags.deletes>>
    IN s \o (IF e.child = t THEN <<RelationIndex(e.spec.name, e.childId, e.foreign, "foreign", e.parentId,
                                                 roots[e.parent], cascade)>> ELSE <<>>)
         \o (IF e.parent = t THEN <<RelationIndex(Hidden[e.parentId + 1], e.parentId, e.primary, "primary",
                                                  e.childId, roots[e.child], cascade)>> ELSE <<>>),
    <<>>, edges)
LogicalIndexes(specs, edges, t, roots) ==
  [i \in DOMAIN specs[t].indexes |->
     OrdinaryIndex(specs[t].indexes[i].name, i - 1, i - 1,
                   IF specs[t].indexes[i].class = "primary" THEN "primary" ELSE "ordinary")]
  \o EndpointsOf(edges, t, roots)

-----------------------------------------------------------------------------
(* One table: PlannedCreate.                                               *)

\* InitialAutoIncrement: rows that leave the number out are numbered from one.
Numbered(table, r, i) == table.columns[i].class = "auto" /\ table.rows[r][i].null

\* Payload pages are numbered through the rows, and through the columns of each.
PayloadOrder(table) ==
  {<<r, i>> \in (DOMAIN table.rows) \X (DOMAIN table.columns) :
     table.columns[i].type \in LongTypes /\ table.rows[r][i] = External}
Before(a, b) == a[1] < b[1] \/ (a[1] = b[1] /\ a[2] < b[2])
Lowered(table, payload, r, i) ==
  CASE Numbered(table, r, i) -> Val(<<r, 0, 0, 0>>)
    [] <<r, i>> \in PayloadOrder(table) ->
         Val(<<payload + Cardinality({b \in PayloadOrder(table) : Before(b, <<r, i>>)})>>)
    [] OTHER -> table.rows[r][i]
InitialValues(table, payload) ==
  [r \in DOMAIN table.rows |-> [i \in DOMAIN table.columns |-> Lowered(table, payload, r, i)]]

\* assign_pages: where each run of pages starts.
Places(root, table, physical, logical) ==
  LET long == Len(LongOf(table.columns))
      maps == CeilDiv(2 + physical + 2 * long, MapRowsPerPage)
      rest == ContinuationCount(DefinitionLen(Len(table.columns), logical, physical, long))
      trees == root + 1 + maps + rest
  IN [root |-> root, chain |-> root + 1 + maps, trees |-> trees, payload |-> trees + physical,
      data |-> trees + physical + Cardinality(PayloadOrder(table)),
      end |-> trees + physical + Cardinality(PayloadOrder(table)) + (IF table.rows = <<>> THEN 0 ELSE 1)]
MapLocation(root, n) == <<root + 1 + n \div MapRowsPerPage, n % MapRowsPerPage>>

TableAccepted(table, indexes, logical, columns, values) ==
  /\ SchemaPlanned([columns |-> table.columns, indexes |-> indexes]) /\ OptionsAccepted(table.columns)
  /\ Len(logical) <= MaxIndexes
  /\ \A i \in DOMAIN logical : Distinct(logical[i].name, NamesBut(logical, i))
  /\ \A r \in DOMAIN values :
       /\ \A i \in DOMAIN columns :
            LET c == table.columns[i] IN PolicyAccepts(c.type, c.class, c.required, c.zero, values[r][i])
       /\ RowAccepted(columns, values[r])

\* resolve_index_fields, by the storage ordinals of a new table.
ResolveFields(columns, fields) ==
  [i \in DOMAIN fields |-> [column |-> PositionOf(columns, fields[i].column) - 1, asc |-> fields[i].asc]]

\* encode_definition; map rows in order: owned, available, one per tree, two per long column.
PlannedDefinition(table, at, columns, indexes, logical) ==
  LET long == LongOf(columns)
      map(n) == MapLocation(at.root, n)
      longAt(i) == 2 + Len(indexes) + 2 * (i - 1)
  IN SortNames(
       [NewDefinition(columns, map(0), map(1),
                      [i \in DOMAIN long |-> [column |-> long[i].storage, owned |-> map(longAt(i)),
                                              available |-> map(longAt(i) + 1)]],
                      <<at.root>> \o [n \in 1 .. at.trees - at.chain |-> at.chain + n - 1])
          EXCEPT !.rows = Len(table.rows), !.indexes = logical,
                 !.physical = [n \in DOMAIN indexes |->
                                 [fields |-> ResolveFields(columns, indexes[n].fields), map |-> map(1 + n),
                                  root |-> at.trees + n - 1, flags |-> IndexFlags(indexes[n])]]])

\* map_page_at and table_map_row: the one data page still has room.
MapRows(table, at, def, values) ==
  LET payloads(storage) == {values[x[1]][x[2]].bytes[1] : x \in {y \in PayloadOrder(table) : y[2] = storage + 1}}
  IN [l \in {def.owned, def.available} |-> at.data .. at.end - 1]
       @@ [l \in {p.map : p \in ToSet(def.physical)} |-> {p.root : p \in {q \in ToSet(def.physical) : q.map = l}}]
       @@ [l \in {g.owned : g \in ToSet(def.longMaps)} |->
             UNION {payloads(g.column) : g \in {h \in ToSet(def.longMaps) : h.owned = l}}]
       @@ [l \in {g.available : g \in ToSet(def.longMaps)} |-> {}]

\* InitialScalarIndex: an entry per row and tree.
InitialEntries(def, rows, q) ==
  LET p == CHOOSE x \in ToSet(def.physical) : x.root = q IN EntriesOf(def, rows, p.fields, p.flags)
InitialTrees(def, rows) ==
  [q \in {p.root : p \in ToSet(def.physical)} |-> InitialEntries(def, rows, q)]
InitialAccepted(def, trees) == \A p \in ToSet(def.physical) : EntriesAccepted(trees[p.root], p.flags)

\* append_pages: the pages of the table, in the order they are written.
PageKind(at, p) ==
  CASE p \in {at.root} \union (at.chain .. at.trees - 1) -> "definition"
    [] p \in at.trees .. at.payload - 1 -> "index"
    [] p \in at.payload .. at.data - 1 -> "payload"
    [] OTHER -> "data"
AppendPages(f, table, at, def, values, rows, trees) ==
  [f EXCEPT !.size = at.end, !.kind = [p \in at.root .. at.end - 1 |-> PageKind(at, p)] @@ @,
            !.maps = MapRows(table, at, def, values) @@ @,
            !.defs = (at.root :> def) @@ @, !.rows = (at.root :> rows) @@ @, !.trees = trees @@ @,
            !.objects = @ \union {[id |-> at.root, name |-> table.name, kind |-> "table",
                                   props |-> CreationProps(table.columns)]},
            !.grants = @ \union {at.root}]

ComposeTable(f, table, at, indexes, logical) ==
  LET columns == LayColumns(table.columns)
  IN UNION {{AppendPages(f, table, at, def, values, rows, trees) :
               trees \in {t \in {InitialTrees(def, rows)} : InitialAccepted(def, t)}} :
              <<def, values, rows>> \in
                {<<d, v, [r \in DOMAIN v |-> WriteRow(columns, v[r])]>> :
                   d \in EncodeDefinition(PlannedDefinition(table, at, columns, indexes, logical)),
                   v \in {w \in {InitialValues(table, at.payload)} :
                            TableAccepted(table, indexes, logical, columns, w)}}}

-----------------------------------------------------------------------------
(* The whole file: compose and assemble of relationship_graph.rs.          *)

\* The parent tree must hold the key of every child row that has one.
Orphans(f, e, roots) ==
  LET pdef == f.defs[roots[e.parent]]
      p == pdef.physical[e.primary + 1]
      cdef == f.defs[roots[e.child]]
      key(row) == [i \in DOMAIN e.spec.fields |-> <<TRUE, RowValue(row, cdef, ColumnNamed(cdef, e.spec.fields[i][2]))>>]
  IN {r \in DOMAIN f.rows[roots[e.child]] :
        LET k == key(f.rows[roots[e.child]][r])
        IN ~AllNull(k) /\ \A entry \in f.trees[p.root] : entry.key # k}

Assemble(f, edges) ==
  [f EXCEPT !.objects = @ \union {[id |-> -n, name |-> edges[n].spec.name, kind |-> "relationship", props |-> {}] :
                                    n \in DOMAIN edges},
            !.grants = @ \union {-n : n \in DOMAIN edges},
            !.rels = UNION {RelationRows(e.spec) : e \in ToSet(edges)}]

\* Where each table goes, one after another.
TablePlaces(specs, g) ==
  FoldLeft(LAMBDA places, t :
             Append(places, Places(IF places = <<>> THEN SystemPages ELSE places[Len(places)].end,
                                   specs[t], g.physical[t], g.logical[t])),
           <<>>, [t \in DOMAIN specs |-> t])
ComposeGraph(specs, g, places) ==
  LET roots == [t \in DOMAIN specs |-> places[t].root]
      files == FoldLeft(LAMBDA fs, t : Then(fs, LAMBDA f :
                   ComposeTable(f, specs[t], places[t], PhysicalIndexes(specs, g, t),
                                LogicalIndexes(specs, g.edges, t, roots))),
                 {NewFile}, [t \in DOMAIN specs |-> t])
  IN UNION {Step(\A e \in ToSet(g.edges) : Orphans(f, e, roots) = {}, Assemble(f, g.edges)) : f \in files}
\* The graphs there are to compose.
Graphs(specs, relations) ==
  IF \A i \in DOMAIN specs : Distinct(specs[i].name, NamesBut(specs, i)) THEN ResolveGraph(specs, relations) ELSE {}
=============================================================================
