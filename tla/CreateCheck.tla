------------------------------ MODULE CreateCheck ------------------------------
(***************************************************************************)
(* create_database composes the pages, writes them to a private file,      *)
(* opens that file again and compares what it reads with the request; only *)
(* then is it published (create/api.rs, check.rs, api_relationship_graph.rs*)
(* and graph_schema_check.rs).  The comparison works out for itself where  *)
(* each index of a relationship must be, apart from the composer.          *)
(***************************************************************************)
EXTENDS Composer

TablesNamed(f, name) == {o \in f.objects : o.kind = "table" /\ o.name = name}
RootNamed(f, name) == (CHOOSE o \in TablesNamed(f, name) : TRUE).id
\* image_table_roots
CatalogMatches(f, specs) ==
  /\ \A t \in DOMAIN specs : Cardinality(TablesNamed(f, specs[t].name)) = 1
  /\ Cardinality({o \in f.objects : o.kind = "table"}) = Len(specs)

CheckColumns(def, table) ==
  /\ Len(def.columns) = Len(table.columns)
  /\ \A i \in DOMAIN def.columns : ColumnShape(def.columns[i]) = ColumnShape(table.columns[i])
TreeMatches(p, table, flags, fields) == p.flags = flags /\ p.fields = ResolveFields(table.columns, fields)
DeclaredClass(x) == IF x.class = "primary" THEN "primary" ELSE "ordinary"

\* check_table: no index but the declared ones.
CheckTable(def, table) ==
  /\ CheckColumns(def, table)
  /\ Len(def.physical) = Len(table.indexes) /\ Len(def.indexes) = Len(table.indexes)
  /\ \A x \in ToSet(def.indexes) :
       LET wanted == table.indexes[x.physical + 1]
       IN /\ x.physical < Len(table.indexes)
          /\ x.name = wanted.name /\ x.class = DeclaredClass(wanted)
          /\ TreeMatches(def.physical[x.physical + 1], table, IndexFlags(wanted), wanted.fields)
CheckImage(f, specs) ==
  /\ CatalogMatches(f, specs)
  /\ \A t \in DOMAIN specs : LET root == RootNamed(f, specs[t].name)
                             IN Reads(f, root) /\ CheckTable(f.defs[root], specs[t])

\* check_initial_index_map: the map of a tree and its nodes.
IndexMapMatches(f, p) == f.maps[p.map] = {p.root}
\* check_initial_table_rows_from: rows, payloads and declared trees, encoded again.
CheckRows(f, table, root, payload) ==
  LET def == f.defs[root]
      columns == LayColumns(table.columns)
      values == InitialValues(table, payload)
  IN /\ Reads(f, root) /\ RowsLoad(f, root)
     /\ Len(f.rows[root]) = Len(table.rows)
     /\ \A r \in DOMAIN table.rows : f.rows[root][r] = WriteRow(columns, values[r])
     /\ \A x \in PayloadOrder(table) : f.kind[values[x[1]][x[2]].bytes[1]] = "payload"
     /\ \A n \in DOMAIN table.indexes :
          /\ n <= Len(def.physical) /\ IndexMapMatches(f, def.physical[n])
          /\ f.trees[def.physical[n].root] =
               EntriesOf(def, f.rows[root], ResolveFields(columns, table.indexes[n].fields), IndexFlags(table.indexes[n]))
\* check_initial_tables; initial_payload_start plans the table once more.
CheckInitialTables(f, specs) ==
  \A t \in DOMAIN specs :
    LET root == RootNamed(f, specs[t].name)
        declared == Len(specs[t].indexes)
    IN CheckRows(f, specs[t], root, Places(root, specs[t], declared, declared).payload)

-----------------------------------------------------------------------------
(* graph_schema_check.rs. *)

\* The endpoints a table must have, in order: of a self reference the child's first.
EndpointsWanted(table, relations) ==
  FoldLeft(LAMBDA s, r :
             s \o (IF r.child = table.name THEN <<[spec |-> r, side |-> "foreign", names |-> SideNames(r, 2)]>> ELSE <<>>)
               \o (IF r.parent = table.name THEN <<[spec |-> r, side |-> "primary", names |-> SideNames(r, 1)]>> ELSE <<>>),
           <<>>, relations)
Serving(table, e, descending) ==
  Declared(table, e.names, IF e.side = "primary" THEN {1, 9} ELSE {IF e.spec.flags.unique THEN 1 ELSE 0}, descending)
TreeKey(e) == <<e.side, e.names, e.side = "foreign" /\ e.spec.flags.unique>>
\* The trees no declared index serves, each once, as they are first needed.
GeneratedTrees(table, wanted) ==
  FoldLeft(LAMBDA s, e : IF Serving(table, e, FALSE) # {} \/ TreeKey(e) \in ToSet(s) THEN s
                         ELSE Append(s, TreeKey(e)),
           <<>>, wanted)
TreeOf(table, generated, e) ==
  IF Serving(table, e, FALSE) # {} THEN Selected(table, Serving(table, e, FALSE))
  ELSE Len(table.indexes) + (CHOOSE k \in DOMAIN generated : generated[k] = TreeKey(e))
\* A new parent tree has the flags of the falling index it stands for.
TreeFlags(table, e) ==
  IF e.side = "foreign" THEN {IF e.spec.flags.unique THEN 1 ELSE 0}
  ELSE IF Serving(table, e, FALSE) # {} THEN {1, 9}
  ELSE {IndexFlags(table.indexes[Selected(table, Serving(table, e, TRUE))])}

CheckRelation(def, name, tree, target, side, selector, flags) ==
  LET matching == {i \in DOMAIN def.indexes : IsRelationship(def.indexes[i]) /\ def.indexes[i].name = name}
  IN /\ Cardinality(matching) = 1
     /\ \A i \in matching :
          LET x == def.indexes[i]
          IN /\ x.physical = tree - 1 /\ x.related = target /\ x.side = side /\ x.id = selector
             /\ x.cascade = <<flags.updates, flags.deletes>>
CheckEndpoint(def, table, wanted, generated, n, roots) ==
  LET e == wanted[n]
      tree == TreeOf(table, generated, e)
      selector == Len(table.indexes) + n - 1
      name == IF e.side = "foreign" THEN e.spec.name ELSE Hidden[selector + 1]
      other == IF e.side = "foreign" THEN e.spec.parent ELSE e.spec.child
  IN /\ tree <= Len(def.physical)
     /\ def.physical[tree].flags \in TreeFlags(table, e)
     /\ def.physical[tree].fields =
          ResolveFields(table.columns, [i \in DOMAIN e.names |-> [column |-> e.names[i], asc |-> TRUE]])
     /\ CheckRelation(def, name, tree, roots[other], e.side, selector, e.spec.flags)
CheckDeclared(def, table, n) ==
  LET wanted == table.indexes[n]
      named == {i \in DOMAIN def.indexes : def.indexes[i].name = wanted.name}
  IN /\ n <= Len(def.physical)
     /\ TreeMatches(def.physical[n], table, IndexFlags(wanted), wanted.fields)
     /\ Cardinality(named) = 1
     /\ \A i \in named : def.indexes[i].physical = n - 1 /\ def.indexes[i].class = DeclaredClass(wanted)
CheckGraphSchema(def, table, wanted, generated, roots) ==
  /\ \A n \in DOMAIN table.indexes : CheckDeclared(def, table, n)
  /\ \A n \in DOMAIN wanted : CheckEndpoint(def, table, wanted, generated, n, roots)
  /\ Len(def.physical) = Len(table.indexes) + Len(generated)
  /\ Len(def.indexes) = Len(table.indexes) + Len(wanted)

\* check_graph; the planned places name the roots and the first payloads.
CheckGraph(f, specs, relations, places) ==
  LET roots == [name \in NamesOf(specs) |-> places[PositionOf(specs, name)].root]
  IN /\ CatalogMatches(f, specs)
     /\ \A t \in DOMAIN specs :
          /\ RootNamed(f, specs[t].name) = places[t].root
          /\ CheckRows(f, specs[t], places[t].root, places[t].payload)
          /\ CheckColumns(f.defs[places[t].root], specs[t])
          /\ \A wanted \in {EndpointsWanted(specs[t], relations)} :
               /\ CheckGraphSchema(f.defs[places[t].root], specs[t], wanted, GeneratedTrees(specs[t], wanted), roots)
               /\ Cardinality({x \in ToSet(f.defs[places[t].root].indexes) : IsRelationship(x)}) = Len(wanted)
     /\ DatabaseValid(f)
     /\ Cardinality(f.rels) = MapThenSumSet(LAMBDA i : Len(relations[i].fields), DOMAIN relations)
     /\ Cardinality(Groups(f)) = Len(relations)

\* The files that pass: of tables alone, of tables with rows, of a graph.
CreateTables(specs, g) == {f \in ComposeGraph(specs, g, TablePlaces(specs, g)) : CheckImage(f, specs)}
CreateTableRows(specs, g) == {f \in CreateTables(specs, g) : CheckInitialTables(f, specs)}
CreateGraph(specs, relations, g) ==
  {f \in ComposeGraph(specs, g, TablePlaces(specs, g)) : CheckGraph(f, specs, relations, TablePlaces(specs, g))}
\* create_database: the file it publishes, or none.
CreateDatabase(specs, relations) ==
  UNION {CASE relations # <<>> -> CreateGraph(specs, relations, g)
           [] relations = <<>> /\ (\E t \in DOMAIN specs : specs[t].rows # <<>>) -> CreateTableRows(specs, g)
           [] OTHER -> CreateTables(specs, g) : g \in Graphs(specs, relations)}
=============================================================================
