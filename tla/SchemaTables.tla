----------------------------- MODULE SchemaTables -----------------------------
(***************************************************************************)
(* The schema edits of whole tables, of columns and of relationships       *)
(* (schema/table*.rs, column*.rs, catalog.rs, relationship_*.rs).          *)
(***************************************************************************)
EXTENDS SchemaEdit

-----------------------------------------------------------------------------
(* Relationships. *)

\* select_parent: a unique index on exactly these columns, by least name.
ParentIndexes(def, columns, descending) ==
  {x \in ToSet(def.indexes) :
     LET p == def.physical[x.physical + 1]
     IN /\ p.flags \in {1, 9} /\ Len(p.fields) = Len(columns)
        /\ \A i \in DOMAIN columns : p.fields[i].column = columns[i].storage
        /\ descending <=> \E i \in DOMAIN columns : ~p.fields[i].asc}
LeastNamed(indexes) == CHOOSE x \in indexes : \A y \in indexes : Fold[x.name] <= Fold[y.name]

\* add_endpoint, over an index just made or the parent's own.
AddEndpoint(f, root, e) ==
  LET def == f.defs[root]
      record(n) == RelationIndex(e.name, e.id, n, e.side, e.other, e.related, e.cascade)
      spec == [name |-> e.name, class |-> e.class, nulls |-> e.nulls,
               fields |-> [i \in DOMAIN e.columns |-> [column |-> e.columns[i].name, asc |-> TRUE]]]
      reused == [file |-> f, def |-> [def EXCEPT !.indexes = Append(@, record(e.reuse))]]
      made == {[c EXCEPT !.def.indexes[Len(c.def.indexes)] = record(Last(c.def.indexes).physical)] :
                 c \in CreateIndexIn(f, root, spec)}
  IN IF ~(Reads(f, root) /\ IndexesLoad(f, root)) THEN {}
     ELSE {StageSorted(c, root) :
             c \in (IF e.reuse < 0 THEN made ELSE Step(Distinct(e.name, NamesOf(def.indexes)), reused))}

ObjectIdentity(f) == 1 + Max({0} \union {-o.id : o \in {x \in f.objects : x.kind = "relationship"}})
RelationNameFree(f, name) == Distinct(name, {o.name : o \in {x \in f.objects : x.kind = "relationship"}})
RelationRows(r) ==
  {[name |-> r.name, flags |-> r.flags, count |-> Len(r.fields), ordinal |-> i - 1,
    parent |-> r.parent, parentColumn |-> r.fields[i][1],
    child |-> r.child, childColumn |-> r.fields[i][2]] : i \in DOMAIN r.fields}
\* publish; the ids of relationships are a series apart, below zero.
PublishRelation(f, spec) ==
  LET id == -ObjectIdentity(f)
      listed == [f EXCEPT !.rels = @ \union RelationRows(spec),
                   !.objects = @ \union {[id |-> id, name |-> spec.name, kind |-> "relationship", props |-> {}]},
                   !.grants = @ \union {id}]
  IN {g \in {listed} : RelationsValidate(g)}

FieldsExist(f, spec) ==
  \A i \in DOMAIN spec.fields : /\ HasColumn(f.defs[RootOf(f, spec.parent)], spec.fields[i][1])
                                /\ HasColumn(f.defs[RootOf(f, spec.child)], spec.fields[i][2])
FieldsAccepted(parentColumns, childColumns) ==
  /\ \A i \in DOMAIN childColumns :
       childColumns[i].class # "auto" /\ Compatible(parentColumns[i], childColumns[i])
  /\ Differ(parentColumns) /\ Differ(childColumns)
EnforcedRelation(f, spec) ==
  LET parent == RootOf(f, spec.parent)
      child == RootOf(f, spec.child)
      pdef == f.defs[parent]
      cdef == f.defs[child]
      same == parent = child
      pcols == [i \in DOMAIN spec.fields |-> ColumnNamed(pdef, spec.fields[i][1])]
      ccols == [i \in DOMAIN spec.fields |-> ColumnNamed(cdef, spec.fields[i][2])]
      ascending == ParentIndexes(pdef, pcols, FALSE)
      descending == ParentIndexes(pdef, pcols, TRUE)
      source == LeastNamed(IF ascending # {} THEN ascending ELSE descending)
      childId == LowestFree(IdsOf(cdef))
      parentId == LowestFree(IdsOf(pdef) \union (IF same THEN {childId} ELSE {}))
      cascade == <<spec.flags.updates, spec.flags.deletes>>
      foreign == [name |-> spec.name, columns |-> ccols, class |-> IF spec.flags.unique THEN "unique" ELSE "ordinary",
                  nulls |-> "include", side |-> "foreign", id |-> childId, other |-> parentId,
                  related |-> parent, reuse |-> -1, cascade |-> cascade]
      primary == [name |-> Hidden[parentId + 1], columns |-> pcols, class |-> "unique",
                  nulls |-> IF pdef.physical[source.physical + 1].flags = 9 THEN "required" ELSE "include",
                  side |-> "primary", id |-> parentId, other |-> childId, related |-> child,
                  reuse |-> IF ascending # {} THEN source.physical ELSE -1, cascade |-> cascade]
  IN IF /\ Len(spec.fields) \in 1 .. KeySlots /\ FieldsAccepted(pcols, ccols)
        /\ same => pcols # ccols
        /\ Len(cdef.indexes) + 1 + (IF same THEN 1 ELSE 0) <= MaxIndexes
        /\ Len(pdef.indexes) + 1 <= MaxIndexes
        /\ Distinct(spec.name, NamesOf(cdef.indexes))
        /\ ascending # {} \/ descending # {}
     THEN Then(AddEndpoint(f, child, foreign), LAMBDA g :
            Then(AddEndpoint(g, parent, primary), LAMBDA h : PublishRelation(h, spec)))
     ELSE {}

CreateRelationship(f, spec) ==
  IF /\ RelationNameFree(f, spec.name) /\ RelationsValidate(f)
     /\ Opens(f, spec.parent) /\ Opens(f, spec.child) /\ FieldsExist(f, spec)
  THEN IF spec.flags.enforced THEN EnforcedRelation(f, spec)
       ELSE Then(Step(~spec.flags.updates /\ ~spec.flags.deletes /\ spec.fields # <<>>, f),
                 LAMBDA g : PublishRelation(g, spec))
  ELSE {}

RemoveEndpoint(f, root, id) ==
  IF ~Reads(f, root) THEN {}
  ELSE RemoveAndRetire(f, root, CHOOSE i \in DOMAIN f.defs[root].indexes :
                             IsRelationship(f.defs[root].indexes[i]) /\ f.defs[root].indexes[i].id = id)
DropRelationship(f, name) ==
  LET group == {r \in f.rels : r.name = name}
      objects == {o \in f.objects : o.kind = "relationship" /\ o.name = name}
      parted == IF \A r \in group : ~r.flags.enforced THEN {f}
                ELSE UNION {Then(RemoveEndpoint(f, c.child, c.foreign.id),
                                 LAMBDA g : RemoveEndpoint(g, c.parent, c.primary.id)) : c \in Constraints(f, group)}
      unlist(g) == [g EXCEPT !.rels = @ \ group, !.objects = @ \ objects,
                             !.grants = @ \ {o.id : o \in objects}]
  IN IF RelationsValidate(f) /\ group # {} /\ Cardinality(objects) = 1
     THEN {g \in {unlist(h) : h \in parted} : RelationsValidate(g)}
     ELSE {}
ReplaceRelationship(f, name, spec) ==
  Then(DropRelationship(f, name), LAMBDA g : CreateRelationship(g, spec))

-----------------------------------------------------------------------------
(* Tables. *)

\* plan_table_schema: what a new schema must satisfy before any page is planned.
IndexesPlanned(spec) ==
  /\ Len(spec.indexes) <= MaxIndexes
  /\ Cardinality({i \in DOMAIN spec.indexes : spec.indexes[i].class = "primary"}) <= 1
  /\ \A i \in DOMAIN spec.indexes :
       LET x == spec.indexes[i]
       IN /\ x.class = "primary" => x.nulls = "required"
          /\ Len(x.fields) \in 1 .. KeySlots
          /\ \A n \in DOMAIN x.fields :
               /\ \E c \in ToSet(spec.columns) : c.name = x.fields[n].column /\ KeyType(c)
               /\ \A o \in 1 .. n - 1 : x.fields[o].column # x.fields[n].column
          /\ Distinct(x.name, {spec.indexes[j].name : j \in 1 .. i - 1})
SchemaPlanned(spec) ==
  /\ spec.columns # <<>> /\ Len(spec.columns) <= MaxColumns
  /\ \A i \in DOMAIN spec.columns :
       Distinct(spec.columns[i].name, {spec.columns[j].name : j \in 1 .. i - 1})
  /\ ColumnLayoutAccepted(spec.columns) /\ IndexesPlanned(spec)
OptionsAccepted(columns) ==
  /\ Cardinality({i \in DOMAIN columns : columns[i].class = "auto"}) <= 1
  /\ \A c \in ToSet(columns) : c.zero => ZeroLengthType(c.type)

LongOf(columns) == SelectSeq(columns, LAMBDA c : c.type \in LongTypes)
NewDefinition(columns, owned, available, longMaps, pages) ==
  [rows |-> 0, storage |-> Len(columns), variables |-> VariableCount(columns), columns |-> columns,
   physical |-> <<>>, indexes |-> <<>>, longMaps |-> longMaps, owned |-> owned,
   available |-> available, pages |-> pages]
CreateTable(f, spec) ==
  LET root == f.size
      columns == LayColumns(spec.columns)
      long == LongOf(columns)
      count == 2 + 2 * Len(long)
      mapped[n \in 0 .. count] == IF n = 0 THEN Allocate(f, "definition") ELSE CreateMap(mapped[n - 1], {})
      map(n) == <<root + n, 0>>
      groups == [i \in DOMAIN long |-> [column |-> long[i].storage, owned |-> map(2 * i + 1),
                                        available |-> map(2 * i + 2)]]
      encoded == EncodeDefinition(NewDefinition(columns, map(1), map(2), groups, <<root>>))
      listed(def) == [StageBytes(mapped[count], root, def) EXCEPT !.rows = (root :> <<>>) @@ @, !.grants = @ \union {root},
                   !.objects = @ \union {[id |-> root, name |-> spec.name, kind |-> "table",
                                                props |-> CreationProps(spec.columns)]}]
  IN IF SchemaPlanned(spec) /\ OptionsAccepted(spec.columns) /\ TableNameFree(f, spec.name, -1)
     THEN FoldLeft(LAMBDA files, x : Then(files, LAMBDA g :
                       IF Reads(g, root) THEN CreateIndexOn(g, root, x) ELSE {}),
                   {listed(def) : def \in encoded}, spec.indexes)
     ELSE {}

RenameTable(f, old, new) ==
  IF ~Opens(f, old) THEN {}
  ELSE LET root == RootOf(f, old)
           renamed(name) == IF SameName(name, old) THEN new ELSE name
           after == [f EXCEPT !.objects = {IF o.id = root THEN [o EXCEPT !.name = new] ELSE o : o \in @},
                              !.rels = {[r EXCEPT !.child = renamed(@), !.parent = renamed(@)] : r \in @}]
       IN IF TableNameFree(f, new, root) /\ RelationsValidate(f)
          THEN {g \in {after} : RelationsValidate(g)} ELSE {}

\* release_table: every page of its maps and its chain, if no other table has a claim.
Members(f, def) == UNION {f.maps[l] : l \in Locators(def)}
Alone(f, root) ==
  LET def == f.defs[root]
      content == Members(f, def) \union ToSet(def.pages)
      metadata == {l[1] : l \in Locators(def)}
  IN /\ Cardinality(Locators(def)) = MapCount(def)
     /\ \A other \in Tables(f) \ {root} :
          LET o == f.defs[other]
          IN /\ ToSet(o.pages) \intersect (content \union metadata) = {}
             /\ Locators(o) \intersect Locators(def) = {}
             /\ {l[1] : l \in Locators(o)} \intersect content = {}
             /\ Members(f, o) \intersect (content \union metadata) = {}
ReleaseTable(f, root) ==
  Step(RowsLoad(f, root) /\ LongValuesLoad(f, root) /\ IndexesLoad(f, root) /\ Alone(f, root),
       ClearMaps(Release(f, Members(f, f.defs[root]) \union ToSet(f.defs[root].pages)), Locators(f.defs[root])))
DropListed(f, root) ==
  LET def == f.defs[root]
      gone == [f EXCEPT !.objects = {o \in @ : o.id # root}, !.grants = @ \ {root}]
      retag(g) == [g EXCEPT !.kind = [p \in ToSet(def.pages) |-> "retired"] @@ @,
                            !.defs = [r \in DOMAIN @ \ {root} |-> @[r]],
                            !.rows = [r \in DOMAIN @ \ {root} |-> @[r]],
                            !.trees = [q \in DOMAIN @ \ {p.root : p \in ToSet(def.physical)} |-> @[q]]]
  IN {retag(g) : g \in RetireMaps(gone, Locators(def))}
\* Mutant: only the relationships with endpoint indexes are looked for.
TouchingEnforced(f, name) ==
  {g \in Groups(f) : \E r \in g : r.flags.enforced /\ (SameName(r.parent, name) \/ SameName(r.child, name))}
Touching(f, name) ==
  {g \in Groups(f) : \E r \in g : SameName(r.parent, name) \/ SameName(r.child, name)}
DropTable(f, name) ==
  LET root == RootOf(f, name)
      names == {r.name : r \in UNION Touching(f, name)}
  IN IF /\ Opens(f, name) /\ RelationsValidate(f)
        /\ \A g \in Touching(f, name) : \A r \in g :
             r.flags.enforced /\ SameName(r.parent, name) => SameName(r.child, name)
     THEN Then(FoldSet(LAMBDA n, files : Then(files, LAMBDA g : DropRelationship(g, n)), {f}, names), LAMBDA g :
            IF /\ Opens(g, name) /\ RelationsValidate(g)
               /\ \A x \in ToSet(g.defs[root].indexes) : ~IsRelationship(x)
            THEN Then(ReleaseTable(g, root), LAMBDA h : DropListed(h, root))
            ELSE {})
     ELSE {}

-----------------------------------------------------------------------------
(* Columns. *)

RenameColumn(f, table, old, new) ==
  IF ~Opens(f, table) THEN {}
  ELSE LET root == RootOf(f, table)
           def == f.defs[root]
           at == PositionOf(def.columns, old)
           moved(owner, column) == IF SameName(owner, table) /\ SameName(column, old) THEN new ELSE column
           staged == StageBytes(StoreProps(f, root, RenameProps(PropsOf(f, root), old, new)),
                                root, [def EXCEPT !.columns[at].name = new])
           after == [staged EXCEPT !.rels = {[r EXCEPT !.childColumn = moved(r.child, @),
                                                   !.parentColumn = moved(r.parent, @)] : r \in @}]
       IN IF /\ HasColumn(def, old) /\ Distinct(new, NamesBut(def.columns, at))
             /\ RelationsValidate(f) /\ PropsDecode(PropsOf(f, root), def)
          THEN {g \in {after} : /\ Reads(g, root) /\ PropsDecode(PropsOf(g, root), g.defs[root])
                                /\ RelationsValidate(g)}
          ELSE {}

\* The record goes; the storage counts, and so the identities of the others, stay.
DropColumn(f, table, name) ==
  IF ~(Opens(f, table) /\ HasColumn(f.defs[RootOf(f, table)], name)) THEN {}
  ELSE LET root == RootOf(f, table)
           def == f.defs[root]
           at == PositionOf(def.columns, name)
           storage == def.columns[at].storage
           groups == {g \in ToSet(def.longMaps) : g.column = storage}
           maps == UNION {{g.owned, g.available} : g \in groups}
           freed == ClearMaps(Release(f, UNION {f.maps[g.owned] : g \in groups}), maps)
           cut == [def EXCEPT !.columns = RemoveAt(@, at),
                              !.longMaps = SelectSeq(@, LAMBDA g : g.column # storage)]
           staged == StageBytes(StoreProps(freed, root, RemoveProps(PropsOf(f, root), name)), root, cut)
       IN IF /\ Len(def.columns) > 1
             /\ \A p \in ToSet(def.physical) : \A i \in DOMAIN p.fields : p.fields[i].column # storage
             /\ RelationsValidate(f)
             /\ \A r \in f.rels : /\ ~(SameName(r.parent, table) /\ SameName(r.parentColumn, name))
                                  /\ ~(SameName(r.child, table) /\ SameName(r.childColumn, name))
             /\ RowsLoad(f, root) /\ LongValuesLoad(f, root) /\ PropsDecode(PropsOf(f, root), def)
          THEN RetireMaps(staged, maps) ELSE {}

\* fixed_offset: the lowest gap the live columns leave.
FixedOffset(def, spec) ==
  IF ~Occupies(spec) THEN 0
  ELSE Min({o \in 0 .. FixedBytes(def.columns) :
              \A c \in ToSet(def.columns) : ~Overlap(c, [spec EXCEPT !.offset = o])})
ColumnShape(c) == [name |-> c.name, type |-> c.type, size |-> c.size, class |-> c.class]

\* backfill_auto: each row is re-encoded with its number, then the column turns.
Backfill(f, root, storage) ==
  LET def == f.defs[root]
      values(r) == [i \in DOMAIN def.columns |->
                      IF def.columns[i].storage = storage THEN Val(<<r, 0, 0, 0>>)
                      ELSE RowValue(f.rows[root][r], def, def.columns[i])]
      at == CHOOSE i \in DOMAIN def.columns : def.columns[i].storage = storage
      filled == [r \in DOMAIN f.rows[root] |-> WriteRow(def.columns, values(r))]
  IN Step(/\ f.rows[root] # <<>> => PropsDecode(PropsOf(f, root), def) /\ ~RuleStored(f, root)
          /\ \A r \in DOMAIN f.rows[root] : RowAccepted(def.columns, values(r)),
          StageBytes([f EXCEPT !.rows[root] = filled], root, [def EXCEPT !.columns[at].class = "auto"]))

CreateColumn(f, table, spec) ==
  IF ~Opens(f, table) THEN {}
  ELSE LET root == RootOf(f, table)
           def == f.defs[root]
           plain == IF spec.class = "auto" THEN "fixed" ELSE spec.class
           shape == [ColumnShape(spec) EXCEPT !.class = plain] @@ [offset |-> 0]
           column == ResolveColumn(shape, def.storage, FixedOffset(def, shape), def.variables)
           long == spec.type \in LongTypes
           maps == IF long THEN CreateMap(CreateMap(f, {}), {}) ELSE f
           group == [column |-> def.storage, owned |-> <<f.size, 0>>, available |-> <<f.size + 1, 0>>]
           grown == [def EXCEPT !.columns = Append(@, column), !.storage = @ + 1,
                       !.variables = IF IsVariable(spec) THEN @ + 1 ELSE @,
                       !.longMaps = IF long THEN Append(@, group) ELSE @]
           staged == StageBytes(maps, root, grown)
           g == StoreProps(staged, root, AddProps(PropsOf(f, root), spec))
           nulls == [i \in DOMAIN grown.columns |-> Null]
       IN IF /\ Distinct(spec.name, NamesOf(def.columns))
             /\ spec.zero => ZeroLengthType(spec.type)
             /\ spec.class = "auto" => \A c \in ToSet(def.columns) : c.class # "auto"
             /\ SchemaPlanned([columns |-> Append([i \in DOMAIN def.columns |-> ColumnShape(def.columns[i])], ColumnShape(spec)),
                               indexes |-> <<>>])
             /\ PropsDecode(PropsOf(f, root), def)
             /\ def.storage < MaxColumns /\ def.variables < MaxColumns
             /\ Reads(staged, root) /\ RowAccepted(grown.columns, nulls)
          THEN IF spec.class = "auto" THEN Backfill(g, root, def.storage) ELSE {g}
          ELSE {}
=============================================================================
