------------------------------ MODULE SchemaEdit ------------------------------
(***************************************************************************)
(* The schema edits (schema/*.rs).  Each is one call of edit_schema: its   *)
(* steps run on a private copy, every step re-reading what the one before  *)
(* it wrote, and the whole is published or nothing is (AtomicPublish).  An *)
(* edit is the set of files it can publish, empty when it refuses.         *)
(*                                                                         *)
(* Requests carry specs:                                                   *)
(*   column    [name, type, size, class, required, zero]                   *)
(*   index     [name, fields: <<[column, asc]>>, class, nulls], the class  *)
(*             "ordinary", "unique" or "primary"                           *)
(*   table     [name, columns, indexes]                                    *)
(*   relation  [name, parent, child, fields: <<<<parent, child>>>>, flags] *)
(***************************************************************************)
EXTENDS RelationCatalog

CONSTANT MaxIndexes   \* logical indexes of a table: 32
ASSUME IndexConstants == MaxIndexes \in Nat /\ Len(Hidden) > MaxIndexes

LowestFree(used) == Min({i \in 0 .. MaxIndexes : i \notin used})
IdsOf(def) == {x.id : x \in ToSet(def.indexes)}
ZeroLengthType(type) == type \in {"Text", "Memo"}
RuleType(type) == type \notin {"Binary", "LongBinary", "Guid"}
HasColumn(def, name) == name \in NamesOf(def.columns)
ColumnNamed(def, name) == def.columns[PositionOf(def.columns, name)]

-----------------------------------------------------------------------------
(* Properties: the <<block, property, value>> records kept with a table's  *)
(* catalog row; the block of the table itself is "".                       *)

\* reader::options: no property twice in a block, each on a column it suits.
PropsDecode(props, def) ==
  /\ \A p, q \in props : p[1] = q[1] /\ p[2] = q[2] => p = q
  /\ \A p \in props : p[2] = "AllowZeroLength" /\ HasColumn(def, p[1]) =>
       ZeroLengthType(ColumnNamed(def, p[1]).type)
PropsOf(f, root) == ObjectOf(f, root).props
StoreProps(f, root, props) ==
  [f EXCEPT !.objects = {IF o.id = root THEN [o EXCEPT !.props = props] ELSE o : o \in @}]

AddProps(props, column) ==
  IF column.class = "auto" THEN props
  ELSE props \union {<<column.name, "Required", column.required>>}
             \union (IF ZeroLengthType(column.type)
                     THEN {<<column.name, "AllowZeroLength", column.zero>>} ELSE {})
\* CreationProperties: none at all for a table without an option to state.
CreationProps(columns) ==
  IF \E c \in ToSet(columns) : ZeroLengthType(c.type) \/ c.required
  THEN FoldSeq(LAMBDA c, ps : AddProps(ps, c), {}, columns) ELSE {}
RenameProps(props, old, new) == {IF p[1] = old THEN <<new, p[2], p[3]>> ELSE p : p \in props}
\* Mutant: the options of a dropped column stay behind.
KeepProps(props, name) == props
RemoveProps(props, name) == {p \in props : p[1] # name}
ApplyProps(props, block, sets, clears) ==
  {p \in props : ~(p[1] = block /\ p[2] \in clears \union {s[1] : s \in sets})}
    \union {<<block, s[1], s[2]>> : s \in sets}
RequiredColumn(f, root, c) == <<c.name, "Required", TRUE>> \in PropsOf(f, root)
RuleStored(f, root) ==
  \E p \in PropsOf(f, root) : /\ p[2] = "ValidationRule"
                              /\ p[1] = "" \/ HasColumn(f.defs[root], p[1])

\* column_options::set; column "" is the table.  sets holds <<property, value>>.
SetProperties(f, table, column, sets, clears) ==
  IF ~Opens(f, table) THEN {}
  ELSE LET root == RootOf(f, table)
           def == f.defs[root]
           edited == ApplyProps(PropsOf(f, root), column, sets, clears)
       IN Step(/\ sets # {} \/ clears # {}
               /\ column = "" => {s[1] : s \in sets} \subseteq {"ValidationRule", "ValidationText"}
               /\ column # "" =>
                    /\ HasColumn(def, column)
                    /\ \A s \in sets :
                         /\ s[1] = "AllowZeroLength" => ZeroLengthType(ColumnNamed(def, column).type)
                         /\ s[1] = "ValidationRule" => RuleType(ColumnNamed(def, column).type)
               /\ PropsDecode(PropsOf(f, root), def) /\ PropsDecode(edited, def),
               StoreProps(f, root, edited))

-----------------------------------------------------------------------------
(* Indexes.  A change in the making is [file, def], the definition not yet *)
(* staged.                                                                 *)

SortNames(def) == [def EXCEPT !.indexes = SortSeq(@, LAMBDA a, b : Fold[a.name] < Fold[b.name])]
StageSorted(change, root) == StageBytes(change.file, root, SortNames(change.def))

IndexSpecAccepted(def, spec) ==
  /\ Distinct(spec.name, NamesOf(def.indexes))
  /\ Len(def.indexes) < MaxIndexes /\ Len(spec.fields) \in 1 .. KeySlots
  /\ spec.class = "primary" =>
       spec.nulls = "required" /\ \A x \in ToSet(def.indexes) : x.class # "primary"
  /\ \A i \in DOMAIN spec.fields :
       /\ HasColumn(def, spec.fields[i].column) /\ KeyType(ColumnNamed(def, spec.fields[i].column))
       /\ \A j \in 1 .. i - 1 : spec.fields[j].column # spec.fields[i].column

\* A tree over the rows there are, in a page and a map of its own.
BuildTree(f, root, fields, flags) ==
  LET entries == EntriesOf(f.defs[root], f.rows[root], fields, flags)
      tree == [Allocate(f, "index") EXCEPT !.trees = (f.size :> entries) @@ @]
  IN [file |-> CreateMap(tree, {f.size}),
      physical |-> [fields |-> fields, map |-> NewMap(tree), root |-> f.size, flags |-> flags]]

\* index::create: an equal physical index is shared, another one is built.
CreateIndexIn(f, root, spec) ==
  IF ~IndexSpecAccepted(f.defs[root], spec) THEN {}
  ELSE LET def == f.defs[root]
           flags == IndexFlags(spec)
           fields == [i \in DOMAIN spec.fields |->
                        [column |-> ColumnNamed(def, spec.fields[i].column).storage,
                         asc |-> spec.fields[i].asc]]
           alias == {n \in DOMAIN def.physical :
                       def.physical[n].flags = flags /\ def.physical[n].fields = fields}
           logical(n) == OrdinaryIndex(spec.name, LowestFree(IdsOf(def)), n,
                                       IF spec.class = "primary" THEN "primary" ELSE "ordinary")
           built == BuildTree(f, root, fields, flags)
       IN IF alias # {}
          THEN {[file |-> f, def |-> [def EXCEPT !.indexes = Append(@, logical(Min(alias) - 1))]]}
          ELSE Step(/\ Len(f.rows[root]) = def.rows
                    /\ EntriesAccepted(EntriesOf(def, f.rows[root], fields, flags), flags),
                    [file |-> built.file,
                     def |-> [def EXCEPT !.indexes = Append(@, logical(Len(def.physical))),
                                         !.physical = Append(@, built.physical)]])

\* remove_position: the tree goes with its last name, and later ordinals move down.
Shared(def, position) ==
  \E i \in DOMAIN def.indexes \ {position} : def.indexes[i].physical = def.indexes[position].physical
\* Mutant: the ordinals are left as they were.
KeepOrdinals(indexes, ordinal) == indexes
ShiftOrdinals(indexes, ordinal) ==
  [i \in DOMAIN indexes |-> IF indexes[i].physical > ordinal THEN [indexes[i] EXCEPT !.physical = @ - 1]
                            ELSE indexes[i]]
RemovePosition(f, root, position) ==
  LET def == f.defs[root]
      ordinal == def.indexes[position].physical
      p == def.physical[ordinal + 1]
      left == RemoveAt(def.indexes, position)
  IN IF Shared(def, position) THEN [file |-> f, def |-> [def EXCEPT !.indexes = left]]
     ELSE [file |-> [ClearMaps(Release(f, f.maps[p.map]), {p.map})
                       EXCEPT !.trees = [q \in DOMAIN @ \ {p.root} |-> @[q]]],
           def |-> [def EXCEPT !.physical = RemoveAt(@, ordinal + 1),
                               !.indexes = ShiftOrdinals(left, ordinal)]]
\* The map is retired once the definition that named it is staged.
RemoveAndRetire(f, root, position) ==
  LET def == f.defs[root]
      map == def.physical[def.indexes[position].physical + 1].map
      staged == LET change == RemovePosition(f, root, position)
                IN StageBytes(change.file, root, change.def)
  IN IF ~IndexesLoad(f, root) THEN {}
     ELSE IF Shared(def, position) THEN {staged} ELSE RetireMap(staged, map)

Editable(def, name) ==
  name \in NamesOf(def.indexes) /\ ~IsRelationship(def.indexes[PositionOf(def.indexes, name)])
CreateIndexOn(f, root, spec) ==
  IF ~IndexesLoad(f, root) THEN {}
  ELSE {StageSorted(change, root) : change \in CreateIndexIn(f, root, spec)}
CreateIndex(f, table, spec) ==
  IF ~Opens(f, table) THEN {} ELSE CreateIndexOn(f, RootOf(f, table), spec)
DropIndex(f, table, name) ==
  IF ~Opens(f, table) THEN {}
  ELSE LET root == RootOf(f, table)
           def == f.defs[root]
           at == PositionOf(def.indexes, name)
       IN IF /\ Editable(def, name)
             /\ \A x \in Endpoints(def, "primary") : x.physical # def.indexes[at].physical
          THEN RemoveAndRetire(f, root, at) ELSE {}
RenameIndex(f, table, name, new) ==
  IF ~Opens(f, table) THEN {}
  ELSE LET root == RootOf(f, table)
           def == f.defs[root]
           at == PositionOf(def.indexes, name)
       IN Step(/\ IndexesLoad(f, root) /\ Editable(def, name)
               /\ Distinct(new, NamesBut(def.indexes, at)),
               StageSorted([file |-> f, def |-> [def EXCEPT !.indexes[at].name = new]], root))
ReplaceIndex(f, table, name, spec) ==
  Then(DropIndex(f, table, name), LAMBDA g : CreateIndex(g, table, spec))
=============================================================================
