-------------------------------- MODULE Schema --------------------------------
(***************************************************************************)
(* A database made by create_database and then changed by schema edits and *)
(* row insertions, one published file after another (schema/edit.rs).  An  *)
(* edit that refuses leaves the file as it was, so it is no step.          *)
(*                                                                         *)
(* A case is a file to create and the requests to make of it:              *)
(*   [tables, relations, requests, edits], requests a set of records       *)
(* with a field op, edits how many of them are made.                       *)
(*                                                                         *)
(* What the properties compare the file with is kept apart from it:        *)
(*   given      root -> per row, storage ordinal -> the value it was given *)
(*   required   the <<root, storage ordinal>> declared Required            *)
(*   late       the rows that held null in a column when it was declared   *)
(*              Required, as [root, storage, row]                          *)
(*   links      the relationships: [name, flags, parent, child, pairs], by *)
(*              root and storage ordinal where the catalog has names       *)
(***************************************************************************)
EXTENDS CreateCheck

CONSTANT Cases
\* Every case is created: none of its files is refused by the check before publication.
ASSUME CasesConstants ==
  \A n \in DOMAIN Cases : Cases[n].edits \in Nat /\ CreateDatabase(Cases[n].tables, Cases[n].relations) # {}

VARIABLES case, file, edits, given, required, late, links
vars == <<case, file, edits, given, required, late, links>>

-----------------------------------------------------------------------------
(* insert_row: the writer of table rows, beside the schema editor.         *)

\* catalog::load and mutation::check, of the relationships of one table.
KeysHold(c, before, parents, children) ==
  /\ NoneMissing(parents, children)
  \* A foreign tree before its parent tree cannot name its own row.
  /\ c.parent = c.child /\ c.foreign.physical <= c.primary.physical => NoneMissing(before, children)
KeysKept(f, g, root) ==
  \A group \in {h \in Groups(f) : \A r \in h : r.flags.enforced} :
    \A c \in {d \in Constraints(f, group) : root \in {d.parent, d.child}} :
      /\ ConstraintResolves(f, c) /\ KeysCheck(f, c)
      /\ KeysHold(c, Keys(f, c.parent, c.parentColumns), Keys(g, c.parent, c.parentColumns),
                  Keys(g, c.child, c.childColumns))

\* Values a column is asked to hold; a column the request leaves out is null.
Asked(c, fields) ==
  IF c.name \in DOMAIN fields THEN fields[c.name]
  ELSE IF c.type = "Boolean" THEN Val(<<0>>) ELSE Null
OptionHolds(f, root, c, v) ==
  PolicyAccepts(c.type, c.class, RequiredColumn(f, root, c),
                <<c.name, "AllowZeroLength", FALSE>> \notin PropsOf(f, root), v)
\* Payloads go to released payload pages, lowest first, then to the end.
PayloadPages(f, count) ==
  LET released == SetToSortSeq({p \in f.free : f.kind[p] = "payload"}, <)
  IN SubSeq(released \o [n \in 1 .. count |-> f.size + n - 1], 1, count)
\* The values of the new row as stored, in column order.
InsertValues(f, root, fields) ==
  LET columns == f.defs[root].columns
      external == SelectSeq(columns, LAMBDA c : c.type \in LongTypes /\ Asked(c, fields) = External)
      pages == PayloadPages(f, Len(external))
      value(c) == CASE c.class = "auto" /\ Asked(c, fields).null -> Val(<<Len(f.rows[root]) + 1, 0, 0, 0>>)
                    [] c \in ToSet(external) -> Val(<<pages[CHOOSE n \in DOMAIN external : external[n] = c]>>)
                    [] OTHER -> Asked(c, fields)
  IN [i \in DOMAIN columns |-> value(columns[i])]

\* The file with the row: its payloads and, for a first row, a data page are
\* appended in this order; the trees and the row count follow.
RowAdded(f, root, values, row, placed) ==
  LET def == f.defs[root]
      taken == {x[2] : x \in placed}
      size == Max({f.size} \union {p + 1 : p \in taken})
      data == IF f.maps[def.owned] = {} THEN {size} ELSE {}
      gain(l) == {x[2] : x \in {y \in placed : \E g \in ToSet(def.longMaps) : g.owned = l /\ g.column = y[1]}}
                   \union (IF l \in {def.owned, def.available} THEN data ELSE {})
      rows == Append(f.rows[root], row)
      tree(q) == CHOOSE p \in ToSet(def.physical) : p.root = q
  IN [f EXCEPT !.size = size + Cardinality(data), !.free = @ \ taken,
               !.kind = [p \in taken |-> "payload"] @@ [p \in data |-> "data"] @@ @,
               !.maps = [l \in DOMAIN @ |-> @[l] \union gain(l)], !.rows = [@ EXCEPT ![root] = rows],
               !.trees = [q \in DOMAIN @ |-> IF \E p \in ToSet(def.physical) : p.root = q
                                             THEN EntriesOf(def, rows, tree(q).fields, tree(q).flags) ELSE @[q]],
               !.defs = [@ EXCEPT ![root].rows = @ + 1]]
RowPlaced(f, root, fields, values) ==
  LET def == f.defs[root]
      placed == {<<def.columns[i].storage, values[i].bytes[1]>> :
                   i \in {j \in DOMAIN values : /\ def.columns[j].type \in LongTypes
                                               /\ Asked(def.columns[j], fields) = External}}
  IN IF /\ RowsLoad(f, root) /\ IndexesLoad(f, root)
        /\ PropsDecode(PropsOf(f, root), def) /\ ~RuleStored(f, root)
        /\ \A i \in DOMAIN values : OptionHolds(f, root, def.columns[i], values[i])
        /\ LongValuesLoad(f, root) /\ RowAccepted(def.columns, values)
     THEN {g \in {RowAdded(f, root, values, WriteRow(def.columns, values), placed)} :
             /\ KeysKept(f, g, root)
             /\ \A p \in ToSet(def.physical) : EntriesAccepted(g.trees[p.root], p.flags)}
     ELSE {}
InsertInto(f, root, fields) == RowPlaced(f, root, fields, InsertValues(f, root, fields))
InsertRow(f, table, fields) == IF Opens(f, table) THEN InsertInto(f, RootOf(f, table), fields) ELSE {}

-----------------------------------------------------------------------------
(* The behaviour. *)

Link(f, spec) ==
  LET parent == RootOf(f, spec.parent)
      child == RootOf(f, spec.child)
  IN [name |-> spec.name, flags |-> spec.flags, parent |-> parent, child |-> child,
      pairs |-> [i \in DOMAIN spec.fields |->
                   <<ColumnNamed(f.defs[parent], spec.fields[i][1]).storage,
                     ColumnNamed(f.defs[child], spec.fields[i][2]).storage>>]]
RequiredOf(root, columns) ==
  {<<root, i - 1>> : i \in {j \in DOMAIN columns : columns[j].required /\ columns[j].class # "auto"}}

Init ==
  \E n \in DOMAIN Cases :
    \E f \in CreateDatabase(Cases[n].tables, Cases[n].relations) :
      LET tables == Cases[n].tables
          root(t) == RootOf(f, tables[t].name)
          position(r) == CHOOSE t \in DOMAIN tables : root(t) = r
          payload(t) == LET d == f.defs[root(t)]
                        IN Places(root(t), tables[t], Len(d.physical), Len(d.indexes)).payload
      IN /\ case = n /\ file = f /\ edits = 0
         /\ given = [r \in {root(t) : t \in DOMAIN tables} |->
                       LET t == position(r)
                       IN [s \in DOMAIN tables[t].rows |->
                             [k \in 0 .. Len(tables[t].columns) - 1 |-> Lowered(tables[t], payload(t), s, k + 1)]]]
         /\ required = UNION {RequiredOf(root(t), tables[t].columns) : t \in DOMAIN tables}
         /\ late = {} /\ links = {Link(f, r) : r \in ToSet(Cases[n].relations)}

Requests(op) == {q \in Cases[case].requests : q.op = op}
Publish(files) == /\ edits < Cases[case].edits
                  /\ file' \in files
                  /\ edits' = edits + 1 /\ UNCHANGED case

\* The edit leaves the columns `after` Required, of which it declares `now`.
Require(after, now) ==
  /\ required' = after
  /\ late' = {x \in late : <<x.root, x.storage>> \in after} \union
               UNION {{[root |-> c[1], storage |-> c[2], row |-> r] :
                         r \in {n \in DOMAIN given'[c[1]] : given'[c[1]][n][c[2]].null}} : c \in now}

CreateTableEdit ==
  \E q \in Requests("create_table") :
    /\ Publish(CreateTable(file, q.spec))
    /\ given' = (file.size :> <<>>) @@ given
    /\ LET now == RequiredOf(file.size, q.spec.columns) IN Require(required \union now, now)
    /\ UNCHANGED links
DropTableEdit ==
  \E q \in Requests("drop_table") :
    /\ Publish(DropTable(file, q.table))
    /\ LET root == RootOf(file, q.table)
       IN /\ given' = [r \in DOMAIN given \ {root} |-> given[r]]
          /\ Require({x \in required : x[1] # root}, {})
          /\ links' = {l \in links : root \notin {l.parent, l.child}}
RenameTableEdit ==
  \E q \in Requests("rename_table") :
    Publish(RenameTable(file, q.table, q.new)) /\ UNCHANGED <<given, required, late, links>>

\* What the rows there are hold in a column made after them.
Default(spec, r) == CASE spec.class = "auto" -> Val(<<r, 0, 0, 0>>)
                      [] spec.type = "Boolean" -> Val(<<0>>)
                      [] OTHER -> Null
CreateColumnEdit ==
  \E q \in Requests("create_column") :
    /\ Publish(CreateColumn(file, q.table, q.spec))
    /\ LET root == RootOf(file, q.table)
           storage == file.defs[root].storage
       IN /\ given' = [given EXCEPT ![root] = [r \in DOMAIN @ |-> (storage :> Default(q.spec, r)) @@ @[r]]]
          /\ LET now == IF q.spec.required /\ q.spec.class # "auto" THEN {<<root, storage>>} ELSE {}
             IN Require(required \union now, now)
    /\ UNCHANGED links
DropColumnEdit ==
  \E q \in Requests("drop_column") :
    /\ Publish(DropColumn(file, q.table, q.column))
    /\ LET root == RootOf(file, q.table)
       IN /\ UNCHANGED <<given, links>>
          /\ Require(required \ {<<root, ColumnNamed(file.defs[root], q.column).storage>>}, {})
RenameColumnEdit ==
  \E q \in Requests("rename_column") :
    Publish(RenameColumn(file, q.table, q.column, q.new)) /\ UNCHANGED <<given, required, late, links>>
SetPropertiesEdit ==
  \E q \in Requests("set_properties") :
    /\ Publish(SetProperties(file, q.table, q.column, q.sets, q.clears))
    /\ LET root == RootOf(file, q.table)
           seat == {<<root, c.storage>> : c \in {d \in ToSet(file.defs[root].columns) : d.name = q.column}}
           now == IF <<"Required", TRUE>> \in q.sets THEN seat ELSE {}
           over == IF <<"Required", FALSE>> \in q.sets THEN seat ELSE {}
       IN /\ UNCHANGED <<given, links>>
          /\ Require((required \ over) \union now, now)

CreateIndexEdit ==
  \E q \in Requests("create_index") :
    Publish(CreateIndex(file, q.table, q.spec)) /\ UNCHANGED <<given, required, late, links>>
DropIndexEdit ==
  \E q \in Requests("drop_index") :
    Publish(DropIndex(file, q.table, q.name)) /\ UNCHANGED <<given, required, late, links>>
RenameIndexEdit ==
  \E q \in Requests("rename_index") :
    Publish(RenameIndex(file, q.table, q.name, q.new)) /\ UNCHANGED <<given, required, late, links>>
ReplaceIndexEdit ==
  \E q \in Requests("replace_index") :
    Publish(ReplaceIndex(file, q.table, q.name, q.spec)) /\ UNCHANGED <<given, required, late, links>>

CreateRelationshipEdit ==
  \E q \in Requests("create_relationship") :
    /\ Publish(CreateRelationship(file, q.spec))
    /\ links' = links \union {Link(file, q.spec)} /\ UNCHANGED <<given, required, late>>
DropRelationshipEdit ==
  \E q \in Requests("drop_relationship") :
    /\ Publish(DropRelationship(file, q.name))
    /\ links' = {l \in links : l.name # q.name} /\ UNCHANGED <<given, required, late>>
ReplaceRelationshipEdit ==
  \E q \in Requests("replace_relationship") :
    /\ Publish(ReplaceRelationship(file, q.name, q.spec))
    /\ links' = {l \in links : l.name # q.name} \union {Link(file, q.spec)}
    /\ UNCHANGED <<given, required, late>>

Insert ==
  \E q \in Requests("insert_row") :
    /\ Publish(InsertRow(file, q.table, q.fields))
    /\ LET root == RootOf(file, q.table)
           columns == file.defs[root].columns
           values == InsertValues(file, root, q.fields)
       IN given' = [given EXCEPT ![root] =
                      Append(@, [s \in 0 .. file.defs[root].storage - 1 |->
                                   LET at == {i \in DOMAIN columns : columns[i].storage = s}
                                   IN IF at = {} THEN Null ELSE values[Min(at)]])]
    /\ UNCHANGED <<required, late, links>>

Next ==
  \/ CreateTableEdit \/ DropTableEdit \/ RenameTableEdit
  \/ CreateColumnEdit \/ DropColumnEdit \/ RenameColumnEdit \/ SetPropertiesEdit
  \/ CreateIndexEdit \/ DropIndexEdit \/ RenameIndexEdit \/ ReplaceIndexEdit
  \/ CreateRelationshipEdit \/ DropRelationshipEdit \/ ReplaceRelationshipEdit
  \/ Insert
Spec == Init /\ [][Next]_vars

-----------------------------------------------------------------------------
(* Properties. *)

\* Whatever edits are published one after another, DatabaseReader::validate accepts
\* the file: the definitions read, the rows, payloads and trees agree, every page has
\* one role and every relationship its two endpoints (validate/mod.rs:215), and no row
\* holds null in a Required column.  Excepted are the rows that were there, with null,
\* when the column was made Required: set_properties and create_column accept that and
\* leave the rows as they are (schema/edit.rs:52), and validate reports RequiredValue for
\* them (validate/mod.rs:427).  Where there are none, `late` is empty and this is
\* DatabaseValid(file); where there are, it is all the validator checks but these rows.
PublishedValidates == ValidBut(file, late)

\* No page is lost: an edit that takes a page away from a table, a map or a chain
\* gives it back to the global map (schema/storage.rs:35, schema/map.rs:57).
PagesAccounted ==
  \A p \in SystemPages .. file.size - 1 :
    \/ p \in file.free
    \/ \E root \in Tables(file) :
         LET role == Role(file, root) IN p \in role.exclusive \union role.metadata \union role.content

\* A row written under any earlier definition still reads, in each column that is
\* left, what that column was given: nothing of a dropped column shows up in the one
\* that takes its place (row/reader_layout.rs:21, schema/column_create.rs:277).
RowsKeepTheirColumns ==
  /\ DOMAIN given = Tables(file)
  /\ \A root \in Tables(file) :
       /\ Len(file.rows[root]) = Len(given[root])
       /\ \A r \in DOMAIN given[root] : \A c \in ToSet(file.defs[root].columns) :
            RowValue(file.rows[root][r], file.defs[root], c) = given[root][r][c.storage]

\* The Required option, stored by name apart from the columns, follows its column
\* through renames, drops and a new column of the same name (schema/properties.rs:84).
RequiredFollows ==
  {<<root, c.storage>> : <<root, c>> \in
     UNION {{<<root, c>> : c \in {d \in ToSet(file.defs[root].columns) : RequiredColumn(file, root, d)}} :
              root \in Tables(file)}} = required

\* The rows of MSysRelationships name the tables and columns the relationships were
\* made for, under the names these have now, and the catalog lists each once, with
\* its grants (schema/catalog.rs:60, schema/column.rs:8, schema/relationship_drop.rs).
RelationshipsFollow ==
  LET name(root) == ObjectOf(file, root).name
      at(root, storage) == {c.name : c \in {d \in ToSet(file.defs[root].columns) : d.storage = storage}}
      rows(l) == {[name |-> l.name, flags |-> l.flags, count |-> Len(l.pairs), ordinal |-> i - 1,
                   parent |-> name(l.parent), child |-> name(l.child),
                   parentColumn |-> p, childColumn |-> c] :
                    <<i, p, c>> \in UNION {{<<i, p, c>> : p \in at(l.parent, l.pairs[i][1]),
                                                          c \in at(l.child, l.pairs[i][2])} : i \in DOMAIN l.pairs}}
  IN /\ file.rels = UNION {rows(l) : l \in links}
     /\ {o.name : o \in {x \in file.objects : x.kind = "relationship"}} = {l.name : l \in links}
     /\ file.grants = {o.id : o \in file.objects}
=============================================================================
