---------------------------- MODULE RelationCatalog ----------------------------
(***************************************************************************)
(* The relationship catalog (relationship/catalog.rs, groups.rs, flags.rs, *)
(* validation.rs).  A relationship lives in three places that name one     *)
(* another: rows of MSysRelationships that name tables and columns, an     *)
(* index of the child and an index of the parent that name each other by   *)
(* selector.  validate ties the three together; every schema edit that     *)
(* could part them calls it, some before and after.                        *)
(*                                                                         *)
(* A row is [name, flags, count, ordinal, child, childColumn, parent,      *)
(* parentColumn]; flags is [enforced, unique, updates, deletes].  Forms    *)
(* the code counts as uninterpreted are left out.                          *)
(***************************************************************************)
EXTENDS SchemaFile

Groups(f) == {{r \in f.rels : SameName(r.name, s.name)} : s \in f.rels}

\* ordered: the components agree and number 0 .. count - 1, once each.
GroupOrdered(group) ==
  /\ \A r, s \in group : /\ r.flags = s.flags /\ r.count = s.count
                         /\ SameName(r.parent, s.parent) /\ SameName(r.child, s.child)
  /\ \A r \in group : r.count = Cardinality(group)
  /\ {r.ordinal : r \in group} = 0 .. Cardinality(group) - 1
Ordered(group) == [i \in 1 .. Cardinality(group) |-> CHOOSE r \in group : r.ordinal = i - 1]

\* Tables and columns are found by collation, and by a single match.
NamedLike(f, name) ==
  {o.id : o \in {x \in f.objects : x.kind = "table" /\ SameName(x.name, name)}}
Resolves(f, name) ==
  Cardinality(NamedLike(f, name)) = 1 /\ \A root \in NamedLike(f, name) : Reads(f, root)
TableLike(f, name) == CHOOSE root \in NamedLike(f, name) : TRUE
ColumnsLike(def, name) == {c \in ToSet(def.columns) : SameName(c.name, name)}
ColumnResolves(def, name) == Cardinality(ColumnsLike(def, name)) = 1
ColumnLike(def, name) == CHOOSE c \in ColumnsLike(def, name) : TRUE

KeyColumns(def, names) == [i \in DOMAIN names |-> ColumnLike(def, names[i])]
Compatible(a, b) == a.type = b.type /\ KeyType(a) /\ KeyType(b)

\* index: the physical index an endpoint rests on serves the relationship.
EndpointIndex(def, x, columns, parent, flags) ==
  LET p == def.physical[x.physical + 1]
  IN /\ x.cascade = <<flags.updates, flags.deletes>>
     /\ Len(p.fields) = Len(columns)
     /\ \A i \in DOMAIN columns : p.fields[i].column = columns[i].storage /\ p.fields[i].asc
     /\ p.flags \in (IF parent THEN {1, 9} ELSE IF flags.unique THEN {1} ELSE {0})

Endpoints(def, side) == {x \in ToSet(def.indexes) : IsRelationship(x) /\ x.side = side}
Foreign(child, parentRoot, name) ==
  {x \in Endpoints(child, "foreign") : SameName(x.name, name) /\ x.related = parentRoot}
Primary(parent, childRoot, foreign) ==
  {x \in Endpoints(parent, "primary") :
     x.related = childRoot /\ x.id = foreign.other /\ x.other = foreign.id}

\* resolve_tables, for an ordered group: each pair of endpoints it could mean.
Constraints(f, group) ==
  LET records == Ordered(group)
      parent == TableLike(f, records[1].parent)
      child == TableLike(f, records[1].child)
      base == [parent |-> parent, child |-> child, flags |-> records[1].flags,
               parentColumns |-> KeyColumns(f.defs[parent], [i \in DOMAIN records |-> records[i].parentColumn]),
               childColumns |-> KeyColumns(f.defs[child], [i \in DOMAIN records |-> records[i].childColumn])]
  IN UNION {{base @@ [foreign |-> x, primary |-> y] : y \in Primary(f.defs[parent], child, x)} :
              x \in Foreign(f.defs[child], parent, records[1].name)}
ColumnsResolve(f, group) ==
  \A r \in group : /\ ColumnResolves(f.defs[TableLike(f, r.parent)], r.parentColumn)
                   /\ ColumnResolves(f.defs[TableLike(f, r.child)], r.childColumn)
Differ(columns) == \A i, j \in DOMAIN columns : i # j => columns[i] # columns[j]
ConstraintResolves(f, c) ==
  /\ Len(c.parentColumns) <= KeySlots
  /\ Differ(c.parentColumns) /\ Differ(c.childColumns)
  /\ \A i \in DOMAIN c.parentColumns : Compatible(c.parentColumns[i], c.childColumns[i])
  /\ Cardinality(Foreign(f.defs[c.child], c.parent, c.foreign.name)) = 1
  /\ EndpointIndex(f.defs[c.child], c.foreign, c.childColumns, FALSE, c.flags)
  /\ EndpointIndex(f.defs[c.parent], c.primary, c.parentColumns, TRUE, c.flags)

\* check_keys: parent keys are unique, and every child key is one of them.
SomeValue(keys) ==
  Restrict(keys, {r \in DOMAIN keys : \E i \in DOMAIN keys[r] : ~keys[r][i].null})
Keys(f, root, columns) ==
  SomeValue([r \in DOMAIN f.rows[root] |->
               [i \in DOMAIN columns |-> RowValue(f.rows[root][r], f.defs[root], columns[i])]])
NoneMissing(parents, children) ==
  \A r \in DOMAIN children : \E s \in DOMAIN parents : parents[s] = children[r]
KeysAgree(parents, children) ==
  (\A r, s \in DOMAIN parents : parents[r] = parents[s] => r = s) /\ NoneMissing(parents, children)
KeysCheck(f, c) == KeysAgree(Keys(f, c.parent, c.parentColumns), Keys(f, c.child, c.childColumns))

GroupValid(f, group) ==
  /\ GroupOrdered(group)
  /\ \A r \in group : Resolves(f, r.parent) /\ Resolves(f, r.child)
  /\ ColumnsResolve(f, group)
  /\ (\A r \in group : r.flags.enforced) =>
       /\ Cardinality(Constraints(f, group)) = 1
       /\ \A c \in Constraints(f, group) : ConstraintResolves(f, c) /\ KeysCheck(f, c)

\* check_inventory: every relationship index is an endpoint of exactly one.
EndpointSeats(f) ==
  UNION {UNION {{<<g, c.parent, c.primary>>, <<g, c.child, c.foreign>>} : c \in Constraints(f, g)} :
           g \in {h \in Groups(f) : \A r \in h : r.flags.enforced}}
InventoryValid(f) ==
  /\ \A root \in Tables(f) :
       \A x \in {y \in ToSet(f.defs[root].indexes) : IsRelationship(y)} :
         Cardinality({s \in EndpointSeats(f) : s[2] = root /\ s[3] = x}) = 1
  /\ \A s \in EndpointSeats(f) : s[3] \in ToSet(f.defs[s[2]].indexes)

RelationsValidate(f) == (\A g \in Groups(f) : GroupValid(f, g)) /\ InventoryValid(f)
=============================================================================
