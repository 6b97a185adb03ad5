------------------------------ MODULE Validation ------------------------------
(***************************************************************************)
(* The read-only validator (validate/*.rs): DatabaseReader::validate reads *)
(* every table the catalog lists, its rows, payloads and trees, the        *)
(* allocation roles of every page, and the relationships.                  *)
(* The system tables, and pages no role claims, are outside it.            *)
(***************************************************************************)
EXTENDS SchemaTables

\* The rows that hold null in a Required column: [root, storage, row].
Lacking(f, root) ==
  {[root |-> root, storage |-> x[1].storage, row |-> x[2]] :
     x \in {y \in ToSet(f.defs[root].columns) \X DOMAIN f.rows[root] :
             RequiredColumn(f, root, y[1]) /\ RowValue(f.rows[root][y[2]], f.defs[root], y[1]).null}}

\* validate_table.  The validator excuses no null in a Required column.
TableValid(f, root, excused) ==
  /\ Reads(f, root)
  /\ PropsDecode(PropsOf(f, root), f.defs[root])
  /\ RowsLoad(f, root) /\ Lacking(f, root) \subseteq excused
  /\ LongValuesLoad(f, root) /\ IndexesLoad(f, root)

\* AllocationState: one role per page, map pages excepted, none of them free.
OwnedMaps(def) ==
  {def.owned} \union {p.map : p \in ToSet(def.physical)} \union {g.owned : g \in ToSet(def.longMaps)}
Role(f, root) ==
  LET def == f.defs[root]
  IN [exclusive |-> ToSet(def.pages), metadata |-> {l[1] : l \in Locators(def)},
      content |-> UNION {f.maps[l] : l \in OwnedMaps(def)}]
RoleValid(f, root) ==
  LET def == f.defs[root]
      role == Role(f, root)
  IN /\ Cardinality(Locators(def)) = MapCount(def)
     /\ \A k, l \in OwnedMaps(def) : k # l => f.maps[k] \intersect f.maps[l] = {}
     /\ f.maps[def.available] \subseteq f.maps[def.owned]
     /\ \A g \in ToSet(def.longMaps) : f.maps[g.available] \subseteq f.maps[g.owned]
     /\ (role.exclusive \union role.metadata \union role.content) \intersect (f.free \union {0}) = {}
     /\ role.exclusive \intersect role.metadata = {}
     /\ role.content \intersect (role.exclusive \union role.metadata) = {}
RolesApart(f, a, b) ==
  /\ Locators(f.defs[a]) \intersect Locators(f.defs[b]) = {}
  /\ Role(f, a).exclusive \intersect
       (Role(f, b).exclusive \union Role(f, b).metadata \union Role(f, b).content) = {}
  /\ Role(f, a).content \intersect (Role(f, b).content \union Role(f, b).metadata) = {}
AllocationValid(f) ==
  /\ \A root \in Tables(f) : RoleValid(f, root)
  /\ \A a, b \in Tables(f) : a # b => RolesApart(f, a, b)

ValidBut(f, excused) ==
  /\ CatalogReads(f)
  /\ \A root \in Tables(f) : TableValid(f, root, excused)
  /\ AllocationValid(f) /\ RelationsValidate(f)
DatabaseValid(f) == ValidBut(f, {})
=============================================================================
