--------------------------- MODULE TableDefinition ---------------------------
(***************************************************************************)
(* The definition of a table (definition/*.rs): its columns with the       *)
(* storage identity they keep for life, its physical indexes, the logical  *)
(* indexes that name them, the maps of its long-value columns, and the     *)
(* chain of pages that holds all of it.  What the reader refuses, what the *)
(* writer refuses and how a column is given its place are three pieces of  *)
(* code that have to agree.                                                *)
(*                                                                         *)
(* A definition is a record:                                               *)
(*   rows, storage, variables        the counts of the header              *)
(*   columns    <<[name, type, size, class, storage, var, offset]>>        *)
(*   physical   <<[fields, map, root, flags]>>, a field [column, asc] by   *)
(*              storage ordinal; flags as stored: 1 unique, 2 ignore null, *)
(*              8 required                                                 *)
(*   indexes    <<[name, id, physical, class, side, other, related,        *)
(*              cascade]>>                                                 *)
(*   longMaps   <<[column, owned, available]>>                             *)
(*   owned, available, pages                                               *)
(* Names are all of one length.  Budgets and byte order are left out.      *)
(***************************************************************************)
EXTENDS RowCodec

CONSTANTS PageBytes,   \* bytes of a page: 2048
          NameBytes,   \* bytes of a name
          KeySlots,    \* fields of an index: 10
          Fold         \* name -> its collation key

ASSUME DefinitionConstants ==
  /\ PageBytes \in Nat /\ PageBytes > 53 /\ NameBytes \in Nat
  /\ KeySlots \in Nat \ {0} /\ \A n \in DOMAIN Fold : Fold[n] \in Nat

ContinuationOffset == 8
SameName(a, b) == Fold[a] = Fold[b]

Unique(flags) == flags % 2 = 1
Required(flags) == flags \div 8 = 1
SupportedFlags == {0, 1, 2, 3, 8, 9}
PrimaryFlags == 9
IsRelationship(index) == index.class = "relationship"
LongColumns(columns) == {c \in ToSet(columns) : c.type \in LongTypes}
ColumnAt(def, storage) == CHOOSE c \in ToSet(def.columns) : c.storage = storage
NamesDiffer(s) == \A i, j \in DOMAIN s : i # j => s[i].name # s[j].name

-----------------------------------------------------------------------------
(* Length and chain. *)

DefinitionLen(columns, indexes, physical, longMaps) ==
  43 + physical * (8 + 39) + columns * (18 + 1 + NameBytes)
     + indexes * (20 + 1 + NameBytes) + longMaps * 10 + 2
LengthOf(def) == DefinitionLen(Len(def.columns), Len(def.indexes), Len(def.physical), Len(def.longMaps))

\* Pages an edit writes; a new file adds an empty one at an exact boundary.
ChainPages(length) ==
  1 + (IF length <= PageBytes THEN 0 ELSE CeilDiv(length - PageBytes, PageBytes - ContinuationOffset))
ContinuationCount(length) ==
  IF length < PageBytes THEN 0 ELSE 1 + (length - PageBytes) \div (PageBytes - ContinuationOffset)
OnBoundary(length) == length >= PageBytes /\ (length - PageBytes) % (PageBytes - ContinuationOffset) = 0

\* read_definition_chain: kind gives the tag of every page of the file.
ChainReads(def, kind) ==
  LET needed == ChainPages(LengthOf(def))
  IN /\ \A i \in DOMAIN def.pages : def.pages[i] \in DOMAIN kind /\ kind[def.pages[i]] = "definition"
     /\ \A i, j \in DOMAIN def.pages : i # j => def.pages[i] # def.pages[j]
     /\ \/ Len(def.pages) = needed
        \/ OnBoundary(LengthOf(def)) /\ Len(def.pages) = needed + 1

-----------------------------------------------------------------------------
(* Decoding. *)

\* The storage ordinal and the counters of one record, after the ones before it.
CountersDecode(def, i) ==
  LET c == def.columns[i]
      sparse == def.storage # Len(def.columns)
      seen == AtLeast(0, {def.columns[j].var + 1 : j \in {k \in 1 .. i - 1 : IsVariable(def.columns[k])}})
      next == AtLeast(0, {def.columns[j].offset + def.columns[j].size :
                            j \in {k \in 1 .. i - 1 : Occupies(def.columns[k])}})
  IN /\ c.storage < def.storage
     /\ i > 1 => def.columns[i - 1].storage < c.storage
     /\ c.var \in seen .. def.variables /\ c.var <= c.storage
     /\ sparse \/ c.var = seen
     /\ IsVariable(c) => c.var < def.variables
     /\ ~sparse /\ Occupies(c) => c.offset = next
ColumnDecodes(def, i) ==
  LET c == def.columns[i]
  IN /\ SizeValid(c.type, c.size) /\ ClassValid(c)
     /\ c.class = "auto" => c.type = "Long"
     /\ CountersDecode(def, i)
     /\ \A j \in 1 .. i - 1 : ~Overlap(c, def.columns[j])
DecodeColumns(def) ==
  /\ Len(def.columns) <= def.storage /\ def.storage < Block
  /\ def.variables <= def.storage
  /\ \A i \in DOMAIN def.columns : ColumnDecodes(def, i)
  /\ def.storage = Len(def.columns) => VariableCount(def.columns) = def.variables
  /\ NamesDiffer(def.columns)

DecodePhysical(def, size) ==
  \A p \in ToSet(def.physical) :
    /\ Len(p.fields) \in 1 .. KeySlots
    /\ \A i \in DOMAIN p.fields :
         /\ \E c \in ToSet(def.columns) : c.storage = p.fields[i].column
         /\ \A j \in 1 .. i - 1 : p.fields[j].column # p.fields[i].column
    /\ p.map[1] \in 1 .. size - 1 /\ p.root \in 1 .. size - 1
    /\ p.flags \in SupportedFlags

LogicalDecodes(def, i, size) ==
  LET x == def.indexes[i]
  IN /\ x.physical < Len(def.physical)
     /\ x.class = "primary" =>
          /\ def.physical[x.physical + 1].flags = PrimaryFlags
          /\ \A j \in 1 .. i - 1 : def.indexes[j].class # "primary"
     /\ IsRelationship(x) => x.related \in 1 .. size - 1
DecodeIndexes(def, size) ==
  /\ DecodePhysical(def, size)
  /\ NamesDiffer(def.indexes)
  /\ \A i \in DOMAIN def.indexes : LogicalDecodes(def, i, size)
  /\ \A n \in DOMAIN def.physical : \E x \in ToSet(def.indexes) : x.physical = n - 1

\* Every long-value column has exactly one group of maps, and no other column any.
DecodeLongMaps(def, size) ==
  /\ \A g \in ToSet(def.longMaps) : {g.owned[1], g.available[1]} \subseteq 1 .. size - 1
  /\ {def.longMaps[i].column : i \in DOMAIN def.longMaps} = {c.storage : c \in LongColumns(def.columns)}
  /\ Len(def.longMaps) = Cardinality(LongColumns(def.columns))

\* validate_references: what the locators and page numbers of the definition lead to.
ReferencesDecode(def, kind, maps) ==
  /\ \A g \in ToSet(def.longMaps) : {g.owned, g.available} \subseteq DOMAIN maps
  /\ \A p \in ToSet(def.physical) : kind[p.map[1]] = "data" /\ kind[p.root] = "index"
  /\ \A x \in ToSet(def.indexes) : IsRelationship(x) => kind[x.related] = "definition"

\* DatabaseReader::table_definition
DefinitionReads(def, kind, maps) ==
  LET size == Cardinality(DOMAIN kind)
  IN /\ ChainReads(def, kind)
     /\ {def.owned[1], def.available[1]} \subseteq 1 .. size - 1
     /\ DecodeColumns(def) /\ DecodeIndexes(def, size)
     /\ DecodeLongMaps(def, size)
     /\ ReferencesDecode(def, kind, maps)

-----------------------------------------------------------------------------
(* Writing. *)

\* resolve_column: the record of a column given the fixed area and the slots in use.
ResolveColumn(spec, storage, fixed, variables) ==
  [name |-> spec.name, type |-> spec.type, size |-> spec.size, class |-> spec.class,
   storage |-> storage, var |-> variables,
   offset |-> IF Occupies(spec) THEN fixed ELSE 0]

\* The columns of a new definition, packed in order.
LayColumns(specs) ==
  [i \in DOMAIN specs |->
     ResolveColumn(specs[i], i - 1,
       MapThenSumSet(LAMBDA j : specs[j].size, {j \in 1 .. i - 1 : Occupies(specs[j])}),
       Cardinality({j \in 1 .. i - 1 : IsVariable(specs[j])}))]

\* validate_column_layout: a row of nulls has to fit.
ColumnLayoutAccepted(specs) ==
  LET columns == LayColumns(specs)
      variables == VariableCount(columns)
      plain == 1 + FixedBytes(columns) + CeilDiv(Len(columns), Bits)
                 + (IF variables = 0 THEN 0 ELSE variables + 2)
  IN /\ Len(specs) <= MaxColumns /\ NamesDiffer(specs)
     /\ plain + (IF variables = 0 THEN 0 ELSE JumpCount(plain)) <= MaximumLength(variables)

PhysicalAccepted(fields, columns) ==
  /\ Len(fields) \in 1 .. KeySlots
  /\ \A i \in DOMAIN fields :
       /\ \E c \in ToSet(columns) : c.storage = fields[i].column /\ c.type \notin LongTypes
       /\ \A j \in 1 .. i - 1 : fields[j].column # fields[i].column

\* validate of table_writer.rs, over the record to be encoded.
DefinitionWrites(def) ==
  /\ 0 \notin {def.owned[1], def.available[1]}
  /\ ColumnLayoutAccepted(def.columns) /\ NamesDiffer(def.indexes)
  /\ \A p \in ToSet(def.physical) :
       PhysicalAccepted(p.fields, def.columns) /\ p.root # 0 /\ p.map[1] # 0 /\ p.flags \in SupportedFlags
  /\ \A i \in DOMAIN def.indexes :
       /\ def.indexes[i].physical < Len(def.physical)
       /\ def.indexes[i].class = "primary" =>
            /\ def.physical[def.indexes[i].physical + 1].flags = PrimaryFlags
            /\ \A j \in 1 .. i - 1 : def.indexes[j].class # "primary"
       /\ IsRelationship(def.indexes[i]) => def.indexes[i].related # 0
  /\ \A n \in DOMAIN def.physical : \E x \in ToSet(def.indexes) : x.physical = n - 1
LongMapsWrite(def) ==
  /\ \A i \in DOMAIN def.longMaps :
       /\ def.longMaps[i].column \in {c.storage : c \in LongColumns(def.columns)}
       /\ \A j \in 1 .. i - 1 : def.longMaps[j].column # def.longMaps[i].column
       /\ 0 \notin {def.longMaps[i].owned[1], def.longMaps[i].available[1]}
  /\ \A c \in LongColumns(def.columns) : \E g \in ToSet(def.longMaps) : g.column = c.storage

\* encode_table_definition: the definition, or none when it is refused.
EncodeDefinition(def) == IF DefinitionWrites(def) /\ LongMapsWrite(def) THEN {def} ELSE {}

\* index_options.rs
NullBits(policy) == CASE policy = "include" -> 0 [] policy = "ignore" -> 2 [] policy = "required" -> 8
IndexFlags(kind) == (IF kind.class = "ordinary" THEN 0 ELSE 1) + NullBits(kind.nulls)

\* write_logical_record; an index edit replaces the identity afterwards.
OrdinaryIndex(name, id, physical, class) ==
  [name |-> name, id |-> id, physical |-> physical, class |-> class, side |-> "none",
   other |-> -1, related |-> 0, cascade |-> <<FALSE, FALSE>>]
RelationIndex(name, id, physical, side, other, related, cascade) ==
  [name |-> name, id |-> id, physical |-> physical, class |-> "relationship", side |-> side,
   other |-> other, related |-> related, cascade |-> cascade]
=============================================================================
