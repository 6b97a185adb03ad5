------------------------------- MODULE MCSchema -------------------------------
EXTENDS Schema

\* Names of one byte; a capital is its small letter to the collation.
MCFold == "t" :> 1 @@ "T" :> 1 @@ "u" :> 2 @@ "v" :> 3 @@ "a" :> 4 @@ "A" :> 4 @@ "b" :> 5 @@ "c" :> 6
          @@ "d" :> 7 @@ "i" :> 8 @@ "I" :> 8 @@ "j" :> 9 @@ "r" :> 10 @@ "R" :> 10 @@ "s" :> 11
          @@ ".0" :> 20 @@ ".1" :> 21 @@ ".2" :> 22 @@ ".3" :> 23 @@ ".4" :> 24
MCHidden == <<".0", ".1", ".2", ".3", ".4">>

Column(name, type, size, class) ==
  [name |-> name, type |-> type, size |-> size, class |-> class, required |-> FALSE, zero |-> FALSE]
Long(name) == Column(name, "Long", 4, "fixed")
Auto(name) == Column(name, "Long", 4, "auto")
Flag(name) == Column(name, "Boolean", 1, "fixed")
Text(name) == [Column(name, "Text", 2, "variable") EXCEPT !.zero = TRUE]
Memo(name) == Column(name, "Memo", 0, "variable")
Req(column) == [column EXCEPT !.required = TRUE]
Index(name, columns, class, nulls) ==
  [name |-> name, fields |-> [i \in DOMAIN columns |-> [column |-> columns[i], asc |-> TRUE]],
   class |-> class, nulls |-> nulls]
Falling(name, column) ==
  [name |-> name, fields |-> <<[column |-> column, asc |-> FALSE]>>, class |-> "unique", nulls |-> "include"]
Table(name, columns, indexes, rows) == [name |-> name, columns |-> columns, indexes |-> indexes, rows |-> rows]
Relation(name, parent, child, fields, enforced, unique) ==
  [name |-> name, parent |-> parent, child |-> child, fields |-> fields, flags |->
     [enforced |-> enforced, unique |-> unique, updates |-> FALSE, deletes |-> FALSE]]
N(k) == Val(<<k, 0, 0, 0>>)

CreateTableOf(spec) == [op |-> "create_table", spec |-> spec]
DropTableOf(t) == [op |-> "drop_table", table |-> t]
RenameTableOf(t, n) == [op |-> "rename_table", table |-> t, new |-> n]
CreateColumnOf(t, spec) == [op |-> "create_column", table |-> t, spec |-> spec]
DropColumnOf(t, c) == [op |-> "drop_column", table |-> t, column |-> c]
RenameColumnOf(t, c, n) == [op |-> "rename_column", table |-> t, column |-> c, new |-> n]
SetOf(t, c, sets, clears) == [op |-> "set_properties", table |-> t, column |-> c, sets |-> sets, clears |-> clears]
CreateIndexOf(t, spec) == [op |-> "create_index", table |-> t, spec |-> spec]
DropIndexOf(t, n) == [op |-> "drop_index", table |-> t, name |-> n]
RenameIndexOf(t, n, m) == [op |-> "rename_index", table |-> t, name |-> n, new |-> m]
ReplaceIndexOf(t, n, spec) == [op |-> "replace_index", table |-> t, name |-> n, spec |-> spec]
CreateRelationOf(spec) == [op |-> "create_relationship", spec |-> spec]
DropRelationOf(n) == [op |-> "drop_relationship", name |-> n]
ReplaceRelationOf(n, spec) == [op |-> "replace_relationship", name |-> n, spec |-> spec]
InsertOf(t, fields) == [op |-> "insert_row", table |-> t, fields |-> fields]

\* Columns come and go under rows: fixed, variable, numbered, and long values.
ColumnCase ==
  [tables |-> <<Table("t", <<Long("a"), Text("b")>>, <<>>, <<<<N(1), Val(<<5, 6>>)>>, <<Null, Null>>>>)>>,
   relations |-> <<>>, edits |-> 5,
   requests |-> {CreateColumnOf("t", Long("c")), CreateColumnOf("t", Auto("d")), CreateColumnOf("t", Text("A")),
                 DropColumnOf("t", "a"), DropColumnOf("t", "b"), DropColumnOf("t", "c"),
                 DropColumnOf("t", "A"), RenameColumnOf("t", "b", "a"),
                 InsertOf("t", "a" :> N(2) @@ "b" :> Val(<<7>>) @@ "c" :> N(3) @@ "A" :> Val(<<4>>))}]
MemoCase ==
  [tables |-> <<Table("t", <<Long("a"), Memo("b"), Memo("c")>>, <<>>,
                      <<<<N(1), External, External>>, <<N(2), Val(<<0>>), Null>>>>)>>,
   relations |-> <<>>, edits |-> 5,
   requests |-> {DropColumnOf("t", "b"), DropColumnOf("t", "c"), CreateColumnOf("t", Memo("d")),
                 InsertOf("t", "b" :> External @@ "d" :> External), DropTableOf("t"),
                 CreateTableOf([name |-> "T", columns |-> <<Memo("a"), Long("b")>>, indexes |-> <<Index("i", <<"b">>, "unique", "ignore")>>]),
                 InsertOf("T", "a" :> External)}]
IndexCase ==
  [tables |-> <<Table("t", <<Long("a"), Flag("b")>>, <<Index("i", <<"a">>, "unique", "include")>>,
                      <<<<N(1), Val(<<1>>)>>, <<Null, Val(<<1>>)>>>>)>>,
   relations |-> <<>>, edits |-> 5,
   requests |-> {CreateIndexOf("t", Index("j", <<"a">>, "unique", "include")),
                 CreateIndexOf("t", Index("r", <<"b", "a">>, "ordinary", "ignore")),
                 CreateIndexOf("t", Index("s", <<"a">>, "primary", "required")),
                 DropIndexOf("t", "i"), DropIndexOf("t", "j"), DropIndexOf("t", "r"),
                 RenameIndexOf("t", "i", "j"), RenameIndexOf("t", "j", "I"),
                 ReplaceIndexOf("t", "i", Falling("i", "a")),
                 RenameTableOf("t", "T"),
                 InsertOf("t", "a" :> N(1)), InsertOf("t", "a" :> N(2) @@ "b" :> Val(<<1>>))}]
\* Two tables joined when they are created; the child's own index serves the key.
RelationCase ==
  [tables |-> <<Table("t", <<Long("a")>>, <<Index("i", <<"a">>, "primary", "required")>>, <<<<N(1)>>>>),
                Table("u", <<Long("a"), Long("b")>>, <<Index("j", <<"b">>, "ordinary", "include")>>,
                      <<<<N(1), N(1)>>, <<N(2), Null>>>>)>>,
   relations |-> <<Relation("r", "t", "u", <<<<"a", "b">>>>, TRUE, FALSE)>>, edits |-> 5,
   requests |-> {RenameTableOf("t", "v"), RenameTableOf("u", "t"), RenameColumnOf("t", "a", "c"),
                 RenameColumnOf("u", "b", "A"), DropRelationOf("r"), DropIndexOf("u", "j"), DropIndexOf("t", "i"),
                 CreateRelationOf(Relation("s", "t", "u", <<<<"a", "a">>>>, FALSE, FALSE)),
                 ReplaceRelationOf("r", Relation("R", "t", "u", <<<<"a", "b">>>>, TRUE, TRUE)),
                 DropColumnOf("u", "a"), DropTableOf("u"), DropTableOf("t"),
                 InsertOf("u", "a" :> N(3) @@ "b" :> N(2)), InsertOf("t", "a" :> N(2))}]
\* A key that falls, so that both sides get trees of their own, on one table.
SelfCase ==
  [tables |-> <<Table("t", <<Long("a"), Long("b")>>, <<Falling("i", "a")>>, <<<<N(1), N(1)>>>>)>>,
   relations |-> <<Relation("r", "t", "t", <<<<"a", "b">>>>, TRUE, FALSE)>>, edits |-> 5,
   requests |-> {DropRelationOf("r"), CreateRelationOf(Relation("r", "t", "t", <<<<"a", "b">>>>, TRUE, TRUE)),
                 CreateRelationOf(Relation("s", "t", "t", <<<<"a", "b">>>>, TRUE, FALSE)),
                 CreateIndexOf("t", Index("j", <<"a">>, "unique", "required")), DropIndexOf("t", "i"),
                 RenameColumnOf("t", "a", "A"), RenameTableOf("t", "T"), DropTableOf("T"), DropTableOf("t"),
                 InsertOf("t", "a" :> N(2) @@ "b" :> N(2)), InsertOf("t", "a" :> N(3) @@ "b" :> N(1))}]
\* Keys of two fields and of one, an index of each table at the limit.
GraphCase ==
  [tables |-> <<Table("t", <<Long("a"), Long("b")>>, <<Falling("i", "a"), Index("j", <<"a", "b">>, "primary", "required")>>,
                      <<<<N(1), N(2)>>, <<N(2), N(2)>>>>),
                Table("u", <<Long("a"), Long("b")>>, <<Index("i", <<"a", "b">>, "ordinary", "include")>>,
                      <<<<N(1), N(2)>>>>)>>,
   relations |-> <<Relation("r", "t", "u", <<<<"a", "a">>, <<"b", "b">>>>, TRUE, FALSE),
                   Relation("s", "t", "u", <<<<"a", "b">>>>, TRUE, TRUE)>>, edits |-> 5,
   requests |-> {DropRelationOf("r"), DropRelationOf("s"), DropIndexOf("t", "j"), DropIndexOf("u", "i"),
                 CreateRelationOf(Relation("s", "t", "u", <<<<"a", "a">>>>, TRUE, FALSE)),
                 CreateRelationOf(Relation("r", "u", "t", <<<<"a", "a">>, <<"b", "b">>>>, TRUE, FALSE)),
                 CreateIndexOf("u", Index("j", <<"a", "b">>, "unique", "include")),
                 RenameColumnOf("t", "a", "c"), RenameTableOf("t", "T"), DropTableOf("u"),
                 InsertOf("u", "a" :> N(2) @@ "b" :> N(2)), InsertOf("u", "b" :> N(1))}]
\* Two relationships over the same columns: one tree for both on either side.
SharedCase ==
  [tables |-> <<Table("t", <<Long("a")>>, <<Falling("i", "a")>>, <<<<N(1)>>>>),
                Table("u", <<Long("b")>>, <<>>, <<<<N(1)>>, <<Null>>>>)>>,
   relations |-> <<Relation("r", "t", "u", <<<<"a", "b">>>>, TRUE, FALSE),
                   Relation("s", "t", "u", <<<<"a", "b">>>>, TRUE, FALSE)>>, edits |-> 4,
   requests |-> {DropRelationOf("r"), DropRelationOf("s"), DropTableOf("u"), RenameTableOf("u", "v"),
                 ReplaceRelationOf("s", Relation("s", "t", "u", <<<<"a", "b">>>>, TRUE, TRUE)),
                 InsertOf("u", "b" :> N(2)), InsertOf("t", "a" :> N(2))}]
OptionCase ==
  [tables |-> <<Table("t", <<Req(Long("a")), [Text("b") EXCEPT !.zero = FALSE]>>, <<>>, <<<<N(1), Null>>>>)>>,
   relations |-> <<>>, edits |-> 5,
   requests |-> {SetOf("t", "a", {<<"Required", FALSE>>}, {}), SetOf("t", "b", {<<"Required", TRUE>>}, {}),
                 SetOf("t", "b", {<<"AllowZeroLength", TRUE>>}, {}), SetOf("t", "", {<<"ValidationRule", TRUE>>}, {}),
                 SetOf("t", "", {}, {"ValidationRule"}),
                 RenameColumnOf("t", "a", "A"), RenameColumnOf("t", "b", "c"), DropColumnOf("t", "a"),
                 CreateColumnOf("t", Long("a")), CreateColumnOf("t", Req(Text("c"))),
                 InsertOf("t", "a" :> N(2) @@ "b" :> Val(<<>>)), InsertOf("t", "b" :> Val(<<4>>))}]

MCCases == "columns" :> ColumnCase @@ "memo" :> MemoCase @@ "index" :> IndexCase
           @@ "relation" :> RelationCase @@ "self" :> SelfCase @@ "option" :> OptionCase @@ "graph" :> GraphCase
           @@ "shared" :> SharedCase
=============================================================================
