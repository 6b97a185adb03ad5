----------------------------- MODULE MCCascade -----------------------------
(***************************************************************************)
(* Small schemas for Cascade, each with every content that satisfies it.   *)
(***************************************************************************)
EXTENDS Cascade

Key(name) == <<name>>
Rel(parent, pcols, child, ccols, updates, deletes, existing) ==
  [parent |-> parent, pcols |-> pcols, child |-> child, ccols |-> ccols,
   updates |-> updates, deletes |-> deletes, existing |-> existing]

\* Three of the four rows.
Three == {1, 2, 3}
Any == {[r \in Rows |-> IF r \in Three THEN f[r] ELSE ABSENT] :
          f \in [Three -> RowType \union {ABSENT}]}
\* Column b is left null where no constraint names it.
OnlyA == {f \in Any : \A r \in Rows : f[r] = ABSENT \/ f[r]["b"] = NULL}

\* A parent and two children.
ParentChild ==
  {[table |-> <<"P", "C", "C", "C">>, named |-> {1, 2}, given |-> {"a"}, contents |-> OnlyA,
    cons |-> {Rel("P", Key("a"), "C", Key("a"), u, d, FALSE)}] : u, d \in BOOLEAN}

\* Three rows of a table that refers to itself.
SelfReference ==
  {[table |-> <<"T", "T", "T", "T">>, named |-> {2}, given |-> Columns, contents |-> Any,
    cons |-> {Rel("T", Key("a"), "T", Key("b"), u, u, e)}] : u, e \in BOOLEAN}

\* A chain, its first link cascading, and a child of two parents.
ChainAndShared ==
  {[table |-> <<"P", "Q", "R", "R">>, named |-> Three, given |-> {"a"}, contents |-> OnlyA,
    cons |-> {Rel("P", Key("a"), "Q", Key("a"), TRUE, d, FALSE),
              Rel("Q", Key("a"), "R", Key("a"), u, TRUE, FALSE)}] : u, d \in BOOLEAN}
  \union
  {[table |-> <<"P", "Q", "R", "R">>, named |-> Three, given |-> {"a"}, contents |-> OnlyA,
    cons |-> {Rel("P", Key("a"), "R", Key("a"), TRUE, d, FALSE),
              Rel("Q", Key("a"), "R", Key("a"), u, FALSE, FALSE)}] : u, d \in BOOLEAN}

\* A key of two columns, either of which may be null.
Composite ==
  {[table |-> <<"P", "P", "C", "C">>, named |-> {1, 3}, given |-> Columns, contents |-> Any,
    cons |-> {Rel("P", <<"a", "b">>, "C", <<"b", "a">>, TRUE, TRUE, FALSE)}]}

\* Three tables whose keys refer to each other in a circle, reached from two columns
\* of a fourth: two values chase each other around the circle.
Full(v) == [k \in Columns |-> v]
Circle ==
  {[table |-> <<"P", "X", "Y", "Z">>, named |-> {1}, given |-> Columns,
    contents |-> {[r \in Rows |-> Full(1)]},
    cons |-> {Rel("P", Key("a"), "X", Key("a"), TRUE, FALSE, FALSE),
              Rel("P", Key("b"), "Z", Key("a"), TRUE, FALSE, FALSE),
              Rel("X", Key("a"), "Y", Key("a"), TRUE, FALSE, FALSE),
              Rel("Y", Key("a"), "Z", Key("a"), TRUE, FALSE, FALSE),
              Rel("Z", Key("a"), "X", Key("a"), TRUE, FALSE, FALSE)}]}

MCSchemas == ParentChild \union SelfReference \union ChainAndShared \union Composite \union Circle
=============================================================================
