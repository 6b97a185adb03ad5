---------------------------- MODULE MCIndexTree ----------------------------
(***************************************************************************)
(* Indexes of every kind over three rows, and one over all rows, which all *)
(* have one key: their locators order them.  Its leaves hold two records   *)
(* and its branches three children.                                        *)
(***************************************************************************)
EXTENDS IndexTree

\* Keys 1 and 2 differ in width; 3 is too wide for any tree.
MCWidth == [k \in Keys |-> CASE k = 0 -> 2 [] k = 1 -> 3 [] k = 2 -> 2 [] OTHER -> AreaBytes]
EveryKind == [policy : Policies, unique : BOOLEAN, counted : BOOLEAN, rows : {1 .. 3}, keys : {Keys}]
Tall == [policy |-> "Include", unique |-> FALSE, counted |-> FALSE, rows |-> Rows, keys |-> {1}]
MCSettings == EveryKind \union {Tall}
=============================================================================
