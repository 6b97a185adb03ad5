----------------------------- MODULE TableRows -----------------------------
(***************************************************************************)
(* What the row operations promise: a database is a set of rows, each with *)
(* its table, its logical locator and its value.  An insert takes a locator*)
(* no row of any table has, a replacement keeps the row's locator, a       *)
(* deletion removes the row, and no other row of any table changes.        *)
(***************************************************************************)
EXTENDS Naturals

CONSTANTS Tables, Locators, Values

Row == [table : Tables, at : Locators, value : Values]

VARIABLES rows,
          call      \* the last call and what its caller gave it

\* A locator names at most one row.
Init == call = [op |-> "none"] /\ rows \in SUBSET Row /\ \A r, q \in rows : r.at = q.at => r = q

Insert(r) ==
  /\ call' = [op |-> "insert", table |-> r.table, value |-> r.value]
  /\ \A q \in rows : q.at # r.at
  /\ rows' = rows \union {r}

Replace(r, v) ==
  /\ call' = [op |-> "replace", table |-> r.table, at |-> r.at, value |-> v]
  /\ rows' = (rows \ {r}) \union {[r EXCEPT !.value = v]}

Delete(r) ==
  /\ call' = [op |-> "delete", table |-> r.table, at |-> r.at]
  /\ rows' = rows \ {r}

Next ==
  \/ \E r \in (rows' \ rows) \intersect Row : Insert(r)
  \/ \E r \in rows : Delete(r) \/ \E v \in Values : Replace(r, v)

Spec == Init /\ [][Next]_<<rows, call>>
=============================================================================
