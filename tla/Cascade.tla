------------------------------ MODULE Cascade ------------------------------
(***************************************************************************)
(* Referential integrity: what a row change does to the related tables.    *)
(* A change of a table without cascading relationships is checked and      *)
(* published.  Any other change is first propagated through the connected  *)
(* relationships (cascade::prepare), then guarded and validated as a       *)
(* whole, and then published as one file (cascade_publish).                *)
(*                                                                         *)
(* A row is a function from Columns to values.  Whatever the key columns   *)
(* do not hold is left out.  The order in which the constraints of the     *)
(* connected component are found is left open.                             *)
(***************************************************************************)
EXTENDS Naturals, Sequences, FiniteSets

CONSTANTS Rows,     \* 1 .. n: row locators, in the order cascade_rows::load finds them
          Columns,
          Values,   \* of a column, NULL included
          NULL,
          ABSENT,   \* no row at this locator
          UNSET,    \* a field no one assigned
          Schemas,  \* the schemas and contents to start from
          Work      \* steps the budget allows one propagation

ASSUME CascadeAssumption ==
  /\ IsFiniteSet(Rows) /\ Rows = 1 .. Cardinality(Rows) /\ NULL \in Values
  /\ UNSET \notin Values /\ ABSENT \notin [Columns -> Values] /\ Work \in Nat \ {0}
\* Both sides of a constraint name as many columns; the columns of the child are those
\* of an index, which names a column once.
ASSUME SchemaAssumption ==
  \A s \in Schemas :
    /\ s.contents \subseteq [Rows -> [Columns -> Values] \union {ABSENT}]
    /\ \A c \in s.cons : c.pcols \in Seq(Columns) /\ c.ccols \in Seq(Columns) /\ Len(c.pcols) = Len(c.ccols)
    /\ \A c \in s.cons : \A i, j \in DOMAIN c.ccols : c.ccols[i] = c.ccols[j] => i = j

VARIABLES schema,   \* table: row -> table; cons: the enforced constraints; named, given:
                    \* the rows callers name and the columns they give values to
          rows,     \* the published rows
          pc, change, after, deleted, queue, todo, work

plan == <<pc, change, after, deleted, queue, todo, work>>
vars == <<schema, rows, plan>>

-----------------------------------------------------------------------------
(* Keys and constraints. *)

Present(content) == {r \in Rows : content[r] # ABSENT}
InTable(content, t) == {r \in Present(content) : schema.table[r] = t}
Parents(content, c) == InTable(content, c.parent)
Children(content, c) == InTable(content, c.child)

KeyOf(row, columns) == [i \in DOMAIN columns |-> row[columns[i]]]
ParentKey(content, c, r) == KeyOf(content[r], c.pcols)
ChildKey(content, c, r) == KeyOf(content[r], c.ccols)

\* Key::encode returns None for a key without a value in it.
IsNone(key) == \A i \in DOMAIN key : key[i] = NULL
HasNull(key) == \E i \in DOMAIN key : key[i] = NULL

Touches(c, t) == c.parent = t \/ c.child = t
Cascading(c) == c.updates \/ c.deletes

\* component: passes over the constraints until a pass adds none, so that the tables
\* reached are closed under them.
TableNames == {schema.table[r] : r \in Rows} \union {c.parent : c \in schema.cons}
                                             \union {c.child : c \in schema.cons}
Connects(S) == \A c \in schema.cons : c.parent \in S \/ c.child \in S => {c.parent, c.child} \subseteq S
Connected(t) ==
  {x \in TableNames : \A S \in SUBSET TableNames : t \in S /\ Connects(S) => x \in S}
Component(t) == {c \in schema.cons : c.parent \in Connected(t)}

-----------------------------------------------------------------------------
(* Changes: insert, replace, one field, delete. *)

RowType == [Columns -> Values]
Changes ==
       [kind : {"insert", "replace"}, row : Rows, values : RowType]
  \union [kind : {"field"}, row : Rows, column : Columns, value : Values]
  \union [kind : {"delete"}, row : Rows]

Names(ch) ==
  /\ ch.row \in schema.named
  /\ CASE ch.kind \in {"insert", "replace"} -> \A k \in Columns \ schema.given : ch.values[k] = NULL
       [] ch.kind = "field" -> ch.column \in schema.given
       [] ch.kind = "delete" -> TRUE
  /\ IF ch.kind = "insert" THEN rows[ch.row] = ABSENT ELSE rows[ch.row] # ABSENT

\* The row after the caller's own assignments.
Changed(ch) ==
  CASE ch.kind \in {"insert", "replace"} -> ch.values
    [] ch.kind = "field" -> [rows[ch.row] EXCEPT ![ch.column] = ch.value]
    [] ch.kind = "delete" -> ABSENT

Explicit(ch) == CASE ch.kind = "replace" -> Columns
                  [] ch.kind = "field" -> {ch.column}
                  [] OTHER -> {}

-----------------------------------------------------------------------------
(* The two checks a result has to pass, shared by relationship::mutation   *)
(* and cascade: guards and validate.                                       *)

\* Row::assigned, on the rows a change assigns or deletes: the columns it sets.
AssignedKey(c, r, del, assigned) ==
  r \in del \/ assigned[r] \intersect {c.pcols[i] : i \in DOMAIN c.pcols} # {}

\* A full replacement of a row that refers to itself is checked against the new
\* parent key when the parent index precedes the foreign one.
SelfExempt(c, ch, p, r) ==
  /\ p = ch.row /\ r = ch.row /\ ch.kind = "replace" /\ c.parent = c.child /\ ~c.existing

\* A parent key that is assigned or deleted without the cascade for it must not be
\* referred to afterwards, not even if it was assigned what it was.
GuardHolds(c, ch, result, del, assigned) ==
  \A p \in Parents(rows, c) :
    AssignedKey(c, p, del, assigned) /\ ~(IF p \in del THEN c.deletes ELSE c.updates) =>
      \A r \in Children(result, c) :
        ~SelfExempt(c, ch, p, r) => ChildKey(result, c, r) # ParentKey(rows, c, p)

ParentKeys(content, c) == {ParentKey(content, c, p) : p \in Parents(content, c)}

\* Mutant: children are looked up among the parents the change started from.
ParentsBefore(c, result) == ParentKeys(rows, c)
\* The parents a child may refer to: those of the result and, when the foreign index
\* comes first in a self reference, already there before.
ParentsFor(c, result) ==
  IF c.existing THEN ParentKeys(result, c) \intersect ParentKeys(rows, c)
                ELSE ParentKeys(result, c)

NoOrphans(c, content, parents) ==
  \A r \in Children(content, c) :
    ~IsNone(ChildKey(content, c, r)) => ChildKey(content, c, r) \in parents

\* The unique index on the parent columns.
UniqueParents(c, content) ==
  \A p, q \in Parents(content, c) :
    /\ ParentKey(content, c, p) = ParentKey(content, c, q)
    /\ ~HasNull(ParentKey(content, c, p))
    => p = q

Accepted(cons, ch, result, del, assigned) ==
  \A c \in cons :
    /\ UniqueParents(c, rows) /\ NoOrphans(c, rows, ParentKeys(rows, c))
    /\ GuardHolds(c, ch, result, del, assigned)
    /\ UniqueParents(c, result)
    /\ NoOrphans(c, result, ParentsFor(c, result))

-----------------------------------------------------------------------------
(* driver::apply. *)

Table(ch) == schema.table[ch.row]
Cascades(ch) ==
  ch.kind # "insert" /\ \E c \in schema.cons : Touches(c, Table(ch)) /\ Cascading(c)

NoChange == [kind |-> "none"]
NoAssignments == [r \in Rows |-> [k \in Columns |-> UNSET]]
Idle ==
  /\ pc' = "idle" /\ change' = NoChange /\ after' = NoAssignments /\ deleted' = {}
  /\ queue' = <<>> /\ todo' = {} /\ work' = 0

\* relationship::mutation::check, then one plan.
Direct(ch) ==
  LET result == [rows EXCEPT ![ch.row] = Changed(ch)]
      own == {c \in schema.cons : Touches(c, Table(ch))}
      assigned == [r \in Rows |-> IF r = ch.row THEN Explicit(ch) ELSE {}]
  IN  /\ pc = "idle" /\ Names(ch) /\ ~Cascades(ch)
      /\ Accepted(own, ch, result, IF ch.kind = "delete" THEN {ch.row} ELSE {}, assigned)
      /\ rows' = result
      /\ UNCHANGED <<schema, plan>>

\* The constraints that have the row in their parent table; the others pass over it.
Outgoing(ch, r) == {c \in Component(Table(ch)) : c.parent = schema.table[r]}

\* cascade::prepare up to propagate.
Prepare(ch) ==
  /\ pc = "idle" /\ Names(ch) /\ Cascades(ch)
  /\ \A c \in Component(Table(ch)) :
       UniqueParents(c, rows) /\ NoOrphans(c, rows, ParentKeys(rows, c))
  /\ pc' = "propagate" /\ change' = ch
  /\ deleted' = IF ch.kind = "delete" THEN {ch.row} ELSE {}
  /\ after' = [NoAssignments EXCEPT ![ch.row] =
                 [k \in Columns |-> IF k \in Explicit(ch) THEN Changed(ch)[k] ELSE UNSET]]
  /\ queue' = <<ch.row>> /\ todo' = Outgoing(ch, ch.row) /\ work' = 0
  /\ UNCHANGED <<schema, rows>>

-----------------------------------------------------------------------------
(* propagate. *)

Assigned == [r \in Rows |-> {k \in Columns : after[r][k] # UNSET}]
\* Row::values: the assigned value of a field, else the stored one.
Final(r) == [k \in Columns |-> IF after[r][k] = UNSET THEN rows[r][k] ELSE after[r][k]]

\* Mutant: one flag for both cascades.
PropagatesUpdates(c, p) == AssignedKey(c, p, deleted, Assigned) /\ c.updates
\* A row whose key changes or goes, under a constraint with the cascade for it.
Propagates(c, p) ==
  /\ AssignedKey(c, p, deleted, Assigned)
  /\ IF p \in deleted THEN c.deletes ELSE c.updates

\* Keys are matched as they were before the change; rows without a key match too.
Matches(c, p, r) == ChildKey(rows, c, r) = ParentKey(rows, c, p)

\* Mutant: a parent without a key has no children.
MatchedWithKey(c, p) ==
  {r \in Children(rows, c) \ deleted : Matches(c, p, r) /\ ~IsNone(ParentKey(rows, c, p))}
Matched(c, p) == {r \in Children(rows, c) \ deleted : Matches(c, p, r)}

\* Row::assign: what the caller assigned stays, and an equal assignment is no change.
NewValue(c, p, r, k) ==
  IF \E i \in DOMAIN c.ccols : c.ccols[i] = k /\ ~(r = change.row /\ k \in Explicit(change))
    THEN Final(p)[c.pcols[CHOOSE i \in DOMAIN c.ccols : c.ccols[i] = k]]
    ELSE after[r][k]
Reassigned(c, p, r) == [k \in Columns |-> NewValue(c, p, r, k)]

\* The rows of S in the order of their locators; there is one such sequence.
InOrder(S) == {s \in [1 .. Cardinality(S) -> S] : \A i, j \in DOMAIN s : i < j => s[i] < s[j]}

\* Mutant: nothing bounds the queue.
NoBudget == TRUE
WithinBudget == work < Work

\* One row of the queue and one constraint.
Propagate(c) ==
  LET p == Head(queue)
      hit == IF Propagates(c, p) THEN Matched(c, p) ELSE {}
      new == IF p \in deleted THEN hit ELSE {r \in hit : Reassigned(c, p, r) # after[r]}
  IN  /\ pc = "propagate" /\ queue # <<>> /\ c \in todo
      /\ WithinBudget
      /\ work' = IF work < Work THEN work + 1 ELSE work
      /\ IF p \in deleted
           THEN deleted' = deleted \union hit /\ UNCHANGED after
           ELSE /\ after' = [r \in Rows |-> IF r \in hit THEN Reassigned(c, p, r) ELSE after[r]]
                /\ UNCHANGED deleted
      /\ \E found \in InOrder(new) : queue' = queue \o found
      /\ todo' = todo \ {c}
      /\ UNCHANGED <<schema, rows, pc, change>>

NextRow ==
  /\ pc = "propagate" /\ queue # <<>> /\ todo = {}
  /\ queue' = Tail(queue)
  /\ todo' = IF queue' = <<>> THEN {} ELSE Outgoing(change, Head(queue'))
  /\ UNCHANGED <<schema, rows, pc, change, after, deleted, work>>

Result ==
  [r \in Rows |-> IF r \in deleted \/ rows[r] = ABSENT THEN ABSENT ELSE Final(r)]

ResultAccepted == Accepted(Component(Table(change)), change, Result, deleted, Assigned)

\* guards, validate and Plan::publish: every row of the result in one file.
Publish ==
  /\ pc = "propagate" /\ queue = <<>>
  /\ ResultAccepted
  /\ rows' = Result
  /\ Idle /\ UNCHANGED schema

ConstraintViolated ==
  /\ pc = "propagate" /\ queue = <<>>
  /\ ~ResultAccepted
  /\ Idle /\ UNCHANGED <<schema, rows>>

BudgetExhausted ==
  /\ pc = "propagate" /\ todo # {} /\ ~WithinBudget
  /\ Idle /\ UNCHANGED <<schema, rows>>

\* Any other error: an index that refuses the rows in the order they are staged, a
\* validation rule on a child, a page or a read that fails.
Refuse ==
  /\ pc = "propagate"
  /\ Idle /\ UNCHANGED <<schema, rows>>

-----------------------------------------------------------------------------

Init ==
  /\ \E s \in Schemas :
       /\ schema = [table |-> s.table, cons |-> s.cons, named |-> s.named,
                     given |-> s.given]
       /\ rows \in s.contents
  /\ \A c \in schema.cons : UniqueParents(c, rows) /\ NoOrphans(c, rows, ParentKeys(rows, c))
  /\ pc = "idle" /\ change = NoChange /\ after = NoAssignments /\ deleted = {}
  /\ queue = <<>> /\ todo = {} /\ work = 0

Progress ==
  \/ \E c \in schema.cons : Propagate(c)
  \/ NextRow \/ Publish \/ ConstraintViolated \/ BudgetExhausted

Next ==
  \/ \E ch \in Changes : Direct(ch) \/ Prepare(ch)
  \/ Progress \/ Refuse

\* propagate runs to its end in the calling thread.
Spec == Init /\ [][Next]_vars /\ WF_vars(Progress)

-----------------------------------------------------------------------------
(* Properties. *)

\* No published file has an orphan or a duplicate parent key under any constraint,
\* whichever table was changed and however far the change spread, self references
\* and children of several parents included.
ReferentialIntegrity ==
  \A c \in schema.cons : UniqueParents(c, rows) /\ NoOrphans(c, rows, ParentKeys(rows, c))

ChangedParent(c, p) ==
  p \in Parents(rows, c) /\ rows'[p] # ABSENT /\ ParentKey(rows', c, p) # ParentKey(rows, c, p)

\* Another row whose key is assigned sets the column of the child as well.
Contested(c, p, r, k) ==
  \E d \in schema.cons : \E q \in Parents(rows, d) :
    /\ ~(d = c /\ q = p) /\ d.child = c.child /\ \E j \in DOMAIN d.ccols : d.ccols[j] = k
    /\ Propagates(d, q) /\ Matches(d, q, r)

\* When a key changes under cascading updates, the rows that referred to it refer to
\* what it became, without a key too and around circles of constraints too, but for the
\* fields the caller set in the row he named and those that two parents compete for.
ChildrenFollow ==
  [][\A c \in schema.cons : c.updates =>
       \A p \in Parents(rows, c) : ChangedParent(c, p) =>
         \A r \in Children(rows, c) : Matches(c, p, r) =>
           \A i \in DOMAIN c.ccols :
             \/ rows'[r][c.ccols[i]] = rows'[p][c.pcols[i]]
             \/ r = change.row /\ c.ccols[i] \in Explicit(change)
             \/ Contested(c, p, r, c.ccols[i])]_vars

ClosedUnderDeletes(S) ==
  \A c \in schema.cons : c.deletes =>
    \A p \in Parents(rows, c), q \in Children(rows, c) : p \in S /\ Matches(c, p, q) => q \in S
ReachedFrom(r) ==
  CHOOSE S \in SUBSET Rows :
    /\ r \in S /\ ClosedUnderDeletes(S)
    /\ \A T \in SUBSET Rows : r \in T /\ ClosedUnderDeletes(T) => S \subseteq T
\* The rows a deletion takes are exactly the ones reached from the named row along
\* constraints that cascade deletes: not one more, not one less.
DeletesTheClosure ==
  [][change.kind = "delete" /\ rows' # rows =>
       Present(rows) \ Present(rows') = ReachedFrom(change.row)]_vars

\* Propagation ends although rows may be queued again and again: around a cycle of
\* relationships only the budget ends it.
CascadesEnd == pc = "propagate" ~> pc = "idle"
=============================================================================
