--------------------------- MODULE CascadeProofs ---------------------------
(***************************************************************************)
(* Cascade for every set of rows, columns and values, every schema and     *)
(* every budget.                                                           *)
(***************************************************************************)
EXTENDS Cascade, FiniteSetTheorems, TLAPS

Contents == [Rows -> RowType \union {ABSENT}]
Constraint(c) ==
  /\ c.pcols \in Seq(Columns) /\ c.ccols \in Seq(Columns)
  /\ Len(c.pcols) = Len(c.ccols)
  /\ \A i, j \in DOMAIN c.ccols : c.ccols[i] = c.ccols[j] => i = j

TypeInv ==
  /\ \A c \in schema.cons : Constraint(c)
  /\ rows \in Contents
  /\ after \in [Rows -> [Columns -> Values \union {UNSET}]]
  /\ deleted \subseteq Rows
  /\ pc = "propagate" => change \in Changes /\ queue \in Seq(Present(rows))
  /\ todo \subseteq schema.cons

\* A row that is deleted or has a field assigned.
Reached(r) == r \in deleted \/ \E k \in Columns : after[r][k] # UNSET

\* The propagation stays in the tables connected to the one it started from.
Spread ==
  pc = "propagate" =>
    /\ todo \subseteq Component(Table(change))
    /\ \A r \in Rows : Reached(r) => schema.table[r] \in Connected(Table(change))

IInv == TypeInv /\ Spread /\ ReferentialIntegrity

-----------------------------------------------------------------------------
(* Constraints. *)

\* A constraint only reads the rows of its two tables.
LEMMA Locality ==
  ASSUME NEW c, NEW f, NEW g,
         \A r \in Rows : schema.table[r] \in {c.parent, c.child} => f[r] = g[r],
         UniqueParents(c, f), NoOrphans(c, f, ParentKeys(f, c))
  PROVE  UniqueParents(c, g) /\ NoOrphans(c, g, ParentKeys(g, c))
<1>1. Parents(g, c) = Parents(f, c) /\ Children(g, c) = Children(f, c)
  BY DEF Parents, Children, InTable, Present
<1>2. \A p \in Parents(f, c) : ParentKey(g, c, p) = ParentKey(f, c, p)
  BY DEF Parents, InTable, Present, ParentKey
<1>3. \A r \in Children(f, c) : ChildKey(g, c, r) = ChildKey(f, c, r)
  BY DEF Children, InTable, Present, ChildKey
<1>4. ParentKeys(g, c) = ParentKeys(f, c)
  BY <1>1, <1>2 DEF ParentKeys
<1>5. UniqueParents(c, g)
  BY <1>1, <1>2 DEF UniqueParents
<1>6. NoOrphans(c, g, ParentKeys(g, c))
  BY <1>1, <1>3, <1>4 DEF NoOrphans
<1> QED
  BY <1>5, <1>6

\* What the two checks accept satisfies the constraints they were made for.
LEMMA AcceptedHolds ==
  ASSUME NEW cons, NEW ch, NEW result, NEW del, NEW assigned,
         Accepted(cons, ch, result, del, assigned), NEW c \in cons
  PROVE  UniqueParents(c, result) /\ NoOrphans(c, result, ParentKeys(result, c))
<1>1. UniqueParents(c, result) /\ NoOrphans(c, result, ParentsFor(c, result))
  BY DEF Accepted
<1>2. ParentsFor(c, result) \subseteq ParentKeys(result, c)
  BY DEF ParentsFor
<1> QED
  BY <1>1, <1>2 DEF NoOrphans

\* The tables connected to a row's table are closed under the constraints.
LEMMA ConnectedClosed ==
  ASSUME NEW t
  PROVE  /\ \A r \in Rows : schema.table[r] = t => t \in Connected(t)
         /\ \A c \in schema.cons : c.parent \in Connected(t) <=> c.child \in Connected(t)
<1>1. \A r \in Rows : schema.table[r] \in TableNames
  BY DEF TableNames
<1>2. \A c \in schema.cons : c.parent \in TableNames /\ c.child \in TableNames
  BY DEF TableNames
<1>3. ASSUME NEW c \in schema.cons, NEW S \in SUBSET TableNames, Connects(S)
      PROVE  c.parent \in S <=> c.child \in S
  BY <1>3 DEF Connects
<1> QED
  BY <1>1, <1>2, <1>3 DEF Connected

-----------------------------------------------------------------------------
(* Types. *)

\* What a caller leaves of the row he names.
LEMMA ChangedType ==
  ASSUME TypeInv, NEW ch \in Changes, Names(ch)
  PROVE  /\ ch.row \in Rows
         /\ ch.kind = "delete" => Changed(ch) = ABSENT
         /\ ch.kind # "delete" => Changed(ch) \in RowType
         /\ ch.kind # "insert" => ch.row \in Present(rows)
<1>1. ch.row \in Rows /\ ch.kind \in {"insert", "replace", "field", "delete"}
  BY DEF Changes
<1>2. ch.kind # "insert" => ch.row \in Present(rows) /\ rows[ch.row] \in RowType
  BY <1>1 DEF Names, Present, TypeInv, Contents
<1>3. CASE ch.kind \in {"insert", "replace"}
  <2>1. ch.values \in RowType
    BY <1>3 DEF Changes
  <2> QED
    BY <1>1, <1>2, <1>3, <2>1 DEF Changed
<1>4. CASE ch.kind = "field"
  <2>1. ch.column \in Columns /\ ch.value \in Values
    BY <1>4 DEF Changes
  <2>2. Changed(ch) = [rows[ch.row] EXCEPT ![ch.column] = ch.value]
    BY <1>4 DEF Changed
  <2> QED
    BY <1>1, <1>2, <1>4, <2>1, <2>2 DEF RowType
<1>5. CASE ch.kind = "delete"
  BY <1>1, <1>2, <1>5 DEF Changed
<1> QED
  BY <1>1, <1>3, <1>4, <1>5

\* Nothing is assigned while no change is under way.
LEMMA IdleType ==
  ASSUME TypeInv, Idle, rows' \in Contents, UNCHANGED schema
  PROVE  TypeInv' /\ Spread'
<1>1. (NoAssignments \in [Rows -> [Columns -> Values \union {UNSET}]])'
  BY DEF NoAssignments
<1>2. pc' # "propagate"
  BY DEF Idle
<1> QED
  BY <1>1, <1>2 DEF Idle, TypeInv, Spread, Constraint, NoAssignments

\* A queued row is there, and so are its values after the assignments so far.
LEMMA FinalType ==
  ASSUME TypeInv, NEW r \in Present(rows)
  PROVE  Final(r) \in RowType
<1>1. rows[r] \in RowType /\ r \in Rows
  BY DEF TypeInv, Contents, Present
<1>2. ASSUME NEW k \in Columns PROVE (IF after[r][k] = UNSET THEN rows[r][k] ELSE after[r][k]) \in Values
  BY <1>1 DEF TypeInv, RowType
<1> QED
  BY <1>2 DEF Final, RowType

\* The published result has rows of the type of rows.
LEMMA ResultType ==
  ASSUME TypeInv
  PROVE  Result \in Contents
<1>1. ASSUME NEW r \in Rows, rows[r] # ABSENT PROVE Final(r) \in RowType
  BY <1>1, FinalType DEF Present
<1> QED
  BY <1>1 DEF Result, Contents

\* A row nothing reached keeps its values.
LEMMA UnreachedKept ==
  ASSUME TypeInv, NEW r \in Rows, ~Reached(r)
  PROVE  Result[r] = rows[r]
<1>1. CASE rows[r] = ABSENT
  BY <1>1 DEF Result
<1>2. CASE rows[r] # ABSENT
  <2>1. rows[r] \in RowType
    BY <1>2 DEF TypeInv, Contents
  <2>2. Final(r) = [k \in Columns |-> rows[r][k]]
    BY DEF Final, Reached
  <2>3. Final(r) = rows[r]
    BY <2>1, <2>2 DEF RowType
  <2> QED
    BY <1>2, <2>3 DEF Result, Reached
<1> QED
  BY <1>1, <1>2

\* The rows found for the queue are a sequence of them.
LEMMA InOrderType ==
  ASSUME NEW S \in SUBSET Rows, NEW found \in InOrder(S)
  PROVE  found \in Seq(S)
<1>1. Cardinality(S) \in Nat
  BY CascadeAssumption, FS_Subset, FS_CardinalityType
<1>2. found \in [1 .. Cardinality(S) -> S]
  BY DEF InOrder
<1> QED
  BY <1>1, <1>2

-----------------------------------------------------------------------------
(* The steps. *)

\* The properties of a constraint read the schema and a content.
LEMMA IntegrityOf ==
  ASSUME UNCHANGED schema,
         \A c \in schema.cons : UniqueParents(c, rows') /\ NoOrphans(c, rows', ParentKeys(rows', c))
  PROVE  ReferentialIntegrity'
<1> SUFFICES ASSUME NEW c \in schema.cons
             PROVE  UniqueParents(c, rows)' /\ NoOrphans(c, rows, ParentKeys(rows, c))'
  BY DEF ReferentialIntegrity
<1>1. Parents(rows, c)' = Parents(rows', c) /\ Children(rows, c)' = Children(rows', c)
  BY DEF Parents, Children, InTable
<1>2. ParentKeys(rows, c)' = ParentKeys(rows', c)
  BY <1>1 DEF ParentKeys, ParentKey
<1>3. UniqueParents(c, rows)'
  BY <1>1 DEF UniqueParents, ParentKey
<1> QED
  BY <1>1, <1>2, <1>3 DEF NoOrphans, ChildKey

\* A change of a table without cascades.
LEMMA DirectStep ==
  ASSUME IInv, NEW ch \in Changes, Direct(ch)
  PROVE  IInv'
<1> DEFINE own == {c \in schema.cons : Touches(c, Table(ch))}
           result == [rows EXCEPT ![ch.row] = Changed(ch)]
<1>1. rows' = result /\ schema' = schema /\ pc = "idle" /\ UNCHANGED plan /\ Names(ch)
  BY DEF Direct
<1>2. ch.row \in Rows /\ Changed(ch) \in RowType \union {ABSENT}
  BY <1>1, ChangedType DEF IInv, Changes
<1>3. rows \in Contents /\ result \in Contents
  BY <1>2 DEF IInv, TypeInv, Contents
<1>4. TypeInv'
  BY <1>1, <1>3 DEF IInv, TypeInv, Constraint, plan
<1>5. Spread'
  BY <1>1 DEF Spread, plan
<1>6. ASSUME NEW c \in schema.cons
      PROVE  UniqueParents(c, result) /\ NoOrphans(c, result, ParentKeys(result, c))
  <2>1. CASE c \in own
    <3>1. PICK del, assigned : Accepted(own, ch, result, del, assigned)
      BY DEF Direct
    <3> QED
      BY <2>1, <3>1, AcceptedHolds
  <2>2. CASE c \notin own
    <3>1. schema.table[ch.row] \notin {c.parent, c.child}
      BY <2>2 DEF Touches, Table
    <3>2. \A r \in Rows : schema.table[r] \in {c.parent, c.child} => rows[r] = result[r]
      BY <3>1, <1>3 DEF Contents
    <3>3. UniqueParents(c, rows) /\ NoOrphans(c, rows, ParentKeys(rows, c))
      BY DEF IInv, ReferentialIntegrity
    <3> HIDE DEF result
    <3> QED
      BY <3>2, <3>3, Locality
  <2> QED
    BY <2>1, <2>2
<1>7. ReferentialIntegrity'
  <2> HIDE DEF result
  <2> QED
    BY <1>1, <1>6, IntegrityOf
<1> QED
  BY <1>4, <1>5, <1>7 DEF IInv

\* While a change is prepared and propagated the published rows do not change.
LEMMA IntegrityKept ==
  ASSUME ReferentialIntegrity, UNCHANGED <<schema, rows>>
  PROVE  ReferentialIntegrity'
BY IntegrityOf DEF ReferentialIntegrity

\* The tables connected to one depend on the schema alone.
LEMMA ConnectedKept ==
  ASSUME UNCHANGED schema, NEW t
  PROVE  Connected(t)' = Connected(t) /\ Component(t)' = Component(t)
BY DEF Connected, Component, Connects, TableNames

\* A change with cascades: only the named row is assigned or deleted.
LEMMA PrepareStep ==
  ASSUME IInv, NEW ch \in Changes, Prepare(ch)
  PROVE  IInv'
<1>1. Names(ch) /\ ch.kind # "insert"
  BY DEF Prepare, Cascades
<1>2. /\ ch.row \in Rows /\ ch.row \in Present(rows)
      /\ ch.kind # "delete" => Changed(ch) \in RowType
  BY <1>1, ChangedType DEF IInv
<1>3. Explicit(ch) # {} => ch.kind # "delete"
  BY DEF Explicit
<1>4. after' \in [Rows -> [Columns -> Values \union {UNSET}]]
  <2>1. [k \in Columns |-> IF k \in Explicit(ch) THEN Changed(ch)[k] ELSE UNSET]
          \in [Columns -> Values \union {UNSET}]
    BY <1>2, <1>3 DEF RowType
  <2>2. NoAssignments \in [Rows -> [Columns -> Values \union {UNSET}]]
    BY DEF NoAssignments
  <2>3. after' = [NoAssignments EXCEPT ![ch.row] =
                    [k \in Columns |-> IF k \in Explicit(ch) THEN Changed(ch)[k] ELSE UNSET]]
    BY DEF Prepare
  <2> QED
    BY <2>1, <2>2, <2>3
<1>5. queue' \in Seq(Present(rows'))
  BY <1>2 DEF Prepare
<1>6. todo' \subseteq Component(Table(ch))
  BY DEF Prepare, Outgoing
<1>7. TypeInv'
  BY <1>2, <1>4, <1>5, <1>6 DEF Prepare, IInv, TypeInv, Constraint, Component
<1>8. \A r \in Rows : Reached(r)' => r = ch.row
  BY <1>2 DEF Prepare, Reached, NoAssignments
<1>9. Table(ch) \in Connected(Table(ch))
  BY <1>2, ConnectedClosed DEF Table
<1>10. Spread'
  <2>1. Connected(Table(ch))' = Connected(Table(ch)) /\ Component(Table(ch))' = Component(Table(ch))
    BY ConnectedKept DEF Prepare, Table
  <2>2. schema' = schema /\ change' = ch /\ Table(ch)' = Table(ch)
    BY DEF Prepare, Table
  <2>3. Component(Table(change))' = Component(Table(ch)) /\ Connected(Table(change))' = Connected(Table(ch))
    BY <2>1, <2>2 DEF Component, Connected, Connects, TableNames, Table
  <2> QED
    BY <1>6, <1>8, <1>9, <2>2, <2>3 DEF Spread, Table
<1>11. ReferentialIntegrity'
  BY IntegrityKept DEF IInv, Prepare
<1> QED
  BY <1>7, <1>10, <1>11 DEF IInv

\* One constraint of one queued row: the rows it reaches are of the constraint's child
\* table, which is connected when the parent table is.
LEMMA PropagateStep ==
  ASSUME IInv, NEW c \in schema.cons, Propagate(c)
  PROVE  IInv'
<1> DEFINE p == Head(queue)
           hit == IF Propagates(c, p) THEN Matched(c, p) ELSE {}
           new == IF p \in deleted THEN hit ELSE {r \in hit : Reassigned(c, p, r) # after[r]}
<1>1. /\ pc = "propagate" /\ queue # <<>> /\ c \in todo
      /\ UNCHANGED <<schema, rows, pc, change>>
      /\ todo' = todo \ {c}
  BY DEF Propagate
<1>2. change \in Changes /\ queue \in Seq(Present(rows)) /\ p \in Present(rows)
  BY <1>1 DEF IInv, TypeInv
<1>3. hit \subseteq Present(rows) /\ \A r \in hit : schema.table[r] = c.child
  BY DEF Matched, Children, InTable
<1>4. new \subseteq hit /\ new \in SUBSET Rows /\ hit \subseteq Rows
  BY <1>3 DEF Present
<1>5. \/ p \in deleted /\ deleted' = deleted \union hit /\ UNCHANGED after
      \/ /\ p \notin deleted /\ UNCHANGED deleted
         /\ after' = [r \in Rows |-> IF r \in hit THEN Reassigned(c, p, r) ELSE after[r]]
  BY DEF Propagate
<1>6. queue' \in Seq(Present(rows'))
  <2>1. PICK found \in InOrder(new) : queue' = queue \o found
    BY DEF Propagate
  <2>2. found \in Seq(new)
    BY <1>4, InOrderType
  <2>3. found \in Seq(Present(rows))
    BY <1>3, <1>4, <2>2
  <2> QED
    BY <1>1, <1>2, <2>1, <2>3
<1>7. ASSUME NEW r \in Rows PROVE Reassigned(c, p, r) \in [Columns -> Values \union {UNSET}]
  <2>1. ASSUME NEW k \in Columns PROVE NewValue(c, p, r, k) \in Values \union {UNSET}
    <3>1. CASE \E i \in DOMAIN c.ccols :
                 c.ccols[i] = k /\ ~(r = change.row /\ k \in Explicit(change))
      <4> DEFINE i == CHOOSE i \in DOMAIN c.ccols : c.ccols[i] = k
      <4>1. i \in DOMAIN c.ccols
        BY <3>1
      <4>2. c.pcols[i] \in Columns
        <5>1. c.pcols \in Seq(Columns) /\ DOMAIN c.ccols = DOMAIN c.pcols
          BY DEF IInv, TypeInv, Constraint
        <5> HIDE DEF i
        <5> QED
          BY <4>1, <5>1
      <4>3. Final(p) \in RowType
        BY <1>2, FinalType DEF IInv
      <4>4. NewValue(c, p, r, k) = Final(p)[c.pcols[i]]
        BY <3>1 DEF NewValue
      <4> HIDE DEF i
      <4> QED
        BY <4>2, <4>3, <4>4 DEF RowType
    <3>2. CASE ~\E i \in DOMAIN c.ccols :
                 c.ccols[i] = k /\ ~(r = change.row /\ k \in Explicit(change))
      <4>1. NewValue(c, p, r, k) = after[r][k]
        BY <3>2 DEF NewValue
      <4> QED
        BY <4>1 DEF IInv, TypeInv
    <3> QED
      BY <3>1, <3>2
  <2> QED
    BY <2>1 DEF Reassigned
<1>8. after' \in [Rows -> [Columns -> Values \union {UNSET}]] /\ deleted' \subseteq Rows
  <2> HIDE DEF hit, p
  <2> QED
    BY <1>4, <1>5, <1>7 DEF IInv, TypeInv
<1>9. TypeInv'
  BY <1>1, <1>2, <1>6, <1>8 DEF IInv, TypeInv, Constraint
<1>10. \A r \in Rows : Reached(r)' => Reached(r) \/ r \in hit
  <2> HIDE DEF hit, p
  <2> QED
    BY <1>5 DEF Reached
<1>11. c.child \in Connected(Table(change))
  <2>1. c \in Component(Table(change))
    BY <1>1 DEF IInv, Spread
  <2> QED
    BY <2>1, ConnectedClosed DEF Component
<1>12. Spread'
  <2>1. /\ Connected(Table(change))' = Connected(Table(change))
        /\ Component(Table(change))' = Component(Table(change))
    BY <1>1 DEF Component, Connected, Connects, TableNames, Table
  <2> HIDE DEF hit, p, new
  <2> QED
    BY <1>1, <1>3, <1>10, <1>11, <2>1 DEF IInv, Spread
<1>13. ReferentialIntegrity'
  BY <1>1, IntegrityKept DEF IInv
<1> QED
  BY <1>9, <1>12, <1>13 DEF IInv

\* The next row of the queue.
LEMMA NextRowStep ==
  ASSUME IInv, NextRow
  PROVE  IInv'
<1>1. pc = "propagate" /\ queue # <<>> /\ queue' = Tail(queue)
      /\ UNCHANGED <<schema, rows, pc, change, after, deleted>>
  BY DEF NextRow
<1>2. queue' \in Seq(Present(rows'))
  BY <1>1 DEF IInv, TypeInv
<1>3. todo' \subseteq Component(Table(change))
  BY DEF NextRow, Outgoing
<1>4. TypeInv'
  BY <1>1, <1>2, <1>3 DEF IInv, TypeInv, Constraint, Component
<1>5. /\ Connected(Table(change))' = Connected(Table(change))
      /\ Component(Table(change))' = Component(Table(change))
  BY <1>1 DEF Component, Connected, Connects, TableNames, Table
<1>6. Spread'
  BY <1>1, <1>3, <1>5 DEF IInv, Spread, Reached
<1>7. ReferentialIntegrity'
  BY <1>1, IntegrityKept DEF IInv
<1> QED
  BY <1>4, <1>6, <1>7 DEF IInv

\* The result is checked for the connected constraints; the others have no row that
\* was reached in their tables.
LEMMA PublishStep ==
  ASSUME IInv, Publish
  PROVE  IInv'
<1>1. rows' = Result /\ Idle /\ UNCHANGED schema /\ pc = "propagate"
  BY DEF Publish
<1>2. TypeInv' /\ Spread'
  BY <1>1, ResultType, IdleType DEF IInv
<1>3. ASSUME NEW c \in schema.cons
      PROVE  UniqueParents(c, Result) /\ NoOrphans(c, Result, ParentKeys(Result, c))
  <2>1. CASE c \in Component(Table(change))
    BY <2>1, AcceptedHolds DEF Publish, ResultAccepted
  <2>2. CASE c \notin Component(Table(change))
    <3>1. c.parent \notin Connected(Table(change)) /\ c.child \notin Connected(Table(change))
      BY <2>2, ConnectedClosed DEF Component
    <3>2. \A r \in Rows : schema.table[r] \in {c.parent, c.child} => rows[r] = Result[r]
      BY <1>1, <3>1, UnreachedKept DEF IInv, Spread
    <3> QED
      BY <3>2, Locality DEF IInv, ReferentialIntegrity
  <2> QED
    BY <2>1, <2>2
<1>4. ReferentialIntegrity'
  BY <1>1, <1>3, IntegrityOf
<1> QED
  BY <1>2, <1>4 DEF IInv

\* A change that is refused leaves the file as it was.
LEMMA RefusedStep ==
  ASSUME IInv, Idle, UNCHANGED <<schema, rows>>
  PROVE  IInv'
<1>1. TypeInv' /\ Spread'
  BY IdleType DEF IInv, TypeInv
<1>2. ReferentialIntegrity'
  BY IntegrityKept DEF IInv
<1> QED
  BY <1>1, <1>2 DEF IInv

-----------------------------------------------------------------------------
(* The theorem. *)

\* Every file has the type and the integrity to start with.
LEMMA InitInv == Init => IInv
<1> SUFFICES ASSUME Init PROVE IInv
  OBVIOUS
<1>1. PICK s \in Schemas :
        /\ schema = [table |-> s.table, cons |-> s.cons, named |-> s.named, given |-> s.given]
        /\ rows \in s.contents
  BY DEF Init
<1>2. schema.cons = s.cons
  BY <1>1
<1>3. rows \in Contents /\ \A c \in schema.cons : Constraint(c)
  BY <1>1, <1>2, SchemaAssumption DEF Contents, Constraint, RowType
<1>4. after \in [Rows -> [Columns -> Values \union {UNSET}]]
  BY DEF Init, NoAssignments
<1>5. TypeInv /\ Spread
  BY <1>3, <1>4 DEF Init, TypeInv, Spread
<1> QED
  BY <1>5 DEF Init, IInv, ReferentialIntegrity

\* Each step keeps the invariant.
LEMMA NextInv == IInv /\ [Next]_vars => IInv'
<1> SUFFICES ASSUME IInv, [Next]_vars PROVE IInv'
  OBVIOUS
<1>1. ASSUME NEW ch \in Changes, Direct(ch) PROVE IInv'
  BY <1>1, DirectStep
<1>2. ASSUME NEW ch \in Changes, Prepare(ch) PROVE IInv'
  BY <1>2, PrepareStep
<1>3. ASSUME NEW c \in schema.cons, Propagate(c) PROVE IInv'
  BY <1>3, PropagateStep
<1>4. CASE NextRow
  BY <1>4, NextRowStep
<1>5. CASE Publish
  BY <1>5, PublishStep
<1>6. CASE ConstraintViolated \/ BudgetExhausted \/ Refuse
  BY <1>6, RefusedStep DEF ConstraintViolated, BudgetExhausted, Refuse
<1>7. CASE UNCHANGED vars
  <2>1. UNCHANGED <<schema, rows, pc, change, after, deleted, queue, todo>>
    BY <1>7 DEF vars, plan
  <2>2. TypeInv'
    BY <2>1 DEF IInv, TypeInv, Constraint
  <2>3. /\ Connected(Table(change))' = Connected(Table(change))
        /\ Component(Table(change))' = Component(Table(change))
    BY <2>1 DEF Component, Connected, Connects, TableNames, Table
  <2>4. Spread'
    BY <2>1, <2>3 DEF IInv, Spread, Reached
  <2> QED
    BY <2>1, <2>2, <2>4, IntegrityKept DEF IInv
<1> QED
  BY <1>1, <1>2, <1>3, <1>4, <1>5, <1>6, <1>7 DEF Next, Progress

\* Whatever is inserted, replaced or deleted, and however far the change spreads along
\* cascading relationships, every published file has unique parent keys and no orphan
\* under any constraint, the ones the change was never checked against included.
THEOREM IntegrityHolds == Spec => []ReferentialIntegrity
<1>1. Spec => []IInv
  BY InitInv, NextInv, PTL DEF Spec
<1>2. IInv => ReferentialIntegrity
  BY DEF IInv
<1> QED
  BY <1>1, <1>2, PTL

-----------------------------------------------------------------------------
(* Deletions. *)

\* A queued row that has yet to be looked up under a constraint.
Pending(p, c) ==
  \/ \E i \in DOMAIN queue : i > 1 /\ queue[i] = p
  \/ queue # <<>> /\ p = queue[1] /\ c \in todo

\* What is deleted so far has to be, and whoever refers to it is, or will be found.
NotTooMuch ==
  \A T \in SUBSET Rows : change.row \in T /\ ClosedUnderDeletes(T) => deleted \subseteq T
NotTooLittle ==
  \A c \in schema.cons : c.deletes =>
    \A p \in Parents(rows, c), q \in Children(rows, c) :
      p \in deleted /\ Matches(c, p, q) => q \in deleted \/ Pending(p, c)
Queued ==
  /\ change.row \in deleted /\ deleted \subseteq Present(rows)
  /\ \A i \in DOMAIN queue : queue[i] \in deleted
  /\ queue # <<>> => \A c \in todo : c.parent = schema.table[queue[1]]

Deletion == pc = "propagate" /\ change.kind = "delete" => Queued /\ NotTooMuch /\ NotTooLittle

DInv == IInv /\ Deletion /\ (pc # "propagate" => change = NoChange)

\* Every row found for the queue has a place in it.
LEMMA InOrderCovers ==
  ASSUME NEW S \in SUBSET Rows, NEW found \in InOrder(S)
  PROVE  \A r \in S : \E i \in DOMAIN found : found[i] = r
<1>1. IsFiniteSet(S) /\ Cardinality(S) \in Nat /\ Rows \subseteq Int
  BY CascadeAssumption, FS_Subset, FS_CardinalityType
<1> DEFINE N == 1 .. Cardinality(S)
<1>2. found \in [N -> S] /\ \A i, j \in N : i < j => found[i] < found[j]
  BY DEF InOrder
<1>3. found \in Injection(N, S)
  <2>1. \A i, j \in N : found[i] = found[j] => i = j
    <3> SUFFICES ASSUME NEW i \in N, NEW j \in N, i # j PROVE found[i] # found[j]
      OBVIOUS
    <3>1. i < j \/ j < i
      BY <1>1
    <3>2. found[i] \in Int /\ found[j] \in Int
      BY <1>1, <1>2
    <3> QED
      BY <1>2, <3>1, <3>2
  <2> QED
    BY <1>2, <2>1 DEF Injection, IsInjective
<1>4. IsFiniteSet(N) /\ Cardinality(N) = Cardinality(S)
  BY <1>1, FS_Interval
<1>5. found \in Surjection(N, S)
  BY <1>1, <1>3, <1>4, FS_Injection
<1> QED
  BY <1>2, <1>5 DEF Surjection

\* The constraints of a connected row's table are looked up for it.
LEMMA OutgoingAll ==
  ASSUME Spread, pc = "propagate", NEW c \in schema.cons, NEW p \in Parents(rows, c), Reached(p)
  PROVE  c \in Outgoing(change, p)
BY DEF Spread, Outgoing, Component, Parents, InTable, Present

\* A deletion starts with the named row, looked up under each constraint it is a parent in.
LEMMA DeletionPrepare ==
  ASSUME DInv, NEW ch \in Changes, Prepare(ch)
  PROVE  DInv'
<1>1. IInv' /\ pc' = "propagate"
  BY PrepareStep DEF DInv, Prepare
<1> SUFFICES ASSUME ch.kind = "delete" PROVE Deletion'
  BY <1>1 DEF DInv, Deletion, Prepare
<1>2. /\ ch.row \in Present(rows) /\ ch.row \in Rows /\ change' = ch /\ deleted' = {ch.row}
      /\ queue' = <<ch.row>> /\ todo' = Outgoing(ch, ch.row) /\ UNCHANGED <<schema, rows>>
  BY ChangedType DEF DInv, IInv, Prepare, Cascades
<1>3. Present(rows)' = Present(rows)
  BY <1>2 DEF Present
<1>4. ASSUME NEW c \in schema.cons, NEW p \in Parents(rows, c)', p \in deleted'
      PROVE  Pending(p, c)'
  <2>1. p = ch.row /\ Reached(p)'
    BY <1>2, <1>4 DEF Reached
  <2>2. c \in Outgoing(change, p)'
    BY <1>1, <1>2, <2>1, <1>4, OutgoingAll DEF IInv, Spread, Outgoing, Component, Parents, InTable, Present
  <2>3. c \in todo'
    BY <1>2, <2>1, <2>2 DEF Outgoing, Component, Connected, Connects, TableNames, Table
  <2> QED
    BY <1>2, <2>1, <2>3 DEF Pending
<1>5. \A c \in todo' : c.parent = schema.table[ch.row]
  BY <1>2 DEF Outgoing
<1>6. Queued'
  BY <1>2, <1>3, <1>5 DEF Queued
<1>7. NotTooMuch' /\ NotTooLittle'
  BY <1>2, <1>4 DEF NotTooMuch, NotTooLittle
<1> QED
  BY <1>6, <1>7 DEF Deletion

\* Which rows refer to which depends on the published rows alone.
LEMMA MatchesKept ==
  ASSUME UNCHANGED <<schema, rows>>
  PROVE  /\ Present(rows)' = Present(rows)
         /\ \A c : Parents(rows, c)' = Parents(rows, c) /\ Children(rows, c)' = Children(rows, c)
         /\ \A c, p, q : Matches(c, p, q)' <=> Matches(c, p, q)
         /\ \A T : ClosedUnderDeletes(T)' <=> ClosedUnderDeletes(T)
<1>1. Present(rows)' = Present(rows)
  BY DEF Present
<1>2. ASSUME NEW c PROVE Parents(rows, c)' = Parents(rows, c) /\ Children(rows, c)' = Children(rows, c)
  BY <1>1 DEF Parents, Children, InTable
<1>3. ASSUME NEW c, NEW p, NEW q PROVE Matches(c, p, q)' <=> Matches(c, p, q)
  BY DEF Matches, ChildKey, ParentKey
<1>4. ASSUME NEW T PROVE ClosedUnderDeletes(T)' <=> ClosedUnderDeletes(T)
  BY <1>2, <1>3 DEF ClosedUnderDeletes
<1> QED
  BY <1>1, <1>2, <1>3, <1>4

\* A row's children under one constraint are deleted and queued.
LEMMA DeletionPropagate ==
  ASSUME DInv, NEW c \in schema.cons, Propagate(c)
  PROVE  DInv'
<1> DEFINE p == Head(queue)
           hit == IF Propagates(c, p) THEN Matched(c, p) ELSE {}
<1>1. IInv' /\ pc = "propagate" /\ pc' = "propagate" /\ change' = change
  BY PropagateStep DEF DInv, Propagate
<1> SUFFICES ASSUME change.kind = "delete" PROVE Deletion'
  BY <1>1 DEF DInv, Deletion
<1>2. /\ queue # <<>> /\ c \in todo /\ todo' = todo \ {c} /\ UNCHANGED <<schema, rows>>
      /\ queue \in Seq(Present(rows)) /\ p = queue[1] /\ p \in Present(rows) /\ 1 \in DOMAIN queue
  BY <1>1 DEF Propagate, DInv, IInv, TypeInv
<1>3. p \in deleted /\ c.parent = schema.table[p] /\ p \in Parents(rows, c)
  BY <1>1, <1>2 DEF DInv, Deletion, Queued, Parents, InTable
<1>4. deleted' = deleted \union hit /\ \E found \in InOrder(hit) : queue' = queue \o found
  BY <1>3 DEF Propagate
<1>5. PICK found \in InOrder(hit) : queue' = queue \o found
  BY <1>4
<1>6. hit \subseteq Present(rows) /\ hit \in SUBSET Rows
  BY DEF Matched, Children, InTable, Present
<1>7. found \in Seq(hit) /\ \A r \in hit : \E i \in DOMAIN found : found[i] = r
  BY <1>6, InOrderType, InOrderCovers
<1>8. hit = IF c.deletes THEN Matched(c, p) ELSE {}
  BY <1>3 DEF Propagates, AssignedKey
<1> HIDE DEF p, hit
<1>9. /\ \A i \in DOMAIN queue : i \in DOMAIN queue' /\ queue'[i] = queue[i]
      /\ \A i \in DOMAIN found : /\ Len(queue) + i \in DOMAIN queue' /\ Len(queue) + i > 1
                                 /\ queue'[Len(queue) + i] = found[i]
      /\ \A j \in DOMAIN queue' : queue'[j] \in deleted \union hit
      /\ queue' # <<>>
  <2>1. queue' \in Seq(Present(rows)) /\ Len(queue') = Len(queue) + Len(found) /\ Len(queue) > 0
    BY <1>2, <1>5, <1>6, <1>7
  <2>2. \A i \in DOMAIN queue : i \in DOMAIN queue' /\ queue'[i] = queue[i]
    BY <1>2, <1>5, <1>7, <2>1
  <2>3. \A i \in DOMAIN found : /\ Len(queue) + i \in DOMAIN queue' /\ Len(queue) + i > 1
                                /\ queue'[Len(queue) + i] = found[i]
    BY <1>2, <1>5, <1>7, <2>1
  <2>4. \A i \in DOMAIN queue : queue[i] \in deleted
    BY <1>1 DEF DInv, Deletion, Queued
  <2>5. ASSUME NEW j \in DOMAIN queue' PROVE queue'[j] \in deleted \union hit
    <3>1. CASE j \in DOMAIN queue
      BY <2>2, <2>4, <3>1
    <3>2. CASE j \notin DOMAIN queue
      <4>1. j - Len(queue) \in DOMAIN found /\ queue'[j] = found[j - Len(queue)]
        BY <1>2, <1>5, <1>7, <2>1, <3>2
      <4> QED
        BY <1>7, <4>1
    <3> QED
      BY <3>1, <3>2
  <2> QED
    BY <2>1, <2>2, <2>3, <2>5
<1>10. ASSUME NEW T \in SUBSET Rows, change.row \in T, ClosedUnderDeletes(T)
       PROVE  deleted \union hit \subseteq T
  <2>1. deleted \subseteq T
    BY <1>1, <1>10 DEF DInv, Deletion, NotTooMuch
  <2>2. hit \subseteq T
    BY <1>3, <1>8, <1>10, <2>1 DEF ClosedUnderDeletes, Matched
  <2> QED
    BY <2>1, <2>2
<1>11. ASSUME NEW d \in schema.cons, d.deletes, NEW x \in Parents(rows, d),
              NEW q \in Children(rows, d), x \in deleted \union hit, Matches(d, x, q)
       PROVE  q \in deleted \union hit \/ Pending(x, d)'
  <2>1. CASE x \in hit
    <3>1. PICK i \in DOMAIN found : found[i] = x
      BY <1>7, <2>1
    <3> QED
      BY <3>1, <1>9 DEF Pending
  <2>2. CASE x \in deleted
    <3>1. q \in deleted \/ Pending(x, d)
      BY <1>1, <1>11, <2>2 DEF DInv, Deletion, NotTooLittle
    <3>2. CASE x = p /\ d = c
      BY <1>8, <1>11, <3>2 DEF Matched
    <3>3. CASE Pending(x, d) /\ ~(x = p /\ d = c)
      <4>1. CASE \E i \in DOMAIN queue : i > 1 /\ queue[i] = x
        BY <1>9, <4>1 DEF Pending
      <4>2. CASE x = queue[1] /\ d \in todo
        BY <1>2, <1>9, <3>3, <4>2 DEF Pending
      <4> QED
        BY <3>3, <4>1, <4>2 DEF Pending
    <3> QED
      BY <3>1, <3>2, <3>3
  <2> QED
    BY <1>11, <2>1, <2>2
<1>12. \A d \in todo' : d.parent = schema.table[queue'[1]]
  <2>1. \A d \in todo : d.parent = schema.table[queue[1]]
    BY <1>1, <1>2 DEF DInv, Deletion, Queued
  <2> QED
    BY <1>2, <1>9, <2>1
<1>13. Queued'
  <2>1. change.row \in deleted /\ deleted \subseteq Present(rows)
    BY <1>1 DEF DInv, Deletion, Queued
  <2> QED
    BY <1>1, <1>2, <1>4, <1>6, <1>9, <1>12, <2>1, MatchesKept DEF Queued
<1>14. NotTooMuch'
  BY <1>1, <1>2, <1>4, <1>10, MatchesKept DEF NotTooMuch
<1>15. NotTooLittle'
  <2> SUFFICES ASSUME NEW d \in schema.cons, d.deletes, NEW x \in Parents(rows, d)',
                      NEW q \in Children(rows, d)', x \in deleted', Matches(d, x, q)'
               PROVE  q \in deleted' \/ Pending(x, d)'
    BY <1>2 DEF NotTooLittle
  <2> QED
    BY <1>2, <1>4, <1>11, MatchesKept
<1> QED
  BY <1>13, <1>14, <1>15 DEF Deletion

\* The next row is looked up under each constraint it is a parent in.
LEMMA DeletionNextRow ==
  ASSUME DInv, NextRow
  PROVE  DInv'
<1>1. /\ IInv' /\ IInv /\ pc = "propagate" /\ pc' = "propagate" /\ queue # <<>> /\ todo = {}
      /\ UNCHANGED <<schema, rows, change, after, deleted>> /\ queue' = Tail(queue)
  BY NextRowStep DEF DInv, NextRow
<1> SUFFICES ASSUME change.kind = "delete" PROVE Deletion'
  BY <1>1 DEF DInv, Deletion
<1>2. Queued /\ NotTooMuch /\ NotTooLittle
  BY <1>1 DEF DInv, Deletion
<1>3. queue \in Seq(Present(rows))
  BY <1>1 DEF IInv, TypeInv
<1>4. /\ \A i \in DOMAIN queue : i > 1 => i - 1 \in DOMAIN queue' /\ queue'[i - 1] = queue[i]
      /\ \A i \in DOMAIN queue' : i + 1 \in DOMAIN queue /\ queue'[i] = queue[i + 1]
      /\ queue' # <<>> => Head(queue') = queue'[1]
  BY <1>1, <1>3
<1>5. queue' # <<>> => todo' = Outgoing(change, queue'[1])
  BY <1>4 DEF NextRow
<1>6. Queued'
  BY <1>1, <1>2, <1>4, <1>5, MatchesKept DEF Queued, Outgoing
<1>7. NotTooMuch'
  BY <1>1, <1>2, MatchesKept DEF NotTooMuch
<1>8. NotTooLittle'
  <2> SUFFICES ASSUME NEW d \in schema.cons, d.deletes, NEW x \in Parents(rows, d),
                      NEW q \in Children(rows, d), x \in deleted, Matches(d, x, q), q \notin deleted
               PROVE  Pending(x, d)'
    BY <1>1, MatchesKept DEF NotTooLittle
  <2>1. PICK i \in DOMAIN queue : i > 1 /\ queue[i] = x
    BY <1>1, <1>2 DEF NotTooLittle, Pending
  <2>2. i - 1 \in DOMAIN queue' /\ queue'[i - 1] = x /\ i \in Nat
    BY <1>3, <1>4, <2>1
  <2>3. CASE i - 1 > 1
    BY <2>2, <2>3 DEF Pending
  <2>4. CASE i - 1 = 1
    <3>0. 1 \in DOMAIN queue' /\ queue'[1] = x
      BY <2>2, <2>4
    <3>1. queue' # <<>> /\ queue'[1] = x
      BY <3>0
    <3>2. d \in Outgoing(change, x)
      BY <1>1, OutgoingAll DEF IInv, Reached
    <3> QED
      BY <1>5, <3>1, <3>2 DEF Pending
  <2> QED
    BY <2>1, <2>2, <2>3, <2>4
<1> QED
  BY <1>6, <1>7, <1>8 DEF Deletion

\* Nothing is under way when a change is published or refused.
LEMMA DeletionIdle ==
  ASSUME DInv, IInv', Idle
  PROVE  DInv'
BY DEF DInv, Deletion, Idle

\* Each step keeps the account of the rows deleted so far.
LEMMA NextDeletion == DInv /\ [Next]_vars => DInv'
<1> SUFFICES ASSUME DInv, [Next]_vars PROVE DInv'
  OBVIOUS
<1>1. IInv'
  BY NextInv DEF DInv
<1>2. ASSUME NEW ch \in Changes, Direct(ch) PROVE DInv'
  BY <1>1, <1>2 DEF Direct, plan, DInv, Deletion
<1>3. ASSUME NEW ch \in Changes, Prepare(ch) PROVE DInv'
  BY <1>3, DeletionPrepare
<1>4. ASSUME NEW c \in schema.cons, Propagate(c) PROVE DInv'
  BY <1>4, DeletionPropagate
<1>5. CASE NextRow
  BY <1>5, DeletionNextRow
<1>6. CASE Publish \/ ConstraintViolated \/ BudgetExhausted \/ Refuse
  BY <1>1, <1>6, DeletionIdle DEF Publish, ConstraintViolated, BudgetExhausted, Refuse
<1>7. CASE UNCHANGED vars
  <2>1. UNCHANGED <<schema, rows, pc, change, deleted, queue, todo>>
    BY <1>7 DEF vars, plan
  <2>2. Queued => Queued'
    BY <2>1, MatchesKept DEF Queued
  <2>3. NotTooMuch => NotTooMuch'
    BY <2>1, MatchesKept DEF NotTooMuch
  <2>4. \A p, c : Pending(p, c)' <=> Pending(p, c)
    BY <2>1 DEF Pending
  <2>5. NotTooLittle => NotTooLittle'
    BY <2>1, <2>4, MatchesKept DEF NotTooLittle
  <2> QED
    BY <1>1, <2>1, <2>2, <2>3, <2>5 DEF DInv, Deletion
<1> QED
  BY <1>2, <1>3, <1>4, <1>5, <1>6, <1>7 DEF Next, Progress

\* With the queue empty nothing is pending: the rows deleted are the closure.
LEMMA ClosureWhenDone ==
  ASSUME DInv, pc = "propagate", queue = <<>>, change.kind = "delete"
  PROVE  deleted = ReachedFrom(change.row)
<1>1. Queued /\ NotTooMuch /\ NotTooLittle /\ deleted \in SUBSET Rows
  BY DEF DInv, Deletion, IInv, TypeInv
<1>2. \A p, c : ~Pending(p, c)
  BY DEF Pending
<1>3. ClosedUnderDeletes(deleted)
  BY <1>1, <1>2 DEF NotTooLittle, ClosedUnderDeletes
<1> DEFINE Least(S) == /\ change.row \in S /\ ClosedUnderDeletes(S)
                       /\ \A T \in SUBSET Rows : change.row \in T /\ ClosedUnderDeletes(T) => S \subseteq T
<1>4. Least(deleted)
  BY <1>1, <1>3 DEF Queued, NotTooMuch
<1>5. \A S \in SUBSET Rows : Least(S) => S = deleted
  BY <1>1, <1>4
<1>6. ReachedFrom(change.row) = CHOOSE S \in SUBSET Rows : Least(S)
  BY DEF ReachedFrom
<1> HIDE DEF Least
<1> QED
  BY <1>1, <1>4, <1>5, <1>6

\* A cascading deletion takes exactly the rows reached from the named row along the
\* constraints that cascade deletes.
THEOREM DeletionsTakeTheClosure == Spec => DeletesTheClosure
<1>1. Init => DInv
  BY InitInv DEF Init, DInv, Deletion
<1>2. ASSUME DInv, Next, change.kind = "delete", rows' # rows
      PROVE  Present(rows) \ Present(rows') = ReachedFrom(change.row)
  <2>1. ~\E ch \in Changes : Direct(ch)
    <3>1. pc # "idle"
      BY <1>2 DEF DInv, NoChange
    <3> QED
      BY <3>1 DEF Direct
  <2>2. Publish
    BY <1>2, <2>1 DEF Next, Progress, Prepare, Propagate, NextRow, ConstraintViolated,
       BudgetExhausted, Refuse
  <2>3. pc = "propagate" /\ queue = <<>> /\ rows' = Result
    BY <2>2 DEF Publish
  <2>4. deleted \subseteq Present(rows)
    BY <1>2, <2>3 DEF DInv, Deletion, Queued
  <2>5. \A r \in Present(rows) : Final(r) # ABSENT
    BY <1>2, FinalType, CascadeAssumption DEF DInv, IInv, RowType
  <2>6. Present(rows) \ Present(rows') = deleted
    BY <2>3, <2>4, <2>5 DEF Present, Result
  <2> QED
    BY <1>2, <2>3, <2>6, ClosureWhenDone
<1>3. DInv /\ [Next]_vars =>
        [change.kind = "delete" /\ rows' # rows =>
           Present(rows) \ Present(rows') = ReachedFrom(change.row)]_vars
  BY <1>2
<1> QED
  BY <1>1, <1>3, NextDeletion, PTL DEF Spec, DeletesTheClosure

-----------------------------------------------------------------------------
(* Updates. *)

\* A column of a child has what the parent has, or it is the caller's, or contested.
Carried(c, p, r, i) ==
  \/ after[r][c.ccols[i]] = Final(p)[c.pcols[i]]
  \/ r = change.row /\ c.ccols[i] \in Explicit(change)
  \/ Contested(c, p, r, c.ccols[i])

KeyAssigned(c, p) == AssignedKey(c, p, deleted, Assigned)

\* The children of a row whose key is assigned have followed, or the row is queued.
Followed ==
  \A c \in schema.cons : c.updates =>
    \A p \in Parents(rows, c), r \in Children(rows, c) : KeyAssigned(c, p) /\ Matches(c, p, r) =>
      Pending(p, c) \/ \A i \in DOMAIN c.ccols : Carried(c, p, r, i)

\* An update deletes nothing; a deletion assigns nothing.
Update ==
  pc = "propagate" =>
    IF change.kind = "delete" THEN \A r \in Rows, k \in Columns : after[r][k] = UNSET
    ELSE /\ deleted = {} /\ Followed
         /\ queue # <<>> => \A c \in todo : c.parent = schema.table[queue[1]]

UInv == DInv /\ Update

\* A change starts with the fields the caller assigned, in the queued row alone.
LEMMA UpdatePrepare ==
  ASSUME UInv, NEW ch \in Changes, Prepare(ch)
  PROVE  UInv'
<1>1. DInv' /\ IInv' /\ pc' = "propagate"
  BY DeletionPrepare DEF UInv, DInv, Prepare
<1>2. /\ ch.row \in Present(rows) /\ ch.row \in Rows /\ change' = ch
      /\ queue' = <<ch.row>> /\ todo' = Outgoing(ch, ch.row) /\ UNCHANGED <<schema, rows>>
      /\ after' = [NoAssignments EXCEPT ![ch.row] =
                 [k \in Columns |-> IF k \in Explicit(ch) THEN Changed(ch)[k] ELSE UNSET]]
  BY ChangedType DEF UInv, DInv, IInv, Prepare, Cascades
<1>3. CASE ch.kind = "delete"
  <2>1. Explicit(ch) = {}
    BY <1>3 DEF Explicit
  <2>2. \A r \in Rows, k \in Columns : after'[r][k] = UNSET
    BY <1>2, <2>1 DEF NoAssignments
  <2> QED
    BY <1>1, <1>2, <1>3, <2>2 DEF UInv, Update
<1>4. CASE ch.kind # "delete"
  <2>1. deleted' = {}
    BY <1>4 DEF Prepare
  <2>2. \A r \in Rows \ {ch.row}, k \in Columns : after'[r][k] = UNSET
    BY <1>2 DEF NoAssignments
  <2>3. ASSUME NEW c \in schema.cons, NEW p \in Parents(rows, c)', KeyAssigned(c, p)'
        PROVE  Pending(p, c)'
    <3>1. p \in Rows
      BY DEF Parents, InTable, Present
    <3>2. TypeInv' /\ c \in schema'.cons
      BY <1>1, <1>2 DEF IInv
    <3>3. \E k \in Columns : after'[p][k] # UNSET
      BY <2>1, <2>3, <3>1, <3>2 DEF KeyAssigned, AssignedKey, Assigned
    <3>4. p = ch.row /\ Reached(p)'
      BY <2>2, <3>1, <3>3 DEF Reached
    <3>5. c \in Outgoing(change, p)'
      BY <1>1, <1>2, <2>3, <3>4, OutgoingAll DEF IInv, Spread, Outgoing, Component, Parents, InTable, Present
    <3>6. c \in todo'
      BY <1>2, <3>4, <3>5 DEF Outgoing, Component, Connected, Connects, TableNames, Table
    <3> QED
      BY <1>2, <3>4, <3>6 DEF Pending
  <2>4. Followed'
    BY <1>2, <2>3 DEF Followed
  <2>5. \A c \in todo' : c.parent = schema.table[ch.row]
    BY <1>2 DEF Outgoing
  <2> QED
    BY <1>1, <1>2, <1>4, <2>1, <2>4, <2>5 DEF UInv, Update
<1> QED
  BY <1>3, <1>4

\* What one constraint of one queued row assigns.
LEMMA ReassignedIs ==
  ASSUME TypeInv, NEW c \in schema.cons, NEW p \in Present(rows), NEW r \in Rows
  PROVE  /\ \A k \in Columns :
              \/ Reassigned(c, p, r)[k] = after[r][k]
              \/ /\ \E j \in DOMAIN c.ccols : c.ccols[j] = k
                 /\ Reassigned(c, p, r)[k] \in Values
         /\ \A i \in DOMAIN c.ccols :
              \/ Reassigned(c, p, r)[c.ccols[i]] = Final(p)[c.pcols[i]]
              \/ r = change.row /\ c.ccols[i] \in Explicit(change)
<1>1. /\ c.pcols \in Seq(Columns) /\ c.ccols \in Seq(Columns) /\ DOMAIN c.ccols = DOMAIN c.pcols
      /\ \A i, j \in DOMAIN c.ccols : c.ccols[i] = c.ccols[j] => i = j
  BY DEF TypeInv, Constraint
<1>2. Final(p) \in RowType
  BY FinalType
<1>3. ASSUME NEW i \in DOMAIN c.ccols, ~(r = change.row /\ c.ccols[i] \in Explicit(change))
      PROVE  NewValue(c, p, r, c.ccols[i]) = Final(p)[c.pcols[i]] /\ Final(p)[c.pcols[i]] \in Values
  <2>1. (CHOOSE j \in DOMAIN c.ccols : c.ccols[j] = c.ccols[i]) = i
    BY <1>1
  <2>2. NewValue(c, p, r, c.ccols[i]) = Final(p)[c.pcols[i]]
    BY <1>3, <2>1 DEF NewValue
  <2>3. c.pcols[i] \in Columns
    BY <1>1
  <2> QED
    BY <1>2, <2>2, <2>3 DEF RowType
<1>4. \A k \in Columns : Reassigned(c, p, r)[k] = NewValue(c, p, r, k)
  BY DEF Reassigned
<1>5. ASSUME NEW k \in Columns, NewValue(c, p, r, k) # after[r][k]
      PROVE  (\E j \in DOMAIN c.ccols : c.ccols[j] = k) /\ NewValue(c, p, r, k) \in Values
  <2>1. PICK i \in DOMAIN c.ccols : c.ccols[i] = k /\ ~(r = change.row /\ k \in Explicit(change))
    BY <1>5 DEF NewValue
  <2> QED
    BY <1>3, <2>1
<1>6. \A i \in DOMAIN c.ccols : c.ccols[i] \in Columns
  BY <1>1
<1> QED
  BY <1>3, <1>4, <1>5, <1>6

\* A row that is assigned again is queued again; what another row overwrites is contested.
LEMMA UpdatePropagate ==
  ASSUME UInv, NEW c \in schema.cons, Propagate(c)
  PROVE  UInv'
<1> DEFINE p == Head(queue)
           hit == IF Propagates(c, p) THEN Matched(c, p) ELSE {}
           new == {r \in hit : Reassigned(c, p, r) # after[r]}
<1>1. /\ DInv' /\ IInv /\ IInv' /\ pc = "propagate" /\ pc' = "propagate" /\ change' = change
      /\ queue # <<>> /\ c \in todo /\ todo' = todo \ {c} /\ UNCHANGED <<schema, rows>>
  BY DeletionPropagate DEF UInv, DInv, Propagate
<1>2. /\ queue \in Seq(Present(rows)) /\ p = queue[1] /\ p \in Present(rows) /\ p \in Rows /\ 1 \in DOMAIN queue
      /\ TypeInv /\ TypeInv'
  BY <1>1 DEF IInv, TypeInv, Present
<1>3. CASE change.kind = "delete"
  <2>1. p \in deleted
    BY <1>1, <1>2, <1>3 DEF UInv, DInv, Deletion, Queued
  <2>2. UNCHANGED after
    BY <2>1 DEF Propagate
  <2> QED
    BY <1>1, <1>3, <2>2 DEF UInv, Update
<1>4. CASE change.kind # "delete"
  <2>1. /\ deleted = {} /\ Followed /\ \A d \in todo : d.parent = schema.table[queue[1]]
    BY <1>1, <1>4 DEF UInv, Update
  <2>2. /\ UNCHANGED deleted /\ deleted' = {}
        /\ after' = [r \in Rows |-> IF r \in hit THEN Reassigned(c, p, r) ELSE after[r]]
        /\ \E found \in InOrder(new) : queue' = queue \o found
    BY <2>1 DEF Propagate
  <2>3. PICK found \in InOrder(new) : queue' = queue \o found
    BY <2>2
  <2>4. hit \subseteq Present(rows) /\ hit \in SUBSET Rows /\ new \in SUBSET Rows /\ new \subseteq Present(rows)
    BY DEF Matched, Children, InTable, Present
  <2>5. found \in Seq(new) /\ \A r \in new : \E i \in DOMAIN found : found[i] = r
    BY <2>4, InOrderType, InOrderCovers
  <2>6. p \in Parents(rows, c)
    BY <1>1, <1>2, <2>1 DEF Parents, InTable
  <2>7. \A r \in hit : Propagates(c, p) /\ r \in Children(rows, c) /\ Matches(c, p, r)
    BY DEF Matched
  <2>8. c.updates /\ KeyAssigned(c, p) => \A r \in Children(rows, c) : Matches(c, p, r) => r \in hit
    BY <2>1 DEF Propagates, Matched, KeyAssigned
  <2>9. \A r \in Rows : after'[r] # after[r] => r \in new
    BY <2>2
  <2>10. \A r \in Rows : after'[r] = after[r] \/ (r \in hit /\ after'[r] = Reassigned(c, p, r))
    BY <2>2
  <2>11. \A r \in hit : after'[r] = Reassigned(c, p, r)
    BY <2>2, <2>4
  <2> HIDE DEF p, hit, new
  <2>12. /\ \A i \in DOMAIN queue : i \in DOMAIN queue' /\ queue'[i] = queue[i]
         /\ \A i \in DOMAIN found : /\ Len(queue) + i \in DOMAIN queue' /\ Len(queue) + i > 1
                                    /\ queue'[Len(queue) + i] = found[i]
         /\ queue' # <<>>
    <3>1. queue' \in Seq(Present(rows)) /\ Len(queue') = Len(queue) + Len(found) /\ Len(queue) > 0
      BY <1>2, <2>3, <2>4, <2>5
    <3> QED
      BY <1>2, <2>3, <2>5, <3>1
  <2>13. ASSUME NEW r \in Rows, after'[r] # after[r], NEW d PROVE Pending(r, d)'
    <3>1. PICK i \in DOMAIN found : found[i] = r
      BY <2>5, <2>9, <2>13
    <3> QED
      BY <2>12, <3>1 DEF Pending
  <2>14. \A r \in Rows, k \in Columns : after[r][k] # UNSET => after'[r][k] # UNSET
    BY <1>2, <2>10, ReassignedIs, CascadeAssumption
  <2>15. \A d \in schema.cons, q \in Rows : KeyAssigned(d, q) => KeyAssigned(d, q)'
    BY <1>1, <2>1, <2>2, <2>14 DEF KeyAssigned, AssignedKey, Assigned
  <2>16. \A d, x, r, k : Contested(d, x, r, k) => Contested(d, x, r, k)'
    <3>1. \A d \in schema.cons, q \in Rows : Propagates(d, q) => Propagates(d, q)'
      BY <1>1, <2>1, <2>2, <2>15 DEF Propagates, KeyAssigned
    <3>2. \A d : \A q \in Parents(rows, d) : q \in Rows
      BY DEF Parents, InTable, Present
    <3> QED
      BY <1>1, <3>1, <3>2, MatchesKept DEF Contested
  <2>17. ASSUME NEW d \in schema.cons, d.updates, NEW x \in Parents(rows, d), NEW r \in Children(rows, d),
                KeyAssigned(d, x)', Matches(d, x, r)
         PROVE  Pending(x, d)' \/ \A i \in DOMAIN d.ccols : Carried(d, x, r, i)'
    <3>1. x \in Rows /\ r \in Rows /\ x \in Present(rows)
      BY DEF Parents, Children, InTable, Present
    <3>2. CASE after'[x] # after[x]
      BY <2>13, <3>1, <3>2
    <3>3. CASE after'[x] = after[x]
      <4>1. Final(x)' = Final(x)
        BY <1>1, <3>3 DEF Final
      <4>2. KeyAssigned(d, x)
        BY <1>1, <2>1, <2>2, <2>17, <3>1, <3>3 DEF KeyAssigned, AssignedKey, Assigned
      <4>3. CASE x = p /\ d = c
        <5>1. r \in hit /\ after'[r] = Reassigned(c, p, r)
          BY <2>8, <2>11, <2>17, <4>2, <4>3
        <5>2. ASSUME NEW i \in DOMAIN d.ccols PROVE Carried(d, x, r, i)'
          BY <1>1, <1>2, <3>1, <4>1, <4>3, <5>1, ReassignedIs DEF Carried
        <5> QED
          BY <5>2
      <4>4. CASE Pending(x, d) /\ ~(x = p /\ d = c)
        <5>1. CASE \E i \in DOMAIN queue : i > 1 /\ queue[i] = x
          BY <2>12, <5>1 DEF Pending
        <5>2. CASE x = queue[1] /\ d \in todo
          BY <1>1, <1>2, <2>12, <4>4, <5>2 DEF Pending
        <5> QED
          BY <4>4, <5>1, <5>2 DEF Pending
      <4>5. CASE (\A i \in DOMAIN d.ccols : Carried(d, x, r, i)) /\ ~(x = p /\ d = c)
        <5>1. ASSUME NEW i \in DOMAIN d.ccols PROVE Carried(d, x, r, i)'
          <6> DEFINE k == d.ccols[i]
          <6>0. k \in Columns
            BY <1>2 DEF TypeInv, Constraint
          <6> HIDE DEF k
          <6>1. CASE r = change.row /\ k \in Explicit(change)
            BY <1>1, <6>1 DEF Carried, k
          <6>2. CASE Contested(d, x, r, k)
            BY <1>1, <2>16, <6>2 DEF Carried, k
          <6>3. CASE after[r][k] = Final(x)[d.pcols[i]] /\ after'[r][k] = after[r][k]
            BY <1>1, <4>1, <6>3 DEF Carried, k
          <6>4. CASE after'[r][k] # after[r][k]
            <7>1. r \in hit /\ after'[r] = Reassigned(c, p, r)
              BY <2>10, <3>1, <6>4
            <7>2. \E j \in DOMAIN c.ccols : c.ccols[j] = k
              BY <1>2, <3>1, <6>0, <6>4, <7>1, ReassignedIs
            <7>3. d.child = c.child
              BY <2>7, <2>17, <7>1 DEF Children, InTable
            <7>4. Contested(d, x, r, k)
              BY <2>6, <2>7, <4>5, <7>1, <7>2, <7>3 DEF Contested
            <7> QED
              BY <1>1, <2>16, <7>4 DEF Carried, k
          <6> QED
            BY <4>5, <6>1, <6>2, <6>3, <6>4 DEF Carried, k
        <5> QED
          BY <5>1
      <4> QED
        BY <2>1, <2>17, <4>2, <4>3, <4>4, <4>5 DEF Followed
    <3> QED
      BY <3>2, <3>3
  <2>18. Followed'
    BY <1>1, <2>17, MatchesKept DEF Followed
  <2>19. \A d \in todo' : d.parent = schema.table[queue'[1]]
    BY <1>1, <1>2, <2>1, <2>12
  <2> QED
    BY <1>1, <1>4, <2>2, <2>18, <2>19 DEF UInv, Update
<1> QED
  BY <1>3, <1>4

\* Which children have followed depends on the rows and the assignments alone.
LEMMA CarriedKept ==
  ASSUME UNCHANGED <<schema, rows, change, after, deleted>>
  PROVE  /\ \A d, x, r, i : Carried(d, x, r, i)' <=> Carried(d, x, r, i)
         /\ \A d, x : KeyAssigned(d, x)' <=> KeyAssigned(d, x)
<1>1. Assigned' = Assigned
  BY DEF Assigned
<1>2. \A d, x : (Propagates(d, x)' <=> Propagates(d, x)) /\ (KeyAssigned(d, x)' <=> KeyAssigned(d, x))
  BY <1>1 DEF Propagates, KeyAssigned, AssignedKey
<1>3. ASSUME NEW d, NEW x, NEW r, NEW k PROVE Contested(d, x, r, k)' <=> Contested(d, x, r, k)
  <2>1. /\ \A c : Parents(rows, c)' = Parents(rows, c)
        /\ \A c, p, q : Matches(c, p, q)' <=> Matches(c, p, q)
    BY MatchesKept
  <2> QED
    BY <1>2, <2>1 DEF Contested
<1>4. \A x : Final(x)' = Final(x)
  BY DEF Final
<1>5. ASSUME NEW d, NEW x, NEW r, NEW i PROVE Carried(d, x, r, i)' <=> Carried(d, x, r, i)
  BY <1>3, <1>4 DEF Carried
<1> QED
  BY <1>2, <1>5

\* The next row of the queue.
LEMMA UpdateNextRow ==
  ASSUME UInv, NextRow
  PROVE  UInv'
<1>1. /\ DInv' /\ IInv' /\ IInv /\ pc = "propagate" /\ pc' = "propagate" /\ queue # <<>> /\ todo = {}
      /\ UNCHANGED <<schema, rows, change, after, deleted>> /\ queue' = Tail(queue)
  BY DeletionNextRow DEF UInv, DInv, NextRow
<1> SUFFICES ASSUME change.kind # "delete" PROVE Update'
  BY <1>1 DEF UInv, Update
<1>2. deleted = {} /\ Followed
  BY <1>1 DEF UInv, Update
<1>3. queue \in Seq(Present(rows))
  BY <1>1 DEF IInv, TypeInv
<1>4. /\ \A i \in DOMAIN queue : i > 1 => i - 1 \in DOMAIN queue' /\ queue'[i - 1] = queue[i]
      /\ queue' # <<>> => Head(queue') = queue'[1]
  BY <1>1, <1>3
<1>5. queue' # <<>> => todo' = Outgoing(change, queue'[1])
  BY <1>4 DEF NextRow
<1>6. \A d, x, r, i : Carried(d, x, r, i)' <=> Carried(d, x, r, i)
  BY <1>1, CarriedKept
<1>7. \A d, x : KeyAssigned(d, x)' <=> KeyAssigned(d, x)
  BY <1>1, CarriedKept
<1>8. Followed'
  <2> SUFFICES ASSUME NEW d \in schema.cons, d.updates, NEW x \in Parents(rows, d),
                      NEW r \in Children(rows, d), KeyAssigned(d, x), Matches(d, x, r),
                      ~\A i \in DOMAIN d.ccols : Carried(d, x, r, i)
               PROVE  Pending(x, d)'
    BY <1>1, <1>6, <1>7, MatchesKept DEF Followed
  <2>1. PICK i \in DOMAIN queue : i > 1 /\ queue[i] = x
    BY <1>1, <1>2 DEF Followed, Pending
  <2>2. i - 1 \in DOMAIN queue' /\ queue'[i - 1] = x /\ i \in Nat
    BY <1>3, <1>4, <2>1
  <2>3. CASE i - 1 > 1
    BY <2>2, <2>3 DEF Pending
  <2>4. CASE i - 1 = 1
    <3>0. 1 \in DOMAIN queue' /\ queue'[1] = x
      BY <2>2, <2>4
    <3>1. queue' # <<>> /\ queue'[1] = x
      BY <3>0
    <3>2. Reached(x)
      BY <1>2 DEF Reached, KeyAssigned, AssignedKey, Assigned, Parents, InTable, Present
    <3>3. d \in Outgoing(change, x)
      BY <1>1, <3>2, OutgoingAll DEF IInv
    <3> QED
      BY <1>5, <3>1, <3>3 DEF Pending
  <2> QED
    BY <2>1, <2>2, <2>3, <2>4
<1>9. queue' # <<>> => \A c \in todo' : c.parent = schema.table[queue'[1]]
  BY <1>5 DEF Outgoing
<1> QED
  BY <1>1, <1>2, <1>8, <1>9 DEF Update

\* Each step keeps the account of the children that have followed.
LEMMA NextUpdate == UInv /\ [Next]_vars => UInv'
<1> SUFFICES ASSUME UInv, [Next]_vars PROVE UInv'
  OBVIOUS
<1>1. DInv'
  BY NextDeletion DEF UInv
<1>2. ASSUME NEW ch \in Changes, Direct(ch) PROVE UInv'
  BY <1>1, <1>2 DEF Direct, plan, UInv, Update
<1>3. ASSUME NEW ch \in Changes, Prepare(ch) PROVE UInv'
  BY <1>3, UpdatePrepare
<1>4. ASSUME NEW c \in schema.cons, Propagate(c) PROVE UInv'
  BY <1>4, UpdatePropagate
<1>5. CASE NextRow
  BY <1>5, UpdateNextRow
<1>6. CASE Publish \/ ConstraintViolated \/ BudgetExhausted \/ Refuse
  <2>1. pc' = "idle"
    BY <1>6 DEF Publish, ConstraintViolated, BudgetExhausted, Refuse, Idle
  <2> QED
    BY <1>1, <2>1 DEF UInv, Update
<1>7. CASE UNCHANGED vars
  <2>1. UNCHANGED <<schema, rows, pc, change, after, deleted, queue, todo>>
    BY <1>7 DEF vars, plan
  <2>2. \A p, c : Pending(p, c)' <=> Pending(p, c)
    BY <2>1 DEF Pending
  <2>4. \A d, x, r, i : Carried(d, x, r, i)' <=> Carried(d, x, r, i)
    BY <2>1, CarriedKept
  <2>5. \A d, x : KeyAssigned(d, x)' <=> KeyAssigned(d, x)
    BY <2>1, CarriedKept
  <2>6. Followed => Followed'
    BY <2>1, <2>2, <2>4, <2>5, MatchesKept DEF Followed
  <2> QED
    BY <1>1, <2>1, <2>6 DEF UInv, Update
<1> QED
  BY <1>2, <1>3, <1>4, <1>5, <1>6, <1>7 DEF Next, Progress

\* With the queue empty every child has followed.
LEMMA FollowedWhenDone ==
  ASSUME UInv, pc = "propagate", queue = <<>>, NEW c \in schema.cons, c.updates,
         NEW p \in Parents(rows, c), NEW r \in Children(rows, c), Matches(c, p, r),
         ParentKey(Result, c, p) # ParentKey(rows, c, p), Result[p] # ABSENT
  PROVE  \A i \in DOMAIN c.ccols :
           \/ Result[r][c.ccols[i]] = Result[p][c.pcols[i]]
           \/ r = change.row /\ c.ccols[i] \in Explicit(change)
           \/ Contested(c, p, r, c.ccols[i])
<1>1. /\ p \in Rows /\ r \in Rows /\ p \in Present(rows) /\ rows[p] # ABSENT /\ rows[r] # ABSENT
      /\ TypeInv /\ c.pcols \in Seq(Columns) /\ c.ccols \in Seq(Columns) /\ DOMAIN c.ccols = DOMAIN c.pcols
  BY DEF Parents, Children, InTable, Present, UInv, DInv, IInv, TypeInv, Constraint
<1>2. Result[p] = Final(p) /\ p \notin deleted
  BY <1>1 DEF Result
<1>3. PICK i \in DOMAIN c.pcols : Final(p)[c.pcols[i]] # rows[p][c.pcols[i]]
  BY <1>2 DEF ParentKey, KeyOf
<1>4. c.pcols[i] \in Columns /\ after[p][c.pcols[i]] # UNSET
  BY <1>1, <1>3 DEF Final
<1>5. change.kind # "delete" /\ deleted = {} /\ Followed
  BY <1>1, <1>4 DEF UInv, Update
<1>6. KeyAssigned(c, p)
  BY <1>1, <1>4 DEF KeyAssigned, AssignedKey, Assigned
<1>7. \A j \in DOMAIN c.ccols : Carried(c, p, r, j)
  BY <1>5, <1>6 DEF Followed, Pending
<1>8. Result[r] = Final(r)
  BY <1>1, <1>5 DEF Result
<1>9. ASSUME NEW j \in DOMAIN c.ccols, after[r][c.ccols[j]] = Final(p)[c.pcols[j]]
      PROVE  Final(r)[c.ccols[j]] = Final(p)[c.pcols[j]]
  <2>1. c.ccols[j] \in Columns /\ c.pcols[j] \in Columns
    BY <1>1
  <2>2. Final(p)[c.pcols[j]] # UNSET
    BY <1>1, <2>1, FinalType, CascadeAssumption DEF RowType
  <2> QED
    BY <1>9, <2>1, <2>2 DEF Final
<1> QED
  BY <1>2, <1>7, <1>8, <1>9 DEF Carried

\* A row whose key is changed under cascading updates takes its children along, for every
\* schema, circles included, but for fields the caller set and fields two parents set.
THEOREM ChildrenAlwaysFollow == Spec => ChildrenFollow
<1> DEFINE Follow ==
      \A c \in schema.cons : c.updates =>
        \A p \in Parents(rows, c) : ChangedParent(c, p) =>
          \A r \in Children(rows, c) : Matches(c, p, r) =>
            \A i \in DOMAIN c.ccols :
              \/ rows'[r][c.ccols[i]] = rows'[p][c.pcols[i]]
              \/ r = change.row /\ c.ccols[i] \in Explicit(change)
              \/ Contested(c, p, r, c.ccols[i])
<1>1. Init => UInv
  BY InitInv DEF Init, UInv, DInv, Deletion, Update
<1>2. ASSUME rows' = rows PROVE Follow
  BY <1>2 DEF ChangedParent, ParentKey
<1>3. ASSUME UInv, NEW ch \in Changes, Direct(ch) PROVE Follow
  <2>1. /\ rows' = [rows EXCEPT ![ch.row] = Changed(ch)] /\ ~Cascades(ch) /\ Names(ch)
        /\ rows \in Contents /\ ch.row \in Rows
    BY <1>3, ChangedType DEF Direct, UInv, DInv, IInv, TypeInv
  <2>2. ASSUME NEW c \in schema.cons, c.updates, NEW p \in Parents(rows, c), ChangedParent(c, p) PROVE FALSE
    <3>1. p = ch.row /\ rows[p] # ABSENT /\ schema.table[p] = c.parent
      BY <2>1, <2>2 DEF ChangedParent, ParentKey, Contents, Parents, InTable, Present
    <3>2. ch.kind # "insert"
      BY <2>1, <3>1 DEF Names
    <3> QED
      BY <2>1, <2>2, <3>1, <3>2 DEF Cascades, Touches, Cascading, Table
  <2> QED
    BY <2>2
<1>4. ASSUME UInv, Publish PROVE Follow
  <2>1. pc = "propagate" /\ queue = <<>> /\ rows' = Result
    BY <1>4 DEF Publish
  <2> SUFFICES ASSUME NEW c \in schema.cons, c.updates, NEW p \in Parents(rows, c), ChangedParent(c, p),
                      NEW r \in Children(rows, c), Matches(c, p, r)
               PROVE  \A i \in DOMAIN c.ccols :
                        \/ rows'[r][c.ccols[i]] = rows'[p][c.pcols[i]]
                        \/ r = change.row /\ c.ccols[i] \in Explicit(change)
                        \/ Contested(c, p, r, c.ccols[i])
    OBVIOUS
  <2>2. ParentKey(Result, c, p) # ParentKey(rows, c, p) /\ Result[p] # ABSENT
    BY <2>1 DEF ChangedParent, ParentKey
  <2> QED
    BY <1>4, <2>1, <2>2, FollowedWhenDone
<1>5. ASSUME UInv, Next PROVE Follow
  <2>1. CASE \E ch \in Changes : Direct(ch)
    BY <1>3, <1>5, <2>1
  <2>2. CASE Publish
    BY <1>4, <1>5, <2>2
  <2>3. CASE rows' = rows
    BY <1>2, <2>3
  <2>4. rows' = rows \/ Publish \/ \E ch \in Changes : Direct(ch)
    BY <1>5 DEF Next, Progress, Prepare, Propagate, NextRow, ConstraintViolated, BudgetExhausted, Refuse
  <2> HIDE DEF Follow
  <2> QED
    BY <2>1, <2>2, <2>3, <2>4
<1>6. UInv /\ [Next]_vars => [Follow]_vars
  BY <1>5
<1> QED
  BY <1>1, <1>6, NextUpdate, PTL DEF Spec, ChildrenFollow

=============================================================================
