-------------------------- MODULE AutoNumberProofs --------------------------
(* AutoNumber for every width of the counter and any set of rows. *)
EXTENDS AutoNumber, TLAPS

\* The casts between signed values and the counter are inverse to each other.
LEMMA Casts ==
  /\ \A c \in Counters : AsI32(c) \in Longs /\ AsU32(AsI32(c)) = c
  /\ \A v \in Longs : AsU32(v) \in Counters
BY HalfAssumption DEF Counters, Longs, AsI32, AsU32

\* An insertion stores a Long, and the counter covers it and does not fall unless it wraps.
LEMMA Allocation ==
  ASSUME NEW s \in Counters, NEW q \in Longs \union {Generate}
  PROVE  /\ Value(s, q) \in Longs
         /\ Unsigned(s, Value(s, q)) \in Counters
         /\ AsU32(Value(s, q)) <= Unsigned(s, Value(s, q))
         /\ s # 2 * Half - 1 => s < Allocated(s) /\ Allocated(s) <= Unsigned(s, Value(s, q))
<1>1. Allocated(s) \in Counters /\ (s # 2 * Half - 1 => s < Allocated(s))
  BY HalfAssumption DEF Counters, Allocated
<1>2. Value(s, q) \in Longs
  BY <1>1, Casts DEF Value
<1>3. AsU32(Value(s, q)) \in Counters
  BY <1>2, Casts
<1> QED
  BY <1>1, <1>2, <1>3, HalfAssumption DEF Counters, Unsigned

\* A new table's counter is zero and it has no rows.
LEMMA InitTypes == Init => TypeOK
<1>1. 0 \in Counters
  BY HalfAssumption DEF Counters
<1>2. Init => wrapped \in BOOLEAN
  BY DEF Init
<1>3. Init => rows \in [Rows -> Longs \union {Generate}] /\ used \subseteq Longs
  BY DEF Init
<1> QED
  BY <1>1, <1>2, <1>3 DEF Init, TypeOK

\* The type invariant: the counter stays in its width, stored values are Longs.
THEOREM TypeCorrect == Spec => []TypeOK
<1>1. Init => TypeOK
  BY InitTypes
<1>2. TypeOK /\ [Next]_vars => TypeOK'
  <2> SUFFICES ASSUME TypeOK, [Next]_vars PROVE TypeOK'
    OBVIOUS
  <2>1. ASSUME NEW r \in Rows, Delete(r) PROVE TypeOK'
    BY <2>1 DEF Delete, TypeOK
  <2>2. ASSUME NEW r \in Rows, NEW v \in Longs \union {Generate}, Insert(r, v) PROVE TypeOK'
    <3>1. Value(state, v) \in Longs /\ Unsigned(state, Value(state, v)) \in Counters
      BY Allocation DEF TypeOK
    <3>2. wrapped' \in BOOLEAN
      BY <2>2 DEF Insert
    <3> QED
      BY <2>2, <3>1, <3>2 DEF Insert, TypeOK
  <2>3. ASSUME NEW r \in Rows, NEW v \in Longs \union {Generate}, ReplaceRow(r, v) PROVE TypeOK'
    BY <2>3, GenerateAssumption DEF ReplaceRow, TypeOK
  <2>4. CASE UNCHANGED vars
    BY <2>4 DEF vars, TypeOK
  <2> QED
    BY <2>1, <2>2, <2>3, <2>4 DEF Next
<1> QED
  BY <1>1, <1>2, PTL DEF Spec

\* The values of living rows were used: what ReplaceRow keeps is nothing new.
RowsUsed == \A r \in Rows : rows[r] # Generate => rows[r] \in used
IInv == TypeOK /\ RowsUsed /\ CounterCovers

\* Every insertion, replacement and deletion preserves the inductive invariant.
LEMMA Inductive == IInv /\ [Next]_vars => IInv'
<1> SUFFICES ASSUME IInv, [Next]_vars PROVE RowsUsed' /\ CounterCovers' /\ TypeOK'
  BY DEF IInv
<1> USE DEF IInv
<1>1. ASSUME NEW r \in Rows, Delete(r) PROVE RowsUsed' /\ CounterCovers' /\ TypeOK'
  BY <1>1 DEF Delete, TypeOK, RowsUsed, CounterCovers
<1>2. ASSUME NEW r \in Rows, NEW v \in Longs \union {Generate}, Insert(r, v)
      PROVE  RowsUsed' /\ CounterCovers' /\ TypeOK'
  <2> DEFINE x == Value(state, v)
  <2>1. /\ x \in Longs /\ state' \in Counters /\ AsU32(x) <= state'
        /\ state # 2 * Half - 1 => state < Allocated(state) /\ Allocated(state) <= state'
    BY <1>2, Allocation DEF Insert, TypeOK
  <2>2. RowsUsed'
    BY <1>2 DEF Insert, TypeOK, RowsUsed
  <2>3. TypeOK'
    <3>1. wrapped' \in BOOLEAN
      BY <1>2 DEF Insert
    <3> QED
      BY <1>2, <2>1, <3>1 DEF Insert, TypeOK
  <2>4. CounterCovers'
    <3> SUFFICES ASSUME ~wrapped', NEW y \in used' PROVE AsU32(y) <= state'
      BY DEF CounterCovers, AsU32
    <3>1. ~wrapped /\ state # 2 * Half - 1
      BY <1>2 DEF Insert
    <3>2. CASE y = x
      BY <3>2, <2>1
    <3>3. CASE y \in used
      <4>1. AsU32(y) <= state /\ AsU32(y) \in Counters
        BY <3>1, <3>3, Casts DEF CounterCovers, TypeOK
      <4>2. state \in Counters /\ Allocated(state) \in Counters
        BY HalfAssumption DEF TypeOK, Counters, Allocated
      <4> QED
        BY <4>1, <4>2, <3>1, <2>1, HalfAssumption DEF Counters
    <3> QED
      BY <1>2, <3>2, <3>3 DEF Insert
  <2> QED
    BY <2>2, <2>3, <2>4
<1>3. ASSUME NEW r \in Rows, NEW v \in Longs \union {Generate}, ReplaceRow(r, v)
      PROVE  RowsUsed' /\ CounterCovers' /\ TypeOK'
  <2>1. rows' = rows /\ used' = used /\ state' = state /\ wrapped' = wrapped
    BY <1>3 DEF ReplaceRow, Retained, TypeOK, RowsUsed
  <2> QED
    BY <2>1 DEF TypeOK, RowsUsed, CounterCovers
<1>4. CASE UNCHANGED vars
  BY <1>4 DEF vars, TypeOK, RowsUsed, CounterCovers
<1> QED
  BY <1>1, <1>2, <1>3, <1>4 DEF Next

\* The inductive invariant holds in every state.
LEMMA AlwaysIInv == Spec => []IInv
<1>1. Init => IInv
  BY InitTypes DEF Init, IInv, RowsUsed, CounterCovers
<1> QED
  BY <1>1, Inductive, PTL DEF Spec

\* Until it wraps the counter has passed every value the column ever held.
THEOREM CounterAlwaysCovers == Spec => []CounterCovers
<1>1. IInv => CounterCovers
  BY DEF IInv
<1> QED
  BY <1>1, AlwaysIInv, PTL

\* Before the wrap a generated value is none a row, living or deleted, ever had.
THEOREM GeneratedAlwaysNew == Spec => GeneratedIsNew
<1>1. ASSUME IInv, NEW r \in Rows, Insert(r, Generate), ~wrapped' PROVE rows'[r] \notin used
  <2>1. ~wrapped /\ state # 2 * Half - 1 /\ state \in Counters
    BY <1>1 DEF Insert, IInv, TypeOK
  <2>2. rows'[r] = AsI32(Allocated(state))
    BY <1>1 DEF Insert, Value, IInv, TypeOK
  <2>3. Allocated(state) \in Counters /\ state < Allocated(state)
    BY <2>1, HalfAssumption DEF Counters, Allocated
  <2>4. AsU32(rows'[r]) = Allocated(state)
    BY <2>2, <2>3, Casts
  <2>5. \A v \in used : AsU32(v) <= state
    BY <1>1, <2>1 DEF IInv, CounterCovers
  <2> QED
    BY <2>1, <2>3, <2>4, <2>5, HalfAssumption DEF Counters
<1>2. IInv /\ [Next]_vars =>
        [\A r \in Rows : Insert(r, Generate) /\ ~wrapped' => rows'[r] \notin used]_vars
  BY <1>1
<1> QED
  BY <1>2, AlwaysIInv, PTL DEF Spec, GeneratedIsNew
=============================================================================
