----------------------------- MODULE AutoNumber -----------------------------
(***************************************************************************)
(* The AutoNumber column of a table (write/auto_number.rs).  The table     *)
(* definition keeps one unsigned counter.  An insertion allocates the next *)
(* value even when the caller gives an explicit one, a replacement must    *)
(* keep the value of the row, and a deletion leaves the counter alone.     *)
(* Values are signed, the counter compares them as unsigned numbers.       *)
(*                                                                         *)
(* An insertion refused elsewhere (a unique index, a budget) publishes     *)
(* nothing, the counter included: it is a step that does not take place.   *)
(***************************************************************************)
EXTENDS Integers

CONSTANTS Rows,
          Half,      \* 2^31; the counter has twice as many values
          Generate   \* RowValue::AutoIncrement, also: no row

ASSUME HalfAssumption == Half \in Nat \ {0}
Longs == -Half .. Half - 1
Counters == 0 .. 2 * Half - 1
ASSUME GenerateAssumption == Generate \notin Longs

VARIABLES state,    \* AutoNumberState
          rows,     \* row -> its AutoNumber field
          used,     \* history: every value the column ever held
          wrapped   \* history: the counter has passed its maximum

vars == <<state, rows, used, wrapped>>

AsU32(v) == IF v < 0 THEN v + 2 * Half ELSE v
AsI32(c) == IF c >= Half THEN c - 2 * Half ELSE c

-----------------------------------------------------------------------------

\* wrapping_add(1)
AllocatedUnchecked(s) == s + 1
Allocated(s) == IF s = 2 * Half - 1 THEN 0 ELSE s + 1
ValueBefore(s, requested) == IF requested = Generate THEN AsI32(s) ELSE requested
Value(s, requested) == IF requested = Generate THEN AsI32(Allocated(s)) ELSE requested
Signed(s, v) == IF v > Allocated(s) THEN AsU32(v) ELSE Allocated(s)
Unsigned(s, v) == IF AsU32(v) > Allocated(s) THEN AsU32(v) ELSE Allocated(s)

Insert(r, requested) ==
  /\ rows[r] = Generate
  /\ state' = Unsigned(state, Value(state, requested))
  /\ rows' = [rows EXCEPT ![r] = Value(state, requested)]
  /\ used' = used \union {Value(state, requested)}
  /\ wrapped' = (wrapped \/ state = 2 * Half - 1)

\* AutoNumber::retain: the value given is AutoIncrement or the one the row has.
AnyLong(r, requested) == TRUE
Retained(r, requested) == requested \in {Generate, rows[r]}
ReplaceRow(r, requested) ==
  /\ rows[r] # Generate /\ Retained(r, requested)
  /\ rows' = [rows EXCEPT ![r] = IF requested = Generate THEN @ ELSE requested]
  /\ used' = used \union {rows'[r]}
  /\ UNCHANGED <<state, wrapped>>

Delete(r) ==
  /\ rows[r] # Generate
  /\ rows' = [rows EXCEPT ![r] = Generate]
  /\ UNCHANGED <<state, used, wrapped>>

Init ==
  /\ state = 0 /\ wrapped = FALSE
  /\ rows = [r \in Rows |-> Generate] /\ used = {}

Next == \E r \in Rows :
  \/ Delete(r)
  \/ \E v \in Longs \union {Generate} : Insert(r, v) \/ ReplaceRow(r, v)

Spec == Init /\ [][Next]_vars

-----------------------------------------------------------------------------
(* Properties. *)

TypeOK ==
  /\ state \in Counters /\ wrapped \in BOOLEAN
  /\ rows \in [Rows -> Longs \union {Generate}]
  /\ used \subseteq Longs

\* Until the counter wraps it has passed every value the column ever held, explicit,
\* negative, overwritten and deleted ones included.
CounterCovers == ~wrapped => \A v \in used : AsU32(v) <= state

\* So a generated value is one no row, living or deleted, ever had; only an insertion
\* after the counter has passed its maximum may meet an old one.
GeneratedIsNew ==
  [][\A r \in Rows : Insert(r, Generate) /\ ~wrapped' => rows'[r] \notin used]_vars
=============================================================================
