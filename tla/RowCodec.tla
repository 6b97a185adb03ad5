------------------------------ MODULE RowCodec ------------------------------
(***************************************************************************)
(* One stored row (row/writer*.rs, row/reader*.rs, row/value.rs): a count  *)
(* of storage columns, the fixed area, the variable values, their          *)
(* boundaries in reverse order (the low byte of each), the jump ordinals   *)
(* at which the boundaries pass a multiple of a byte, the number of        *)
(* variable slots, and the presence bits.  A row is never rewritten when   *)
(* its table gains or loses a column, so the reader has to place the       *)
(* columns of today in a row of any earlier day.                           *)
(*                                                                         *)
(* A row is a sequence of bytes, a byte a number below Block: with a small *)
(* Block every threshold of the format (a row longer than a byte can       *)
(* point, a slot count equal to the unused-jump marker) is within reach.   *)
(***************************************************************************)
EXTENDS Integers, Sequences, FiniteSets, FiniteSetsExt, SequencesExt

CONSTANTS Block,           \* the values of a byte: 256
          Bits,            \* presence bits in a byte: 8
          FixedLimit,      \* longest row without and
          VariableLimit,   \* with variable slots: 2003, 2012
          LongValueHeader  \* bytes of the smallest long-value field: 12

ASSUME RowConstants ==
  /\ Block \in Nat \ {0, 1} /\ Bits \in Nat \ {0} /\ 2^Bits <= Block
  /\ {FixedLimit, VariableLimit, LongValueHeader} \subseteq Nat

MaxColumns == Block - 1
UnusedJump == Block - 1

\* A field: null, or its bytes.  A Boolean is <<0>> or <<1>>.
Null == [null |-> TRUE, bytes |-> <<>>]
Val(bytes) == [null |-> FALSE, bytes |-> bytes]

CeilDiv(a, b) == (a + b - 1) \div b
AtLeast(n, S) == Max(S \union {n})

LongTypes == {"Memo", "LongBinary"}
VariableTypes == LongTypes \union {"Binary", "Text"}
SizeValid(type, size) ==
  CASE type \in {"Boolean", "Byte"} -> size = 1
    [] type = "Integer" -> size = 2
    [] type \in {"Long", "Single"} -> size = 4
    [] type \in {"Currency", "Double", "DateTime"} -> size = 8
    [] type = "Guid" -> size = 16
    [] type \in {"Binary", "Text"} -> size \in 1 .. Block - 1
    [] OTHER -> size = 0

IsVariable(c) == c.class = "variable"
Occupies(c) == ~IsVariable(c) /\ c.type # "Boolean"
ClassValid(c) == IF IsVariable(c) THEN c.type \in VariableTypes
                 ELSE c.type \notin VariableTypes \ {"Text"}
Overlap(c, d) == /\ Occupies(c) /\ Occupies(d)
                 /\ c.offset < d.offset + d.size /\ d.offset < c.offset + c.size

JumpCount(length) == IF length <= Block THEN 0 ELSE CeilDiv(length - Block, Block - 1)
MaximumLength(variables) == IF variables = 0 THEN FixedLimit ELSE VariableLimit

-----------------------------------------------------------------------------
(* Writing. *)

ValueFits(c, v) ==
  \/ v.null
  \/ c.type = "Boolean" /\ v.bytes \in {<<0>>, <<1>>}
  \/ c.type \in LongTypes /\ Len(v.bytes) >= LongValueHeader
  \/ c.type \in {"Text", "Binary"} /\ IsVariable(c) /\ Len(v.bytes) <= c.size
  \/ Occupies(c) /\ Len(v.bytes) = c.size
Stored(c, v) == /\ ~v.null
                /\ c.type = "Boolean" => v.bytes = <<1>>
                /\ c.type = "Binary" => v.bytes # <<>>

\* The columns as the definition keeps them, in the order of their storage ordinals.
LayoutAccepted(columns) ==
  /\ Len(columns) <= MaxColumns
  /\ \A i \in DOMAIN columns :
       LET c == columns[i]
       IN /\ c.storage < MaxColumns /\ SizeValid(c.type, c.size) /\ ClassValid(c)
          /\ \A j \in 1 .. i - 1 :
               /\ columns[j].storage < c.storage
               /\ ~Overlap(c, columns[j])
               /\ IsVariable(c) /\ IsVariable(columns[j]) => columns[j].var # c.var

ColumnCount(columns) == IF columns = <<>> THEN 0 ELSE Last(columns).storage + 1
VariableCount(columns) ==
  AtLeast(0, {columns[i].var + 1 : i \in {j \in DOMAIN columns : IsVariable(columns[j])}})
FixedBytes(columns) ==
  AtLeast(0, {columns[i].offset + columns[i].size : i \in {j \in DOMAIN columns : Occupies(columns[j])}})
\* What each variable slot holds; the slots of dropped columns stay, empty.
Slots(columns, values) ==
  [s \in 1 .. VariableCount(columns) |->
     LET here == {i \in DOMAIN columns : IsVariable(columns[i]) /\ columns[i].var = s - 1}
     IN IF here = {} THEN <<>> ELSE values[Min(here)].bytes]

\* The sizes of the parts, from the bytes of the fixed area, of the values and of
\* the presence bits, and the slots.
ShapeOf(variables, fixed, payload, nulls) ==
  LET area == IF variables = 0 THEN AtLeast(2, {fixed}) ELSE fixed
      plain == 1 + area + payload + nulls + (IF variables = 0 THEN 0 ELSE variables + 2)
      jumps == IF variables = 0 THEN 0 ELSE JumpCount(plain)
  IN [fixed |-> area, variables |-> variables, nulls |-> nulls, jumps |-> jumps,
      length |-> plain + jumps]
RowShape(columns, slots) ==
  ShapeOf(Len(slots), FixedBytes(columns), Len(FlattenSeq(slots)), CeilDiv(ColumnCount(columns), Bits))
ShapeFits(shape) == shape.length <= MaximumLength(shape.variables)

RowAccepted(columns, values) ==
  /\ LayoutAccepted(columns) /\ Len(values) = Len(columns)
  /\ \A i \in DOMAIN columns : ValueFits(columns[i], values[i])
  /\ ShapeFits(RowShape(columns, Slots(columns, values)))

WriteFixed(columns, values, size) ==
  [p \in 1 .. size |->
     LET here == {i \in DOMAIN columns : /\ Occupies(columns[i]) /\ Stored(columns[i], values[i])
                                         /\ p - columns[i].offset \in 1 .. columns[i].size}
     IN IF here = {} THEN 0 ELSE LET i == Min(here) IN values[i].bytes[p - columns[i].offset]]
\* Mutant: the presence bits go by position among the live columns.
WriteNullsInOrder(columns, values, count) ==
  [p \in 1 .. count |->
     MapThenSumSet(LAMBDA i : 2^((i - 1) % Bits),
       {i \in DOMAIN columns : Stored(columns[i], values[i]) /\ (i - 1) \div Bits = p - 1})]
WriteNulls(columns, values, count) ==
  [p \in 1 .. count |->
     MapThenSumSet(LAMBDA i : 2^(columns[i].storage % Bits),
       {i \in DOMAIN columns : /\ Stored(columns[i], values[i])
                               /\ columns[i].storage \div Bits = p - 1})]
WriteTrailer(start, slots, jumps) ==
  LET count == Len(slots)
      ends[n \in 0 .. count] == IF n = 0 THEN start ELSE ends[n - 1] + Len(slots[n])
      jump(block) == LET past == {n \in 0 .. count : ends[n] >= Block * block}
                     IN IF past = {} THEN UnusedJump ELSE Min(past)
  IN [n \in 1 .. count + 1 |-> ends[count + 1 - n] % Block]
       \o [n \in 1 .. jumps |-> jump(jumps + 1 - n)]
       \o <<count>>

WriteParts(columns, values, slots, shape) ==
  <<ColumnCount(columns)>> \o WriteFixed(columns, values, shape.fixed)
    \o FlattenSeq(slots)
    \o (IF slots = <<>> THEN <<>> ELSE WriteTrailer(1 + shape.fixed, slots, shape.jumps))
    \o WriteNulls(columns, values, shape.nulls)
WriteSlots(columns, values, slots) == WriteParts(columns, values, slots, RowShape(columns, slots))
WriteRow(columns, values) == WriteSlots(columns, values, Slots(columns, values))

-----------------------------------------------------------------------------
(* Reading, under the definition the table has now. *)

\* The live columns a row of this many storage columns can hold.
Held(definition, count) == SelectSeq(definition.columns, LAMBDA c : c.storage < count)
NullStart(row) == Len(row) - CeilDiv(row[1], Bits)

LayoutOf(row, held, nullStart) ==
  LET variables == IF VariableCount(held) = 0 THEN 0 ELSE row[nullStart]
      jumps == IF variables = 0 THEN 0 ELSE (Len(row) - 1) \div Block
  IN [nullStart |-> nullStart, variables |-> variables, jumps |-> jumps,
      fixed |-> 1 + FixedBytes(held),
      offsets |-> IF variables = 0 THEN nullStart ELSE nullStart - 2 - variables - jumps,
      deleted |-> Len(held) < row[1]]
RowLayout(row, definition) == LayoutOf(row, Held(definition, row[1]), NullStart(row))

JumpAt(row, layout, position) == row[1 + layout.offsets + layout.variables + position]
Boundary(row, layout, ordinal) ==
  IF ordinal = UnusedJump THEN layout.offsets
  ELSE row[1 + layout.offsets + layout.variables - ordinal]
         + Block * Cardinality({p \in 1 .. layout.jumps :
                                  LET jump == JumpAt(row, layout, p)
                                  IN jump # UnusedJump /\ ordinal >= jump})

JumpsValid(row, layout) ==
  \A p \in 1 .. layout.jumps :
    LET jump == JumpAt(row, layout, p)
        threshold == Block * (layout.jumps + 1 - p)
    IN IF jump = UnusedJump
       THEN \/ layout.offsets < threshold
            \/ /\ layout.variables = UnusedJump
               /\ Boundary(row, layout, UnusedJump - 1) < threshold
       ELSE /\ jump <= layout.variables
            /\ Boundary(row, layout, jump) >= threshold
            /\ jump = 0 \/ Boundary(row, layout, jump - 1) < threshold

VariablesValid(row, layout, minimum, definition) ==
  /\ layout.variables >= minimum
  /\ layout.variables <= definition.variables /\ layout.variables <= row[1]
  /\ ~layout.deleted => layout.variables = minimum
  /\ JumpCount(Len(row) - layout.jumps) = layout.jumps
  /\ layout.offsets >= 1
  /\ layout.variables = UnusedJump => row[1 + layout.offsets] = layout.offsets % Block
  /\ LET start == Boundary(row, layout, 0)
     IN start >= layout.fixed /\ (~layout.deleted => start = layout.fixed)
  /\ \A n \in 1 .. layout.variables :
       Boundary(row, layout, n - 1) <= Boundary(row, layout, n)
  /\ Boundary(row, layout, layout.variables) = layout.offsets
  /\ JumpsValid(row, layout)

RowValid(row, definition) ==
  /\ row # <<>> /\ row[1] <= definition.storage
  /\ LET held == Held(definition, row[1])
         minimum == VariableCount(held)
         nullStart == NullStart(row)
     IN /\ nullStart >= 1
        /\ Len(row) <= MaximumLength(IF Len(held) < row[1] THEN definition.variables ELSE minimum)
        /\ IF minimum = 0
           THEN /\ nullStart >= 1 + FixedBytes(held)
                /\ Len(held) = row[1] =>
                     nullStart \in {1 + FixedBytes(held), AtLeast(3, {1 + FixedBytes(held)})}
           ELSE VariablesValid(row, RowLayout(row, definition), minimum, definition)

BitSet(row, layout, storage) ==
  /\ storage < row[1]
  /\ (row[1 + layout.nullStart + storage \div Bits] \div 2^(storage % Bits)) % 2 = 1

\* RowView::value
ValueIn(row, layout, c) ==
  LET stored == BitSet(row, layout, c.storage)
  IN CASE c.type = "Boolean" -> Val(IF stored THEN <<1>> ELSE <<0>>)
       [] c.type # "Boolean" /\ ~stored -> Null
       [] OTHER -> Val(IF IsVariable(c)
                       THEN SubSeq(row, 1 + Boundary(row, layout, c.var), Boundary(row, layout, c.var + 1))
                       ELSE SubSeq(row, 2 + c.offset, 1 + c.offset + c.size))
RowValue(row, definition, c) == ValueIn(row, RowLayout(row, definition), c)
=============================================================================
