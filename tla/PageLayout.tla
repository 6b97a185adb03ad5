----------------------------- MODULE PageLayout -----------------------------
(***************************************************************************)
(* The bytes of a row data page: slot words that grow upward from          *)
(* DirectoryOffset, row bytes that grow downward from the end of the page, *)
(* each row ending where the previous slot's row starts.  append, replace  *)
(* and remove move bytes and rewrite words; beside them runs the slot-level*)
(* page of DataPage, and the properties say the two agree.                 *)
(***************************************************************************)
EXTENDS DataPage

CONSTANTS Vals,       \* what rows hold
          Lens        \* the lengths of encoded rows

\* RowSlot::check_length: no row is empty.
ASSUME LayoutAssumption == Lens \subseteq Nat \ {0}

VARIABLES cells,      \* the page's bytes: 0 .. PageBytes - 1 -> byte
          words,      \* the slot words: start offset and the two flags
          free,       \* the stored free-byte count
          released,   \* byte 0 is the released tag
          model       \* the same page as DataPage describes it

vars == <<cells, words, free, released, model>>

Bytes == (Vals \X (0 .. PageBytes)) \union {NIL}

\* The bytes of an encoded row; cell k of row v is told apart from all others.
Encoded(v, n) == [k \in 0 .. n - 1 |-> <<v, k>>]

\* image.write_at(offset, bytes)
WriteAt(c, offset, n, source) ==
  [b \in DOMAIN c |-> IF b \in offset .. offset + n - 1 THEN source[b - offset] ELSE c[b]]

\* source[from .. from + n]
ReadAt(c, from, n) == [k \in 0 .. n - 1 |-> c[from + k]]

Flags(kind) ==
  [hidden |-> kind \in {"storage", "storage_link", "deleted"},
   overflow |-> kind \in {"link", "storage_link", "deleted"}]
Word(start, kind) == [start |-> start, flags |-> Flags(kind)]

\* DataPageDirectory::entry: a row ends where the slot before it starts.
RowEnd(ws, s) == IF s = 1 THEN PageBytes ELSE ws[s - 1].start
RowLen(ws, s) == RowEnd(ws, s) - ws[s].start

\* RowSlot::read
ReadSlot(ws, s) ==
  LET f == ws[s].flags
  IN  CASE f.hidden /\ f.overflow /\ RowLen(ws, s) = 0 -> "deleted"
        [] f.hidden /\ f.overflow /\ RowLen(ws, s) # 0 -> "storage_link"
        [] f.hidden /\ ~f.overflow -> "storage"
        [] ~f.hidden /\ f.overflow -> "link"
        [] OTHER -> "ordinary"

DirectoryEnd(ws) == DirectoryOffset + EntryLen * Len(ws)
Lowest(ws) == ws[Len(ws)].start

\* DataPageEditor::packed: the stored count is the gap below the lowest row.
Packed(ws, f) == f = Lowest(ws) - DirectoryEnd(ws)

-----------------------------------------------------------------------------

\* What an edit may store: rows and storage of any length, pointers.
Storable == {Slot(k, n, v) : k \in {"ordinary", "storage"}, n \in Lens, v \in Vals}
              \union {Slot(k, PointerLen, v) : k \in {"link", "storage_link"}, v \in Vals}

\* DataPageBuilder: one row at the end of a zero page, or of a released page
\* whose slack stays where it is.
Build(slot, c) ==
  /\ NewPageFits(slot.len)
  /\ cells' = WriteAt(c, PageBytes - slot.len, slot.len, Encoded(slot.val, slot.len))
  /\ words' = <<Word(PageBytes - slot.len, slot.kind)>>
  /\ free' = PageBytes - slot.len - DirectoryOffset - EntryLen
  /\ released' = FALSE
  /\ model' = NewPage(NIL, slot)

Reuse ==
  /\ released
  /\ \E slot \in Storable : slot.kind \in {"ordinary", "storage"} /\ Build(slot, cells)

\* Room for a row and its slot word.
RoomFor(len) == free >= len + EntryLen

AppendBytes(slot) ==
  /\ ~released
  /\ \E s \in DOMAIN words : ReadSlot(words, s) # "deleted"
  /\ Packed(words, free)
  /\ Len(words) < MaxBuiltRows
  /\ RoomFor(slot.len)
  /\ cells' = WriteAt(cells, Lowest(words) - slot.len, slot.len, Encoded(slot.val, slot.len))
  /\ words' = Append(words, Word(Lowest(words) - slot.len, slot.kind))
  /\ free' = free - slot.len - EntryLen
  /\ UNCHANGED released
  /\ model' = AppendRow(model, slot)

\* Where the rows below the replaced one move to; Mutant: where they were.
MovedToOldGap(newFree) == DirectoryEnd(words) + free
MovedTo(newFree) == DirectoryEnd(words) + newFree

\* The rows below a replaced row move by the difference in length; its own end
\* stays, so its start moves too.
ReplaceBytes(s, slot) ==
  LET old == RowLen(words, s)
      newFree == free + old - slot.len
      moved == ReadAt(cells, Lowest(words), words[s].start - Lowest(words))
      shifted == WriteAt(cells, MovedTo(newFree), words[s].start - Lowest(words), moved)
  IN  /\ ~released
      /\ ReadSlot(words, s) # "deleted"
      /\ Packed(words, free)
      /\ free + old >= slot.len
      /\ cells' = WriteAt(shifted, RowEnd(words, s) - slot.len, slot.len,
                          Encoded(slot.val, slot.len))
      /\ words' = [i \in DOMAIN words |->
                     IF i < s THEN words[i]
                     ELSE Word(words[i].start + old - slot.len,
                               IF i = s THEN slot.kind ELSE ReadSlot(words, i))]
      /\ free' = newFree
      /\ UNCHANGED released
      /\ model' = ReplaceRow(model, s, slot)

\* Where a row below a removed one starts afterwards; Mutant: where it did.
StartKept(s, i) == words[i].start
StartMoved(s, i) == words[i].start + RowLen(words, s)

\* The flags a slot below a removed row keeps; Mutant: its neighbour's.
FlagsOfEarlier(s, i) == ReadSlot(words, IF i > 1 THEN i - 1 ELSE i)
FlagsKept(s, i) == ReadSlot(words, i)

\* A removed row's slot becomes an empty range at its old end; the rows below
\* move up over it.  The last live row releases the page instead.
RemoveBytes(s) ==
  LET removed == RowLen(words, s)
      live == {i \in DOMAIN words : ReadSlot(words, i) # "deleted"}
  IN  /\ ~released
      /\ removed # 0
      /\ Packed(words, free)
      /\ free' = free + removed
      /\ IF live = {s}
           THEN /\ released' = TRUE
                /\ words' = [i \in DOMAIN words |-> Word(PageBytes, "deleted")]
                /\ UNCHANGED cells
           ELSE /\ cells' = WriteAt(cells, Lowest(words) + removed,
                                    words[s].start - Lowest(words),
                                    ReadAt(cells, Lowest(words), words[s].start - Lowest(words)))
                /\ words' = [i \in DOMAIN words |->
                               IF i < s THEN words[i]
                               ELSE IF i = s THEN Word(RowEnd(words, s), "deleted")
                               ELSE Word(StartMoved(s, i), FlagsKept(s, i))]
                /\ UNCHANGED released
      /\ model' = RemoveRow(model, s)

Init ==
  \E slot \in Storable :
    /\ slot.kind = "ordinary" /\ NewPageFits(slot.len)
    /\ cells = WriteAt([b \in 0 .. PageBytes - 1 |-> NIL], PageBytes - slot.len, slot.len,
                       Encoded(slot.val, slot.len))
    /\ words = <<Word(PageBytes - slot.len, slot.kind)>>
    /\ free = PageBytes - slot.len - DirectoryOffset - EntryLen
    /\ released = FALSE
    /\ model = NewPage(NIL, slot)

Next ==
  \/ Reuse
  \/ \E slot \in Storable : AppendBytes(slot)
  \/ \E s \in DOMAIN words, slot \in Storable : ReplaceBytes(s, slot)
  \/ \E s \in DOMAIN words : RemoveBytes(s)

Spec == Init /\ [][Next]_vars

-----------------------------------------------------------------------------
(* Properties. *)

\* validate_entry accepts every slot word an edit leaves: row ranges descend
\* without overlapping, stay clear of the directory, and only hidden slots are
\* empty; and the free-byte count a later edit insists on is the true gap (a
\* released page counts all but its directory).
DirectoryValid ==
  /\ \A s \in DOMAIN words :
       /\ words[s].start <= RowEnd(words, s)
       /\ words[s].start = RowEnd(words, s) => words[s].flags.hidden
       /\ DirectoryEnd(words) <= words[s].start
  /\ Packed(words, free)

\* Whatever rows were appended, resized, moved and removed around it, every
\* slot still reads as the kind, the length and exactly the bytes last stored in
\* it, and the page's free count and tag are those of the slot-level page.
BytesMatchSlots ==
  /\ DOMAIN words = DOMAIN model.slots
  /\ \A s \in DOMAIN words :
       LET slot == model.slots[s]
       IN  /\ ReadSlot(words, s) = slot.kind
           /\ RowLen(words, s) = slot.len
           /\ ReadAt(cells, words[s].start, slot.len) = Encoded(slot.val, slot.len)
  /\ free = model.free
  /\ released = (model.tag = "released")
=============================================================================
