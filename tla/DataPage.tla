------------------------------ MODULE DataPage ------------------------------
(***************************************************************************)
(* A row data page as its editor sees it (row/data_page.rs, insert_page.rs,*)
(* update_page.rs, delete_page.rs, directory.rs): a directory of slots that*)
(* never shrinks, each slot holding a row, a link to hidden storage, hidden*)
(* storage, or nothing any more, and a stored count of free bytes.         *)
(* PageLayout shows that the byte movements of the editor implement these  *)
(* operators.                                                              *)
(***************************************************************************)
EXTENDS Naturals, Sequences, FiniteSets

CONSTANTS NIL,
          PageBytes,         \* PAGE_BYTES
          DirectoryOffset,   \* DIRECTORY_OFFSET: where the slot words begin
          EntryLen,          \* ENTRY_LEN: bytes per slot word
          MaxBuiltRows,      \* MAX_BUILT_ROWS: slots a page may have
          PointerLen         \* width of an overflow pointer

ASSUME PageConstants ==
  /\ PageBytes \in Nat /\ DirectoryOffset \in Nat /\ EntryLen \in Nat
  /\ MaxBuiltRows \in Nat /\ PointerLen \in Nat \ {0}
  /\ DirectoryOffset + EntryLen < PageBytes

\* RowSlot: what the hidden and overflow flags of a slot say.
RowSlot == {"ordinary", "link", "storage", "storage_link", "deleted"}
Hidden(slot) == slot.kind \in {"storage", "storage_link", "deleted"}
Overflow(slot) == slot.kind \in {"link", "storage_link"}

Slot(kind, len, val) == [kind |-> kind, len |-> len, val |-> val]
Tombstone == Slot("deleted", 0, NIL)

\* RowSlot::check_length
LengthValid(slot) ==
  CASE slot.kind = "deleted" -> slot.len = 0
    [] slot.kind \in {"link", "storage_link"} -> slot.len = PointerLen
    [] OTHER -> slot.len # 0

LiveSlots(pg) == {s \in DOMAIN pg.slots : pg.slots[s].kind # "deleted"}

\* has_capacity: a minimum row and its slot word fit.
HasCapacity(pg, minimum) ==
  /\ Len(pg.slots) < MaxBuiltRows
  /\ pg.free >= minimum + EntryLen

-----------------------------------------------------------------------------
(* DataPageBuilder with one row, as plan_eof_insert uses it. *)

NewPageFits(len) == DirectoryOffset + EntryLen + len <= PageBytes

NewPage(owner, slot) ==
  [tag |-> "data", owner |-> owner,
   free |-> PageBytes - DirectoryOffset - EntryLen - slot.len,
   slots |-> <<slot>>]

-----------------------------------------------------------------------------
(* DataPageEditor::append, replace and remove. *)


AppendFits(pg, len) ==
  /\ LiveSlots(pg) # {}
  /\ Len(pg.slots) < MaxBuiltRows
  /\ pg.free >= len + EntryLen

AppendRow(pg, slot) ==
  [pg EXCEPT !.slots = Append(@, slot), !.free = @ - slot.len - EntryLen]

ReplaceFits(pg, s, len) == pg.free + pg.slots[s].len >= len

ReplaceRow(pg, s, slot) ==
  [pg EXCEPT !.slots[s] = slot, !.free = @ + pg.slots[s].len - slot.len]

\* Mutant: a page without a visible row is released, hidden storage or not.
RemoveVisible(pg, s) ==
  IF \A i \in LiveSlots(pg) \ {s} : Hidden(pg.slots[i])
    THEN [pg EXCEPT !.tag = "released", !.slots = [i \in DOMAIN @ |-> Tombstone]]
    ELSE [pg EXCEPT !.slots[s] = Tombstone, !.free = @ + pg.slots[s].len]

\* The last live row takes its page with it: tag 9, every slot a tombstone.
RemoveRow(pg, s) ==
  IF LiveSlots(pg) = {s}
    THEN [pg EXCEPT !.tag = "released", !.free = @ + pg.slots[s].len,
                    !.slots = [i \in DOMAIN @ |-> Tombstone]]
    ELSE [pg EXCEPT !.slots[s] = Tombstone, !.free = @ + pg.slots[s].len]
=============================================================================
