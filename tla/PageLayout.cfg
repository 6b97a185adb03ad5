\* A page of ten bytes with up to three slots.
SPECIFICATION Spec
CONSTANTS
  NIL = NIL
  PageBytes = 10
  DirectoryOffset = 1
  EntryLen = 1
  MaxBuiltRows = 3
  PointerLen = 2
  Vals = {a, b}
  Lens = {1, 4}
CHECK_DEADLOCK FALSE
INVARIANTS DirectoryValid BytesMatchSlots
