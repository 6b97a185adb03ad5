\* Bitmap pages of three bits, windows of five; those of the tables start after the first five pages.
SPECIFICATION Spec
CONSTANTS
  Roles = {owned, index}
  Global = global
  InlineBits = 5
  SlotBits = 3
  Slots = 3
  Bases = {5}
  MaxChanges = 2
INVARIANT BitmapsIncluded
