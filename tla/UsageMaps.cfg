\* Bitmap pages of three bits, inline windows of four.
SPECIFICATION Spec
CONSTANTS
  Roles = {owned, index}
  Global = global
  InlineBits = 4
  SlotBits = 3
  Slots = 3
  Bases = {0, 2}
  MaxChanges = 2
INVARIANTS NextPlanAccepted EveryPageAccounted
PROPERTIES PlansEnd
