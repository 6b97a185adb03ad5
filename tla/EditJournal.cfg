\* Pages of two cells, up to three pages, two plans of two edits, one foreign file.
SPECIFICATION Spec
CONSTANTS
  Cells = {c1, c2}
  Values = {blank, v1, v2}
  Blank = blank
  MaxPages = 3
  MaxEdits = 2
  MaxPlans = 2
  MaxForeign = 1
SYMMETRY CellAndValueSymmetry
CHECK_DEADLOCK FALSE
INVARIANTS PlanIsItsEdits JournalDescribesPrivate
PROPERTIES PublishesTheSequence
