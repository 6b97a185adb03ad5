\* A counter of eight values, so that negative values and the wrap occur.
SPECIFICATION Spec
CONSTANTS
  Rows = {r1, r2}
  Half = 4
  Generate = generate
INVARIANTS TypeOK CounterCovers
PROPERTIES GeneratedIsNew
