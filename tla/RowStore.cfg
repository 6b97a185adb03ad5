\* Three pages of ten bytes, two tables, two short rows and a long one.
SPECIFICATION Spec
CONSTANTS
  NIL = NIL
  t1 = t1
  t2 = t2
  a = a
  b = b
  c = c
  Tables <- MCTables
  Values <- MCValues
  Lens <- MCLens
  Files <- MCFiles
  PageBytes = 10
  DirectoryOffset = 1
  EntryLen = 1
  MaxBuiltRows = 2
  PointerLen = 2
  MinimumLen = 1
  MaxPages = 3
  MaxChainDepth = 2
CHECK_DEADLOCK FALSE
INVARIANTS NextCallAccepts MapsPartition
PROPERTIES TouchedPagesKnowTheirRoom ImplementsTableRows
SYMMETRY ValueSymmetry
VIEW file
