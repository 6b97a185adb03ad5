\* Pages of ten bytes, a Memo and a property column, values inline, shared, filling a page and chained.
SPECIFICATION Spec
CONSTANTS
  NIL = NIL
  PageBytes = 10
  DirectoryOffset = 1
  EntryLen = 1
  MaxBuiltRows = 3
  PointerLen = 2
  Columns = {1, 2}
  Ole = {2}
  Property = {2}
  Rows = {1, 2}
  Lens = {0, 3, 9}
  InlineLimit = 1
  PropertyLimit = 5
  ChainPointer = 2
  MaxDeclared = 14
  MaxChainDepth = 3
  MaxPages = 4
  Files <- MCFiles
CHECK_DEADLOCK FALSE
INVARIANTS ReadsGiven PagesAccounted NextLoadAccepts
VIEW Visible
