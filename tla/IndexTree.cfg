\* All-null, partly null, plain and too wide keys under every null policy over three rows;
\* seven rows in a tree of three levels.  With its counter at the limit an empty index
\* refuses every insertion.
SPECIFICATION Spec
CHECK_DEADLOCK FALSE
CONSTANTS
  Rows = {1, 2, 3, 4, 5, 6, 7}
  Keys = {0, 1, 2, 3}
  NullKey = 0
  PartNull = {1}
  Width <- MCWidth
  AreaBytes = 8
  ChildBytes = 1
  MaxPage = 7
  CounterMax = 2
  MaxDepth = 4
  NIL = nil
  Settings <- MCSettings
INVARIANTS UniqueKeys NextLoadAccepts
PROPERTIES BuildEnds
