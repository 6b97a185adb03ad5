CONSTANTS
  Block = 8
  Bits = 3
  FixedLimit = 20
  VariableLimit = 24
  LongValueHeader = 1
  PageBytes = 105
  NameBytes = 1
  KeySlots = 2
  SystemPages = 2
  MaxIndexes = 4
  MapRowsPerPage = 3
  Fold <- MCFold
  Hidden <- MCHidden
  Cases <- MCCases
SPECIFICATION Spec
INVARIANTS
  PagesAccounted
  RowsKeepTheirColumns
  RequiredFollows
  RelationshipsFollow
  PublishedValidates
CHECK_DEADLOCK FALSE
