\* Three or four rows, two columns, two values and null.
SPECIFICATION Spec
CONSTANTS
  Rows = {1, 2, 3, 4}
  Columns = {"a", "b"}
  Values = {null, 1, 2}
  NULL = null
  ABSENT = absent
  UNSET = unset
  Schemas <- MCSchemas
  Work = 15
INVARIANTS ReferentialIntegrity
PROPERTIES ChildrenFollow DeletesTheClosure CascadesEnd
