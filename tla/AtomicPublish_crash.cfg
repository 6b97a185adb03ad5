\* Writers one after the other, two crashes, one hook substitution, one private name.
SPECIFICATION Spec
CONSTANTS
  Writers = {w1, w2}
  Inodes = {i1, i2, i3, i4}
  NIL = NIL
  Original = Original
  Zero = Zero
  Torn = Torn
  Foreign = Foreign
  Target = Target
  MaxAttempts = 1
  MaxPages = 3
  MaxCalls = 2
  MaxCrashes = 2
  MaxSubstitutions = 1
  InitialPages = {1}
  Exclusive = TRUE
SYMMETRY InodeSymmetry
CHECK_DEADLOCK FALSE
INVARIANTS TypeOK TargetIntact
PROPERTY ImplementsAtomicFile
