\* Two writers, no exclusion, one hook substitution, one crash; a file or none at first.
SPECIFICATION Spec
CONSTANTS
  Writers = {w1, w2}
  Inodes = {i1, i2, i3, i4}
  NIL = NIL
  Original = Original
  Zero = Zero
  Torn = Torn
  Foreign = Foreign
  Target = Target
  MaxAttempts = 2
  MaxPages = 3
  MaxCalls = 2
  MaxCrashes = 1
  MaxSubstitutions = 1
  InitialPages = {0, 2}
  Exclusive = FALSE
SYMMETRY InodeSymmetry
CHECK_DEADLOCK FALSE
INVARIANTS PrivateFilesArePrivate
PROPERTIES PublishesThePlan NeverInPlace StaleOnlyAfterCopy ForeignEntriesSurvive FailedMeansUnpublished LeftoverReported
