CONSTANTS
  Files <- MCFiles
  MaxPPBranchRuns = 16

SPECIFICATION Spec

INVARIANTS
  RunsBounded
  AllOrFirst

PROPERTIES
  Terminates

\* The loop ends.
CHECK_DEADLOCK FALSE
