CONSTANTS
  Members <- MCMembers
  Sentinels <- MCSentinels
  Hunks <- MCHunks
  Patches <- MCPatches
  Editions <- MCEditions
  MaxFailures = 3
  MaxEdits = 2

SPECIFICATION Spec

INVARIANTS
  ReadyUnlessTorn
  

PROPERTIES
  WorkIsKept
  RerunSucceeds
